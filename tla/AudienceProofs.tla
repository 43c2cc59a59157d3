---------------------------- MODULE AudienceProofs ----------------------------
(* Proofs about what an audience may still do and what its hosts decided      *)
(* (AudienceStore): for any number of participants, requests and tries, each  *)
(* request counts once, a decision holds from its event on, and nothing is    *)
(* written past a limit or after the end; about what a viewer's panel shows   *)
(* (AudiencePanel), whatever becomes of the envelopes on their way; and about *)
(* the work of a Round's author (DraftEditor), whoever else saves the draft.  *)
EXTENDS MCAudience, FiniteSetTheorems, FunctionTheorems, NaturalsInduction, SequenceTheorems,
        WellFoundedInduction, TLAPS

\* What the tables hold.
SettingsRow == [there : BOOLEAN, closed : BOOLEAN, chat : BOOLEAN, signals : BOOLEAN]
RestrictionRow == [muted : BOOLEAN, banned : BOOLEAN]
MessageRow == [id : Nat \X Nat, by : Speakers, removed : BOOLEAN]
StoreOps ==
    {"post", "signal", "react", "report", "remove", "restore", "settings"}
        \cup SettingsOps \cup RestrictionOps
EventRow ==
    [key : Nat, op : StoreOps, by : Speakers \cup {Nobody},
     on : Speakers \cup {Nobody} \cup (Nat \X Nat), decided : RestrictionRow, chat : BOOLEAN]
TryRow ==
    [key : Nat, n : {1, 2}, ask : Askable, at : {"bootstrap", "write"},
     settings : SettingsRow, restriction : RestrictionRow]

\* What is under way and what is stored have the shape the routes give them; a message's
\* request has its event.
TriesStand == tries \subseteq TryRow
LogStands == log \in Seq(EventRow)
MessagesStand ==
    /\ IsFiniteSet(messages) /\ messages \subseteq MessageRow
    /\ \A m \in messages : m.id[1] = 0 \/ Logged(m.id[1])

\* A logged restriction is the one in force, or a later event decided about the same
\* participant.
DecisionsHold ==
    \A i \in 1..Len(log) :
        log[i].op \in RestrictionOps =>
            /\ log[i].on \in Speakers
            /\ \/ restriction[log[i].on] = log[i].decided
               \/ \E k \in i + 1..Len(log) :
                     log[k].op \in RestrictionOps /\ log[k].on = log[i].on

\* A message whose removal is logged is removed, or a later event brought it back.
RemovalsHold ==
    \A i \in 1..Len(log) :
        log[i].op = "remove" =>
            \/ Removed(log[i].on)
            \/ \E k \in i + 1..Len(log) : log[k].op = "restore" /\ log[k].on = log[i].on

\* After the session its settings are locked for good, or were never written.
FinishedIsLocked == finished => settings.closed \/ ~settings.there

\* The inductive invariant.
StoreIInv ==
    /\ StoreTypeOK /\ TriesStand /\ LogStands /\ MessagesStand
    /\ DecisionsHold /\ RemovalsHold /\ FinishedIsLocked
    /\ RequestsCountOnce /\ SilencedIsSilent /\ RemovedIsLeftAlone /\ ClosedIsClosed
    /\ QuotaHolds /\ BansReachQuestions

-------------------------------------------------------------------------------
(* The log grows by one event.                                                *)

\* An appended event comes last and leaves those before it.
LEMMA GrownLog ==
  ASSUME LogStands, NEW e \in EventRow, log' = Append(log, e)
  PROVE  /\ LogStands' /\ Len(log) \in Nat /\ Len(log') = Len(log) + 1
         /\ \A i \in 1..Len(log) : log'[i] = log[i] /\ log[i] \in EventRow
         /\ log'[Len(log) + 1] = e
<1>1. Len(log) \in Nat /\ \A i \in 1..Len(log) : log[i] \in EventRow
  BY LenProperties, ElementOfSeq DEF LogStands
<1>2. log' \in Seq(EventRow) /\ Len(log') = Len(log) + 1
  BY AppendProperties DEF LogStands
<1>3. (\A i \in 1..Len(log) : log'[i] = log[i]) /\ log'[Len(log) + 1] = e
  BY AppendProperties DEF LogStands
<1> QED
  BY <1>1, <1>2, <1>3 DEF LogStands

\* Every request has one event, and a key that has one keeps it.
LEMMA KeysStay ==
  ASSUME LogStands, NEW e \in EventRow, log' = Append(log, e), ~Logged(e.key),
         \A i, j \in 1..Len(log) : log[i].key = log[j].key => i = j
  PROVE  /\ \A i, j \in 1..Len(log') : log'[i].key = log'[j].key => i = j
         /\ Logged(e.key)' /\ \A key : Logged(key) => Logged(key)'
<1>1. /\ Len(log) \in Nat /\ Len(log') = Len(log) + 1 /\ log'[Len(log) + 1] = e
      /\ \A i \in 1..Len(log) : log'[i] = log[i]
  BY GrownLog
<1>2. \A i \in 1..Len(log) : log'[i].key # e.key
  BY <1>1 DEF Logged
<1>3. \A i, j \in 1..Len(log') : log'[i].key = log'[j].key => i = j
  <2> SUFFICES ASSUME NEW i \in 1..Len(log'), NEW j \in 1..Len(log'), log'[i].key = log'[j].key
               PROVE  i = j
    OBVIOUS
  <2>1. (i \in 1..Len(log) \/ i = Len(log) + 1) /\ (j \in 1..Len(log) \/ j = Len(log) + 1)
    BY <1>1
  <2> QED
    BY <1>1, <1>2, <2>1
<1>4. Logged(e.key)'
  BY <1>1 DEF Logged
<1>5. ASSUME NEW key, Logged(key) PROVE Logged(key)'
  BY <1>1, <1>5 DEF Logged
<1> QED
  BY <1>3, <1>4, <1>5

\* What an event decides about a participant holds from then on, and every other event
\* leaves the restrictions alone.
LEMMA DecisionsStay ==
  ASSUME StoreTypeOK, LogStands, DecisionsHold, NEW e \in EventRow, log' = Append(log, e),
         \/ /\ e.op \in RestrictionOps /\ e.on \in Speakers
            /\ restriction' = [restriction EXCEPT ![e.on] = e.decided]
         \/ e.op \notin RestrictionOps /\ restriction' = restriction
  PROVE  DecisionsHold'
<1>1. /\ Len(log) \in Nat /\ Len(log') = Len(log) + 1 /\ log'[Len(log) + 1] = e
      /\ \A i \in 1..Len(log) : log'[i] = log[i]
  BY GrownLog
<1>2. DOMAIN restriction = Speakers
  BY DEF StoreTypeOK
<1> DEFINE Again(l, i) == \E k \in i + 1..Len(l) :
                             l[k].op \in RestrictionOps /\ l[k].on = l[i].on
<1>3. ASSUME NEW i \in 1..Len(log), log[i].op \in RestrictionOps
      PROVE  /\ log'[i].on \in Speakers
             /\ restriction'[log'[i].on] = log'[i].decided \/ Again(log', i)
  <2>1. log'[i] = log[i] /\ log[i].on \in Speakers
    BY <1>1, <1>3 DEF DecisionsHold
  <2>2. CASE Again(log, i)
    <3>1. PICK k \in i + 1..Len(log) : log[k].op \in RestrictionOps /\ log[k].on = log[i].on
      BY <2>2
    <3>2. k \in i + 1..Len(log') /\ k \in 1..Len(log)
      BY <1>1, <3>1
    <3>3. log'[k].op \in RestrictionOps /\ log'[k].on = log'[i].on
      BY <1>1, <2>1, <3>1, <3>2
    <3> QED
      BY <2>1, <3>2, <3>3
  <2>3. CASE restriction[log[i].on] = log[i].decided /\ e.op \in RestrictionOps /\ e.on = log[i].on
    <3>1. Len(log) + 1 \in i + 1..Len(log')
      BY <1>1
    <3> QED
      BY <1>1, <2>1, <2>3, <3>1
  <2>4. CASE /\ restriction[log[i].on] = log[i].decided
             /\ (e.op \in RestrictionOps => e.on # log[i].on)
    BY <1>2, <2>1, <2>4
  <2> QED
    BY <1>3, <2>2, <2>3, <2>4 DEF DecisionsHold
<1>4. e.op \in RestrictionOps => e.on \in Speakers /\ restriction'[e.on] = e.decided
  BY <1>2
<1>5. ASSUME NEW i \in 1..Len(log'), log'[i].op \in RestrictionOps
      PROVE  /\ log'[i].on \in Speakers
             /\ restriction'[log'[i].on] = log'[i].decided \/ Again(log', i)
  <2>1. i \in 1..Len(log) \/ i = Len(log) + 1
    BY <1>1
  <2> QED
    BY <1>1, <1>3, <1>4, <1>5, <2>1
<1> QED
  BY <1>5 DEF DecisionsHold

\* A participant's post or signal is accepted only while the restriction in force allows
\* it, hence after every decision against it has been followed by another.
LEMMA SilentStays ==
  ASSUME LogStands, DecisionsHold, SilencedIsSilent, NEW e \in EventRow, log' = Append(log, e),
         e.op = "signal" => ~restriction[e.by].banned,
         e.op = "post" => restriction[e.by] = Free
  PROVE  SilencedIsSilent'
<1>1. /\ Len(log) \in Nat /\ Len(log') = Len(log) + 1 /\ log'[Len(log) + 1] = e
      /\ \A i \in 1..Len(log) : log'[i] = log[i]
  BY GrownLog
<1> SUFFICES ASSUME NEW i \in 1..Len(log'), NEW j \in 1..Len(log'),
                    i < j, log'[i].op \in RestrictionOps, log'[j].by = log'[i].on,
                    \/ log'[j].op = "signal" /\ log'[i].decided.banned
                    \/ log'[j].op = "post" /\ log'[i].decided # Free
             PROVE  \E k \in i + 1..j - 1 :
                       log'[k].op \in RestrictionOps /\ log'[k].on = log'[i].on
  BY DEF SilencedIsSilent
<1>2. i \in 1..Len(log) /\ log'[i] = log[i]
  BY <1>1
<1>3. CASE j \in 1..Len(log)
  <2>1. PICK k \in i + 1..j - 1 : log[k].op \in RestrictionOps /\ log[k].on = log[i].on
    BY <1>1, <1>2, <1>3 DEF SilencedIsSilent
  <2>2. log'[k] = log[k]
    BY <1>1, <1>3
  <2> QED
    BY <1>2, <2>1, <2>2
<1>4. CASE j = Len(log) + 1
  <2>1. log'[j] = e /\ restriction[log[i].on] # log[i].decided
    BY <1>1, <1>2, <1>4
  <2>2. PICK k \in i + 1..Len(log) : log[k].op \in RestrictionOps /\ log[k].on = log[i].on
    BY <1>2, <2>1 DEF DecisionsHold
  <2>3. k \in i + 1..j - 1 /\ log'[k] = log[k]
    BY <1>1, <1>4
  <2> QED
    BY <1>2, <2>2, <2>3
<1> QED
  BY <1>1, <1>3, <1>4

\* A logged removal is in force until an event that restores the message.
LEMMA RemovalsStay ==
  ASSUME LogStands, RemovalsHold, NEW e \in EventRow, log' = Append(log, e),
         e.op = "remove" => Removed(e.on)',
         \A id : Removed(id) => Removed(id)' \/ (e.op = "restore" /\ e.on = id)
  PROVE  RemovalsHold'
<1>1. /\ Len(log) \in Nat /\ Len(log') = Len(log) + 1 /\ log'[Len(log) + 1] = e
      /\ \A i \in 1..Len(log) : log'[i] = log[i]
  BY GrownLog
<1> DEFINE Back(l, i) == \E k \in i + 1..Len(l) : l[k].op = "restore" /\ l[k].on = l[i].on
<1>2. ASSUME NEW i \in 1..Len(log), log[i].op = "remove"
      PROVE  Removed(log[i].on)' \/ Back(log', i)
  <2>1. log'[i] = log[i]
    BY <1>1
  <2>2. CASE Back(log, i)
    <3>1. PICK k \in i + 1..Len(log) : log[k].op = "restore" /\ log[k].on = log[i].on
      BY <2>2
    <3>2. k \in i + 1..Len(log') /\ log'[k] = log[k]
      BY <1>1, <3>1
    <3> QED
      BY <2>1, <3>1, <3>2
  <2>3. CASE Removed(log[i].on)
    <3>1. Len(log) + 1 \in i + 1..Len(log')
      BY <1>1
    <3> QED
      BY <1>1, <2>1, <2>3, <3>1
  <2> QED
    BY <1>2, <2>2, <2>3 DEF RemovalsHold
<1>3. ASSUME NEW i \in 1..Len(log'), log'[i].op = "remove"
      PROVE  Removed(log[i].on)' \/ Back(log', i)
  <2>1. i \in 1..Len(log) \/ i = Len(log) + 1
    BY <1>1
  <2> QED
    BY <1>1, <1>2, <1>3, <2>1
<1> QED
  BY <1>3 DEF RemovalsHold

\* A reply or a reaction is accepted only to a message that is not removed.
LEMMA AloneStays ==
  ASSUME LogStands, RemovalsHold, RemovedIsLeftAlone, NEW e \in EventRow, log' = Append(log, e),
         e.op \in {"post", "react"} => ~Removed(e.on)
  PROVE  RemovedIsLeftAlone'
<1>1. /\ Len(log) \in Nat /\ Len(log') = Len(log) + 1 /\ log'[Len(log) + 1] = e
      /\ \A i \in 1..Len(log) : log'[i] = log[i]
  BY GrownLog
<1> SUFFICES ASSUME NEW i \in 1..Len(log'), NEW j \in 1..Len(log'),
                    i < j, log'[i].op = "remove", log'[j].op \in {"post", "react"},
                    log'[j].on = log'[i].on
             PROVE  \E k \in i + 1..j - 1 : log'[k].op = "restore" /\ log'[k].on = log'[i].on
  BY DEF RemovedIsLeftAlone
<1>2. i \in 1..Len(log) /\ log'[i] = log[i]
  BY <1>1
<1>3. CASE j \in 1..Len(log)
  <2>1. PICK k \in i + 1..j - 1 : log[k].op = "restore" /\ log[k].on = log[i].on
    BY <1>1, <1>2, <1>3 DEF RemovedIsLeftAlone
  <2>2. log'[k] = log[k]
    BY <1>1, <1>3
  <2> QED
    BY <1>2, <2>1, <2>2
<1>4. CASE j = Len(log) + 1
  <2>1. ~Removed(log[i].on)
    BY <1>1, <1>2, <1>4
  <2>2. PICK k \in i + 1..Len(log) : log[k].op = "restore" /\ log[k].on = log[i].on
    BY <1>2, <2>1 DEF RemovalsHold
  <2>3. k \in i + 1..j - 1 /\ log'[k] = log[k]
    BY <1>1, <1>4
  <2> QED
    BY <1>2, <2>2, <2>3
<1> QED
  BY <1>1, <1>3, <1>4

-------------------------------------------------------------------------------
(* Requests arrive and give up, and an event is written.                      *)

\* What a request asks for, by its route.
LEMMA AskableStands ==
  ASSUME NEW ask \in Askable
  PROVE  /\ ask.op \in {"post", "signal", "react", "report", "remove", "restore"}
                          \cup SettingsOps \cup RestrictionOps
         /\ ask.by \in Speakers \cup {Nobody}
         /\ ask.on \in Speakers \cup {Nobody} \cup MessageIds
         /\ ask.op \in {"post", "signal", "react", "report"} => ask.by \in Speakers
         /\ ask.op \in {"remove", "restore"} => ask.on \in MessageIds
         /\ ask.op \in RestrictionOps => ask.on \in Speakers
  BY DEF Askable, Ask, SettingsOps, RestrictionOps

\* Whatever was askable stays so while no message disappears.
LEMMA AskableStays ==
  ASSUME MessageIds \subseteq MessageIds'
  PROVE  Askable \subseteq Askable'
<1> DEFINE A(named) ==
      {Ask(op, p, Nobody) : op \in {"post", "signal"}, p \in Speakers}
        \cup {Ask(op, p, m) : op \in {"post", "react", "report"}, p \in Speakers, m \in named}
        \cup {Ask(op, Nobody, m) : op \in {"remove", "restore"}, m \in named}
        \cup {Ask(op, Nobody, Nobody) : op \in SettingsOps}
        \cup {Ask(op, Nobody, p) : op \in RestrictionOps, p \in Speakers}
<1>1. ASSUME NEW S, NEW T, S \subseteq T PROVE A(S) \subseteq A(T)
  BY <1>1
<1>2. Askable = A(MessageIds) /\ Askable' = A(MessageIds')
  BY DEF Askable
<1> HIDE DEF A
<1> QED
  BY <1>1, <1>2

\* The messages stay and no request's ask is lost.
LEMMA TriesStay ==
  ASSUME MessageIds \subseteq MessageIds', NEW T, T \subseteq TryRow
  PROVE  T \subseteq TryRow'
<1>1. Askable \subseteq Askable'
  BY AskableStays
<1> QED
  BY <1>1 DEF TryRow

\* A try keeps what it read in the rows' shape.
LEMMA TryStands ==
  ASSUME StoreTypeOK, NEW key \in Nat, NEW n \in {1, 2}, NEW ask \in Askable,
         NEW at \in {"bootstrap", "write"}, NEW read \in SettingsRow
  PROVE  Try(key, n, ask, at, read) \in TryRow
<1> DEFINE s == IF ask.op \in SettingsOps THEN read ELSE Fresh
           r == IF ask.op \in RestrictionOps THEN restriction[ask.on] ELSE Free
<1>1. s \in SettingsRow
  BY DEF SettingsRow, Fresh
<1>2. r \in RestrictionRow
  BY AskableStands DEF RestrictionRow, Free, StoreTypeOK
<1>3. Try(key, n, ask, at, read)
        = [key |-> key, n |-> n, ask |-> ask, at |-> at, settings |-> s, restriction |-> r]
  BY DEF Try
<1> HIDE DEF s, r
<1> QED
  BY <1>1, <1>2, <1>3 DEF TryRow

\* A request whose checks pass is under way, and nothing else changes.
LEMMA BeginsTry ==
  ASSUME StoreTypeOK, TriesStand, NEW key \in Nat, NEW n \in {1, 2}, NEW ask \in Askable,
         Begins(key, n, ask)
  PROVE  /\ tries' \subseteq TryRow
         /\ \A t \in tries' : t \in tries \/ (t.key = key /\ t.n = n)
<1>1. PICK at \in {"bootstrap", "write"} :
         tries' \subseteq tries \cup {Try(key, n, ask, at, settings)}
  BY DEF Begins
<1>2. settings \in SettingsRow
  BY DEF StoreTypeOK, SettingsRow
<1>3. Try(key, n, ask, at, settings) \in TryRow
  BY <1>2, TryStands
<1>4. Try(key, n, ask, at, settings).key = key /\ Try(key, n, ask, at, settings).n = n
  BY DEF Try
<1> QED
  BY <1>1, <1>3, <1>4 DEF TriesStand

\* What a step does to the messages while it logs e: none disappears or loses its event,
\* nobody has too many, and the removals follow the event.
MessagesFollow(e) ==
    /\ MessagesStand' /\ MessageIds \subseteq MessageIds' /\ QuotaHolds'
    /\ \A m, n \in messages' : m.id[1] = n.id[1] => m = n
    /\ e.op = "remove" => Removed(e.on)'
    /\ \A id : Removed(id) => Removed(id)' \/ (e.op = "restore" /\ e.on = id)

\* An event that leaves the messages alone and removes none of them.
LEMMA SameMessages ==
  ASSUME StoreIInv, NEW e, messages' = messages, e.op # "remove",
         \A key : Logged(key) => Logged(key)'
  PROVE  MessagesFollow(e)
<1>1. MessagesStand'
  BY DEF StoreIInv, MessagesStand
<1>2. MessageIds' = MessageIds /\ QuotaHolds' /\ \A id : Removed(id)' <=> Removed(id)
  BY DEF StoreIInv, MessageIds, QuotaHolds, Posted, Removed
<1>3. \A m, n \in messages' : m.id[1] = n.id[1] => m = n
  BY DEF StoreIInv, RequestsCountOnce
<1> QED
  BY <1>1, <1>2, <1>3 DEF MessagesFollow

\* A message is posted for a request that has no event yet, by a participant below the
\* limit.
LEMMA PostedMessage ==
  ASSUME StoreIInv, NEW e, NEW n \in Nat, NEW p \in Speakers, NEW key \in Nat \ {0},
         ~Logged(key), Logged(key)', \A k : Logged(k) => Logged(k)',
         Posted(p) < Quota, messages' = messages \cup {Message(key, n, p)}, e.op = "post"
  PROVE  MessagesFollow(e)
<1> DEFINE new == Message(key, n, p)
<1>1. new \in MessageRow /\ new.id[1] = key /\ new.by = p /\ new.removed = FALSE
  BY DEF Message, MessageRow
<1> HIDE DEF new
<1>2. messages' = messages \cup {new}
  BY DEF new
<1>3. IsFiniteSet(messages) /\ messages \subseteq MessageRow
      /\ \A m \in messages : m.id[1] = 0 \/ Logged(m.id[1])
  BY DEF StoreIInv, MessagesStand
<1>4. IsFiniteSet(messages')
  BY <1>2, <1>3, FS_AddElement
<1>5. MessagesStand'
  BY <1>1, <1>2, <1>3, <1>4 DEF MessagesStand
<1>6. \A m \in messages : m.id[1] # key
  BY <1>3
<1>7. \A m, k \in messages' : m.id[1] = k.id[1] => m = k
  BY <1>1, <1>2, <1>6 DEF StoreIInv, RequestsCountOnce
<1>8. QuotaHolds'
  <2> SUFFICES ASSUME NEW q \in Speakers PROVE Posted(q)' <= Quota
    BY DEF QuotaHolds
  <2> DEFINE M == {m \in messages : m.by = q}
             N == {m \in messages' : m.by = q}
  <2>1. IsFiniteSet(M) /\ Cardinality(M) \in Nat
    BY <1>3, FS_Subset, FS_CardinalityType
  <2>2. Posted(q) = Cardinality(M) /\ Posted(q)' = Cardinality(N) /\ Posted(q) <= Quota
    BY DEF Posted, StoreIInv, QuotaHolds
  <2>3. CASE q = p
    <3>1. N = M \cup {new}
      BY <1>1, <1>2, <2>3
    <3>2. Cardinality(N) = Cardinality(M) \/ Cardinality(N) = Cardinality(M) + 1
      BY <2>1, <3>1, FS_AddElement
    <3>3. Cardinality(M) < Quota
      BY <2>2, <2>3
    <3> HIDE DEF M, N
    <3> QED
      BY <2>1, <2>2, <3>2, <3>3, StoreAssumption
  <2>4. CASE q # p
    <3>1. N = M
      BY <1>1, <1>2, <2>4
    <3> HIDE DEF M, N
    <3> QED
      BY <2>2, <3>1
  <2> QED
    BY <2>3, <2>4
<1>9. MessageIds \subseteq MessageIds' /\ \A id : Removed(id) => Removed(id)'
  BY <1>2 DEF MessageIds, Removed
<1> QED
  BY <1>5, <1>7, <1>8, <1>9 DEF MessagesFollow

\* The messages with one of them removed or brought back, and how they match the old ones.
Turned(M, id, b) == {IF m.id = id THEN [m EXCEPT !.removed = b] ELSE m : m \in M}
Matching(M, N, id, b) ==
    /\ IsFiniteSet(N) /\ N \subseteq MessageRow
    /\ \A m \in M : \E n \in N : n.id = m.id /\ n.by = m.by
                                /\ n.removed = (IF m.id = id THEN b ELSE m.removed)
    /\ \A n \in N : \E m \in M : /\ n.id = m.id /\ n.by = m.by
                                 /\ n = IF m.id = id THEN [m EXCEPT !.removed = b] ELSE m
    /\ \A p : Cardinality({n \in N : n.by = p}) <= Cardinality({m \in M : m.by = p})

\* A moderated set matches the one before it message by message.
LEMMA TurnedMatches ==
  ASSUME NEW M, IsFiniteSet(M), M \subseteq MessageRow, NEW id, NEW b \in BOOLEAN
  PROVE  Matching(M, Turned(M, id, b), id, b)
<1> DEFINE N == Turned(M, id, b)
<1> DEFINE F(m) == IF m.id = id THEN [m EXCEPT !.removed = b] ELSE m
<1>1. ASSUME NEW m \in M
      PROVE  /\ F(m) \in MessageRow /\ F(m).id = m.id /\ F(m).by = m.by
             /\ F(m).removed = (IF m.id = id THEN b ELSE m.removed)
  BY DEF MessageRow
<1>2. ASSUME NEW S \in SUBSET M, NEW T, T = {F(m) : m \in S}
      PROVE  IsFiniteSet(T) /\ Cardinality(T) <= Cardinality(S)
  <2> DEFINE f == [m \in S |-> F(m)]
  <2>1. f \in [S -> T] /\ \A n \in T : \E m \in S : f[m] = n
    BY <1>2
  <2>2. f \in Surjection(S, T)
    BY <2>1 DEF Surjection
  <2>3. IsFiniteSet(S)
    BY FS_Subset
  <2> QED
    BY <2>2, <2>3, FS_Surjection
<1>3. N = {F(m) : m \in M}
  BY DEF F, Turned
<1> HIDE DEF F, N
<1>4. IsFiniteSet(N)
  BY <1>2, <1>3
<1>5. ASSUME NEW p
      PROVE  Cardinality({n \in N : n.by = p}) <= Cardinality({m \in M : m.by = p})
  <2>1. {n \in N : n.by = p} = {F(m) : m \in {k \in M : k.by = p}}
    BY <1>1, <1>3
  <2>2. {k \in M : k.by = p} \in SUBSET M
    OBVIOUS
  <2> QED
    BY <1>2, <2>1, <2>2
<1>6. N \subseteq MessageRow /\ \A m \in M : F(m) \in N
  BY <1>1, <1>3
<1>7. \A n \in N : \E m \in M : n = F(m)
  BY <1>3
<1>8. \A n \in N : \E m \in M : /\ n.id = m.id /\ n.by = m.by
                                /\ n = IF m.id = id THEN [m EXCEPT !.removed = b] ELSE m
  BY <1>1, <1>7 DEF F
<1>9. \A m \in M : \E n \in N : n.id = m.id /\ n.by = m.by
                                /\ n.removed = (IF m.id = id THEN b ELSE m.removed)
  BY <1>1, <1>6
<1>10. Matching(M, N, id, b)
  BY <1>4, <1>5, <1>6, <1>8, <1>9 DEF Matching
<1> QED
  BY <1>10 DEF N

\* A host removes a message or brings it back.
LEMMA ModeratedMessages ==
  ASSUME StoreIInv, NEW e, e.op \in {"remove", "restore"}, e.on \in MessageIds,
         messages' = {IF m.id = e.on THEN [m EXCEPT !.removed = (e.op = "remove")] ELSE m :
                         m \in messages},
         \A k : Logged(k) => Logged(k)'
  PROVE  MessagesFollow(e)
<1>1. IsFiniteSet(messages) /\ messages \subseteq MessageRow
      /\ \A m \in messages : m.id[1] = 0 \/ Logged(m.id[1])
  BY DEF StoreIInv, MessagesStand
<1> DEFINE b == e.op = "remove"
<1>2. Matching(messages, messages', e.on, b)
  <2>1. messages' = Turned(messages, e.on, b)
    BY DEF Turned
  <2>2. b \in BOOLEAN
    OBVIOUS
  <2> HIDE DEF b
  <2> QED
    BY <1>1, <2>1, <2>2, TurnedMatches
<1>3. MessagesStand'
  <2>1. ASSUME NEW n \in messages' PROVE n.id[1] = 0 \/ Logged(n.id[1])'
    <3>1. PICK m \in messages : n.id = m.id
      BY <1>2 DEF Matching
    <3> DEFINE key == m.id[1]
    <3>2. n.id[1] = key
      BY <3>1
    <3> HIDE DEF key
    <3>3. key = 0 \/ Logged(key)
      BY <1>1 DEF key
    <3>4. key = 0 \/ Logged(key)'
      BY <3>3
    <3> QED
      BY <3>2, <3>4 DEF Logged
  <2> QED
    BY <1>2, <2>1 DEF MessagesStand, Matching
<1>4. MessageIds \subseteq MessageIds'
  <2>1. ASSUME NEW m \in messages PROVE m.id \in MessageIds'
    BY <1>2 DEF MessageIds, Matching
  <2> QED
    BY <2>1 DEF MessageIds
<1>5. QuotaHolds'
  <2> SUFFICES ASSUME NEW p \in Speakers PROVE Posted(p)' <= Quota
    BY DEF QuotaHolds
  <2> DEFINE M == {m \in messages : m.by = p}
             N == {m \in messages' : m.by = p}
  <2>1. IsFiniteSet(M) /\ IsFiniteSet(N)
    BY <1>1, <1>2, FS_Subset DEF Matching
  <2>2. Cardinality(M) \in Nat /\ Cardinality(N) \in Nat
    BY <2>1, FS_CardinalityType
  <2>3. Cardinality(N) <= Cardinality(M)
    BY <1>2 DEF Matching
  <2>4. Cardinality(M) <= Quota
    BY DEF StoreIInv, QuotaHolds, Posted
  <2>5. Posted(p)' = Cardinality(N)
    BY DEF Posted
  <2> HIDE DEF M, N
  <2> QED
    BY <2>2, <2>3, <2>4, <2>5, StoreAssumption
<1>6. ASSUME NEW k \in messages', NEW n \in messages', k.id[1] = n.id[1] PROVE k = n
  <2>1. PICK m \in messages : k.id = m.id
                              /\ k = IF m.id = e.on THEN [m EXCEPT !.removed = b] ELSE m
    BY <1>2 DEF Matching
  <2>2. PICK l \in messages : n.id = l.id
                              /\ n = IF l.id = e.on THEN [l EXCEPT !.removed = b] ELSE l
    BY <1>2 DEF Matching
  <2>3. m = l
    BY <1>6, <2>1, <2>2 DEF StoreIInv, RequestsCountOnce
  <2> QED
    BY <2>1, <2>2, <2>3
<1>7. ASSUME e.op = "remove" PROVE Removed(e.on)'
  <2>1. PICK m \in messages : m.id = e.on
    BY DEF MessageIds
  <2>2. PICK n \in messages' : n.id = e.on /\ n.removed = b
    <3>1. PICK n \in messages' : n.id = m.id /\ n.by = m.by
                                 /\ n.removed = (IF m.id = e.on THEN b ELSE m.removed)
      BY <1>2, Zenon DEF Matching
    <3> QED
      BY <2>1, <3>1
  <2> QED
    BY <1>7, <2>2 DEF Removed
<1>8. ASSUME NEW id, Removed(id)
      PROVE  Removed(id)' \/ (e.op = "restore" /\ e.on = id)
  <2>1. PICK m \in messages : m.id = id /\ m.removed
    BY <1>8 DEF Removed
  <2>2. PICK n \in messages' : n.id = id /\ n.removed = (IF m.id = e.on THEN b ELSE m.removed)
    BY <1>2, <2>1 DEF Matching
  <2> QED
    BY <2>1, <2>2 DEF Removed
<1> QED
  BY <1>3, <1>4, <1>5, <1>6, <1>7, <1>8 DEF MessagesFollow

-------------------------------------------------------------------------------
(* The transaction: one event with what it decides and changes.               *)

\* What a written event does to the restrictions and the bans of the questions.
Decides(e) ==
    /\ restriction' \in [Speakers -> RestrictionRow] /\ qnaBans' \subseteq Speakers
    /\ BansReachQuestions'
    /\ \/ /\ e.op \in RestrictionOps /\ e.on \in Speakers
          /\ restriction' = [restriction EXCEPT ![e.on] = e.decided]
       \/ e.op \notin RestrictionOps /\ restriction' = restriction

\* What a request had to find when it wrote the event.
Granted(e) ==
    /\ e.op = "signal" => ~restriction[e.by].banned
    /\ e.op = "post" => restriction[e.by] = Free /\ e.chat
    /\ e.op \in {"post", "react"} => ~Removed(e.on)

\* An event that nobody decided anything with.
LEMMA DecidesNothing ==
  ASSUME StoreIInv, NEW e, e.op \notin RestrictionOps, UNCHANGED << restriction, qnaBans >>
  PROVE  Decides(e)
  BY DEF StoreIInv, StoreTypeOK, Decides, RestrictionRow, BansReachQuestions

\* The event of a request: its key, what it asked, what it decided.
LEMMA EventStands ==
  ASSUME StoreIInv, NEW t \in tries, NEW decided \in RestrictionRow, NEW chat \in BOOLEAN
  PROVE  LET e == Event(t.key, t.ask, decided, chat)
         IN  /\ e \in EventRow /\ e.key = t.key /\ e.op = t.ask.op /\ e.by = t.ask.by
             /\ e.on = t.ask.on /\ e.decided = decided /\ e.chat = chat
             /\ t.key \in Nat \ {0} /\ t.n \in Nat
<1>1. t.ask \in Askable /\ t.key \in Nat \ {0} /\ t.n \in Nat
  BY DEF StoreIInv, TriesStand, TryRow, StoreTypeOK
<1>2. MessageIds \subseteq Nat \X Nat
  BY DEF StoreIInv, MessagesStand, MessageIds, MessageRow
<1>3. t.ask.op \in StoreOps /\ t.ask.by \in Speakers \cup {Nobody}
      /\ t.ask.on \in Speakers \cup {Nobody} \cup (Nat \X Nat)
  BY <1>1, <1>2, AskableStands DEF StoreOps
<1> QED
  BY <1>1, <1>3 DEF Event, EventRow

\* Whoever writes leaves the event of the request: it was granted, it decides what it says,
\* the messages follow it, and the settings stay as they are or keep their lock.
LEMMA ChangeWritesEvent ==
  ASSUME StoreIInv, NEW t \in tries, Changes(t, t.ask), ~Logged(t.key)
  PROVE  \E e \in EventRow :
            /\ e.key = t.key /\ log' = Append(log, e) /\ Granted(e) /\ Decides(e)
            /\ MessagesFollow(e)
            /\ settings' \in SettingsRow
<1> DEFINE ask == t.ask
<1>1. ask \in Askable /\ settings \in SettingsRow /\ settings.chat \in BOOLEAN
      /\ t.settings \in SettingsRow /\ t.restriction \in RestrictionRow
      /\ Free \in RestrictionRow
  BY DEF StoreIInv, TriesStand, TryRow, StoreTypeOK, SettingsRow, Free, RestrictionRow
<1>2. ask.op \in {"post", "signal", "react", "report"} => ask.by \in Speakers
  BY <1>1, AskableStands
<1>3. ask.op \in {"remove", "restore"} => ask.on \in MessageIds
  BY <1>1, AskableStands
<1>4. ask.op \in RestrictionOps => ask.on \in Speakers
  BY <1>1, AskableStands
<1>5. ASSUME NEW e \in EventRow, log' = Append(log, e), e.key = t.key
      PROVE  Logged(t.key)' /\ \A key : Logged(key) => Logged(key)'
  <2>1. \A i, j \in 1..Len(log) : log[i].key = log[j].key => i = j
    BY DEF StoreIInv, RequestsCountOnce
  <2>2. LogStands /\ ~Logged(e.key)
    BY <1>5 DEF StoreIInv
  <2>3. Logged(e.key)' /\ \A key : Logged(key) => Logged(key)'
    BY <1>5, <2>1, <2>2, KeysStay
  <2> QED
    BY <1>5, <2>3 DEF Logged
<1>6. CASE ask.op = "post" /\ Posts(t, ask)
  <2> DEFINE e == Event(t.key, ask, Free, settings.chat)
  <2>1. e \in EventRow /\ e.key = t.key /\ e.op = "post" /\ e.by = ask.by /\ e.on = ask.on
        /\ e.chat = settings.chat /\ t.key \in Nat \ {0} /\ t.n \in Nat
    BY <1>1, <1>6, EventStands
  <2>2. /\ log' = Append(log, e) /\ messages' = messages \cup {Message(t.key, t.n, ask.by)}
        /\ settings.chat /\ restriction[ask.by] = Free /\ Posted(ask.by) < Quota
        /\ ~Removed(ask.on) /\ UNCHANGED << settings, restriction, qnaBans >>
    BY <1>6 DEF Posts
  <2> HIDE DEF e
  <2>3. Logged(t.key)' /\ \A key : Logged(key) => Logged(key)'
    BY <1>5, <2>1, <2>2
  <2>4. ask.by \in Speakers
    BY <1>2, <1>6
  <2>5. MessagesFollow(e)
    BY <2>1, <2>2, <2>3, <2>4, PostedMessage
  <2>6. Decides(e)
    BY <2>1, <2>2, DecidesNothing DEF RestrictionOps
  <2>7. Granted(e)
    BY <2>1, <2>2 DEF Granted
  <2> QED
    BY <1>1, <2>1, <2>2, <2>5, <2>6, <2>7
<1>7. CASE ask.op \in {"signal", "react", "report"} /\ Reacts(t, ask)
  <2> DEFINE e == Event(t.key, ask, Free, settings.chat)
  <2>1. e \in EventRow /\ e.key = t.key /\ e.op = ask.op /\ e.by = ask.by /\ e.on = ask.on
    BY <1>1, EventStands
  <2>2. /\ log' = Append(log, e) /\ messages' = messages
        /\ ask.op = "signal" => ~restriction[ask.by].banned
        /\ ask.op = "react" => ~Removed(ask.on)
        /\ UNCHANGED << settings, restriction, qnaBans >>
    BY <1>7 DEF Reacts
  <2> HIDE DEF e
  <2>3. \A key : Logged(key) => Logged(key)'
    BY <1>5, <2>1, <2>2
  <2>4. e.op # "remove" /\ e.op # "post" /\ e.op \notin RestrictionOps
    BY <1>7, <2>1 DEF RestrictionOps
  <2>5. MessagesFollow(e)
    BY <2>2, <2>3, <2>4, SameMessages
  <2>6. Decides(e)
    BY <2>2, <2>4, DecidesNothing
  <2>7. Granted(e)
    BY <2>1, <2>2, <2>4 DEF Granted
  <2> QED
    BY <1>1, <2>1, <2>2, <2>5, <2>6, <2>7
<1>8. CASE ask.op \in {"remove", "restore"} /\ Moderates(t, ask)
  <2> DEFINE e == Event(t.key, ask, Free, settings.chat)
  <2>1. e \in EventRow /\ e.key = t.key /\ e.op = ask.op /\ e.on = ask.on
    BY <1>1, EventStands
  <2>2. /\ log' = Append(log, e)
        /\ messages' = {IF m.id = ask.on THEN [m EXCEPT !.removed = (ask.op = "remove")] ELSE m :
                           m \in messages}
        /\ UNCHANGED << settings, restriction, qnaBans >>
    BY <1>8 DEF Moderates
  <2> HIDE DEF e
  <2>3. \A key : Logged(key) => Logged(key)'
    BY <1>5, <2>1, <2>2
  <2>4. e.op \in {"remove", "restore"} /\ e.on \in MessageIds /\ e.op \notin RestrictionOps
    BY <1>3, <1>8, <2>1 DEF RestrictionOps
  <2>5. messages' = {IF m.id = e.on THEN [m EXCEPT !.removed = (e.op = "remove")] ELSE m :
                        m \in messages}
    BY <2>1, <2>2
  <2>6. MessagesFollow(e)
    BY <2>3, <2>4, <2>5, ModeratedMessages
  <2>7. Decides(e)
    BY <2>2, <2>4, DecidesNothing
  <2>8. Granted(e)
    BY <2>4 DEF Granted
  <2> QED
    BY <1>1, <2>1, <2>2, <2>6, <2>7, <2>8
<1>9. CASE ask.op \in SettingsOps /\ SavesSettings(t, ask)
  <2> DEFINE chat == CASE ask.op = "chat_on" -> TRUE
                       [] ask.op = "chat_off" -> FALSE
                       [] OTHER -> t.settings.chat
             e == Event(t.key, ask, Free, chat)
  <2>1. chat \in BOOLEAN /\ t.settings.signals \in BOOLEAN
    BY <1>1 DEF SettingsRow
  <2>2. /\ settings' = [settings EXCEPT !.chat = chat, !.signals = t.settings.signals]
        /\ log' = Append(log, e) /\ messages' = messages
        /\ UNCHANGED << restriction, qnaBans >>
    BY <1>9 DEF SavesSettings
  <2> HIDE DEF chat
  <2>3. e \in EventRow /\ e.key = t.key /\ e.op = ask.op
    BY <1>1, <2>1, EventStands
  <2> HIDE DEF e
  <2>4. \A key : Logged(key) => Logged(key)'
    BY <1>5, <2>2, <2>3
  <2>5. e.op \notin {"remove", "post", "signal", "react"} /\ e.op \notin RestrictionOps
    BY <1>9, <2>3 DEF SettingsOps, RestrictionOps
  <2>6. settings' \in SettingsRow
    BY <1>1, <2>1, <2>2 DEF SettingsRow
  <2>7. MessagesFollow(e)
    BY <2>2, <2>4, <2>5, SameMessages
  <2>8. Decides(e)
    BY <2>2, <2>5, DecidesNothing
  <2>9. Granted(e)
    BY <2>5 DEF Granted
  <2> QED
    BY <2>2, <2>3, <2>6, <2>7, <2>8, <2>9
<1>10. CASE ask.op \in RestrictionOps /\ SavesRestriction(t, ask)
  <2> DEFINE new == CASE ask.op = "mute" -> [t.restriction EXCEPT !.muted = TRUE]
                      [] ask.op = "unmute" -> [t.restriction EXCEPT !.muted = FALSE]
                      [] ask.op = "ban" -> [t.restriction EXCEPT !.banned = TRUE]
                      [] OTHER -> [t.restriction EXCEPT !.banned = FALSE]
             e == Event(t.key, ask, new, settings.chat)
  <2>1. new \in RestrictionRow
    BY <1>1 DEF RestrictionRow
  <2>2. /\ restriction' = [restriction EXCEPT ![ask.on] = new]
        /\ qnaBans' = IF new.banned THEN qnaBans \cup {ask.on} ELSE qnaBans \ {ask.on}
        /\ log' = Append(log, e) /\ UNCHANGED << settings, messages >>
    BY <1>10 DEF SavesRestriction
  <2> HIDE DEF new
  <2>3. e \in EventRow /\ e.key = t.key /\ e.op = ask.op /\ e.on = ask.on /\ e.decided = new
    BY <1>1, <2>1, EventStands
  <2> HIDE DEF e
  <2>4. \A key : Logged(key) => Logged(key)'
    BY <1>5, <2>2, <2>3
  <2>5. e.op \notin {"remove", "post", "signal", "react"} /\ e.op \in RestrictionOps
        /\ e.on \in Speakers
    BY <1>4, <1>10, <2>3 DEF RestrictionOps
  <2>6. restriction \in [Speakers -> RestrictionRow] /\ qnaBans \subseteq Speakers
        /\ \A p \in Speakers : restriction[p].banned => p \in qnaBans
    BY DEF StoreIInv, StoreTypeOK, RestrictionRow, BansReachQuestions
  <2>7. Decides(e)
    <3>1. restriction' \in [Speakers -> RestrictionRow] /\ qnaBans' \subseteq Speakers
      BY <2>1, <2>2, <2>3, <2>5, <2>6
    <3>2. ASSUME NEW p \in Speakers, restriction'[p].banned PROVE p \in qnaBans'
      BY <2>1, <2>2, <2>3, <2>5, <2>6, <3>2
    <3> QED
      BY <2>2, <2>3, <2>5, <3>1, <3>2 DEF Decides, BansReachQuestions
  <2>8. MessagesFollow(e)
    BY <2>2, <2>4, <2>5, SameMessages
  <2>9. Granted(e)
    BY <2>5 DEF Granted
  <2> QED
    BY <1>1, <2>2, <2>3, <2>7, <2>8, <2>9
<1> QED
  BY <1>6, <1>7, <1>8, <1>9, <1>10 DEF Changes

\* A written event keeps the invariant.
LEMMA WriteKeeps ==
  ASSUME StoreIInv, NEW t \in tries, Write(t)
  PROVE  StoreIInv'
<1>1. PICK e \in EventRow :
         /\ e.key = t.key /\ log' = Append(log, e) /\ Granted(e) /\ Decides(e)
         /\ MessagesFollow(e) /\ settings' \in SettingsRow
  BY ChangeWritesEvent DEF Write
<1>2. ~Logged(e.key) /\ tries' = tries \ {t} /\ ~finished
      /\ UNCHANGED << finished, closedAt, arrived, resent >>
  BY <1>1 DEF Write, StoreIInv, FinishedIsLocked
<1>3. /\ LogStands' /\ Len(log) \in Nat /\ Len(log') = Len(log) + 1
      /\ \A i \in 1..Len(log) : log'[i] = log[i] /\ log[i] \in EventRow
      /\ log'[Len(log) + 1] = e
  BY <1>1, GrownLog DEF StoreIInv
<1>4. StoreTypeOK'
  <2>1. settings' \in [there : BOOLEAN, closed : BOOLEAN, chat : BOOLEAN, signals : BOOLEAN]
    BY <1>1 DEF SettingsRow
  <2>2. restriction' \in [Speakers -> [muted : BOOLEAN, banned : BOOLEAN]]
        /\ qnaBans' \subseteq Speakers
    BY <1>1 DEF Decides, RestrictionRow
  <2>3. \A m \in messages' : m.by \in Speakers /\ m.removed \in BOOLEAN
    BY <1>1 DEF MessagesFollow, MessagesStand, MessageRow
  <2>4. finished' \in BOOLEAN /\ closedAt' \in 0..Len(log')
    BY <1>2, <1>3 DEF StoreIInv, StoreTypeOK
  <2>5. /\ arrived' \in 0..MaxRequests /\ resent' \in 0..MaxRetries
        /\ \A u \in tries' : u.key \in 1..arrived' /\ u.n \in {1, 2}
                             /\ u.at \in {"bootstrap", "write"}
    BY <1>2 DEF StoreIInv, StoreTypeOK
  <2> QED
    BY <2>1, <2>2, <2>3, <2>4, <2>5 DEF StoreTypeOK
<1>5. TriesStand'
  <2>1. tries' \subseteq TryRow
    BY <1>2 DEF StoreIInv, TriesStand
  <2> QED
    BY <1>1, <2>1, TriesStay DEF MessagesFollow, TriesStand
<1>6. MessagesStand' /\ QuotaHolds' /\ BansReachQuestions'
  BY <1>1 DEF MessagesFollow, Decides
<1>7. DecisionsHold'
  BY <1>1, DecisionsStay DEF StoreIInv, Decides
<1>8. SilencedIsSilent'
  BY <1>1, SilentStays DEF StoreIInv, Granted
<1>9. RemovalsHold'
  BY <1>1, RemovalsStay DEF StoreIInv, MessagesFollow
<1>10. RemovedIsLeftAlone'
  BY <1>1, AloneStays DEF StoreIInv, Granted
<1>11. RequestsCountOnce'
  <2>1. \A i, j \in 1..Len(log') : log'[i].key = log'[j].key => i = j
    BY <1>1, <1>2, KeysStay DEF StoreIInv, RequestsCountOnce
  <2> QED
    BY <1>1, <2>1 DEF MessagesFollow, RequestsCountOnce
<1>12. FinishedIsLocked'
  BY <1>2 DEF FinishedIsLocked
<1>13. ClosedIsClosed'
  <2>1. ASSUME NEW j \in 1..Len(log'), log'[j].op = "post" PROVE log'[j].chat
    <3>1. j \in 1..Len(log) \/ j = Len(log) + 1
      BY <1>3
    <3> QED
      BY <1>1, <1>3, <2>1, <3>1 DEF Granted, StoreIInv, ClosedIsClosed
  <2> QED
    BY <1>2, <2>1 DEF ClosedIsClosed
<1> QED
  BY <1>3, <1>4, <1>5, <1>6, <1>7, <1>8, <1>9, <1>10, <1>11, <1>12, <1>13 DEF StoreIInv

\* The first settings of a session, written with an event of their own.
LEMMA BootstrapKeeps ==
  ASSUME StoreIInv, NEW t \in tries, Bootstrap(t)
  PROVE  StoreIInv'
<1>1. /\ tries' = (tries \ {t}) \cup {Try(t.key, t.n, t.ask, "write", settings')}
      /\ UNCHANGED << restriction, qnaBans, messages, finished, closedAt, arrived, resent >>
      /\ \/ UNCHANGED << settings, log >>
         \/ /\ ~Logged(0) /\ ~finished /\ settings' = Defaults
            /\ log' = Append(log, Event(0, Ask("settings", Nobody, Nobody), Free, FALSE))
  BY DEF Bootstrap
<1>2. settings \in SettingsRow /\ Defaults \in SettingsRow
  BY DEF StoreIInv, StoreTypeOK, SettingsRow, Defaults
<1>3. settings' \in SettingsRow
  BY <1>1, <1>2
<1>4. t.key \in Nat /\ t.key \in 1..arrived /\ t.n \in {1, 2} /\ t.ask \in Askable
      /\ tries \subseteq TryRow
  BY DEF StoreIInv, TriesStand, TryRow, StoreTypeOK
<1> DEFINE new == Try(t.key, t.n, t.ask, "write", settings')
<1>5. PICK s \in SettingsRow : s = settings'
  BY <1>3
<1>6. Try(t.key, t.n, t.ask, "write", s) \in TryRow
  BY <1>4, TryStands DEF StoreIInv
<1>7. new \in TryRow
  BY <1>5, <1>6
<1>8. new.key = t.key /\ new.n = t.n /\ new.at = "write"
  BY DEF Try
<1> HIDE DEF new
<1>9. tries' = (tries \ {t}) \cup {new}
  BY <1>1 DEF new
<1>10. TriesStand'
  <2>1. MessageIds \subseteq MessageIds' /\ tries' \subseteq TryRow
    BY <1>1, <1>4, <1>7, <1>9 DEF MessageIds
  <2> QED
    BY <2>1, TriesStay DEF TriesStand
<1>11. \A u \in tries' : u.key \in 1..arrived' /\ u.n \in {1, 2} /\ u.at \in {"bootstrap", "write"}
  BY <1>1, <1>4, <1>8, <1>9 DEF StoreIInv, StoreTypeOK
<1>12. CASE UNCHANGED << settings, log >>
  <2>1. StoreTypeOK'
    BY <1>1, <1>11, <1>12 DEF StoreIInv, StoreTypeOK
  <2> QED
    BY <1>1, <1>10, <1>12, <2>1
       DEF StoreIInv, LogStands, MessagesStand, DecisionsHold, RemovalsHold, FinishedIsLocked,
           RequestsCountOnce, SilencedIsSilent, RemovedIsLeftAlone, ClosedIsClosed, QuotaHolds,
           BansReachQuestions, Logged, Removed, Posted
<1>13. CASE /\ ~Logged(0) /\ ~finished
            /\ log' = Append(log, Event(0, Ask("settings", Nobody, Nobody), Free, FALSE))
  <2> DEFINE e == Event(0, Ask("settings", Nobody, Nobody), Free, FALSE)
  <2>1. e \in EventRow /\ e.key = 0 /\ e.op = "settings"
    BY DEF Event, Ask, Free, EventRow, StoreOps, RestrictionRow
  <2> HIDE DEF e
  <2>2. log' = Append(log, e) /\ ~Logged(e.key)
    BY <1>13, <2>1 DEF e
  <2>3. e.op \notin {"remove", "post", "signal", "react", "restore"} \cup RestrictionOps
    BY <2>1 DEF RestrictionOps
  <2>4. /\ LogStands' /\ Len(log) \in Nat /\ Len(log') = Len(log) + 1
        /\ \A i \in 1..Len(log) : log'[i] = log[i] /\ log[i] \in EventRow
        /\ log'[Len(log) + 1] = e
    BY <2>1, <2>2, GrownLog DEF StoreIInv
  <2>5. StoreTypeOK'
    <3>1. closedAt' \in 0..Len(log')
      BY <1>1, <2>4 DEF StoreIInv, StoreTypeOK
    <3> QED
      BY <1>1, <1>3, <1>11, <3>1 DEF StoreIInv, StoreTypeOK, SettingsRow
  <2>6. /\ \A i, j \in 1..Len(log') : log'[i].key = log'[j].key => i = j
        /\ \A key : Logged(key) => Logged(key)'
    BY <2>1, <2>2, KeysStay DEF StoreIInv, RequestsCountOnce
  <2>7. MessagesFollow(e)
    BY <1>1, <2>3, <2>6, SameMessages
  <2>8. Decides(e)
    BY <1>1, <2>3, DecidesNothing
  <2>9. DecisionsHold' /\ SilencedIsSilent'
    BY <2>1, <2>2, <2>3, <2>8, DecisionsStay, SilentStays DEF StoreIInv, Decides
  <2>10. RemovalsHold' /\ RemovedIsLeftAlone'
    BY <2>1, <2>2, <2>3, <2>7, RemovalsStay, AloneStays DEF StoreIInv, MessagesFollow
  <2>11. RequestsCountOnce'
    BY <2>6, <2>7 DEF MessagesFollow, RequestsCountOnce
  <2>12. FinishedIsLocked'
    BY <1>1, <1>13 DEF FinishedIsLocked
  <2>13. ClosedIsClosed'
    <3>1. ASSUME NEW j \in 1..Len(log'), log'[j].op = "post" PROVE log'[j].chat
      <4>1. j \in 1..Len(log) \/ j = Len(log) + 1
        BY <2>4
      <4> QED
        BY <2>1, <2>4, <3>1, <4>1 DEF StoreIInv, ClosedIsClosed
    <3> QED
      BY <1>1, <1>13, <3>1 DEF ClosedIsClosed
  <2> QED
    BY <1>10, <2>4, <2>5, <2>7, <2>8, <2>9, <2>10, <2>11, <2>12, <2>13
       DEF StoreIInv, MessagesFollow, Decides
<1> QED
  BY <1>1, <1>12, <1>13

\* A step that writes no event, message or restriction and leaves well-formed tries.
LEMMA NothingWritten ==
  ASSUME StoreIInv, UNCHANGED << restriction, messages, log >>,
         StoreTypeOK', tries' \subseteq TryRow, FinishedIsLocked',
         finished' => Len(log) = closedAt', BansReachQuestions'
  PROVE  StoreIInv'
<1>1. TriesStand'
  BY TriesStay DEF TriesStand, MessageIds
<1>2. LogStands' /\ MessagesStand'
  BY DEF StoreIInv, LogStands, MessagesStand, Logged
<1>3. DecisionsHold'
  BY DEF StoreIInv, DecisionsHold
<1>4. RemovalsHold'
  BY DEF StoreIInv, RemovalsHold, Removed
<1>5. RequestsCountOnce'
  BY DEF StoreIInv, RequestsCountOnce
<1>6. SilencedIsSilent' /\ RemovedIsLeftAlone'
  BY DEF StoreIInv, SilencedIsSilent, RemovedIsLeftAlone
<1>7. ClosedIsClosed'
  BY DEF StoreIInv, ClosedIsClosed
<1>8. QuotaHolds'
  BY DEF StoreIInv, QuotaHolds, Posted
<1> QED
  BY <1>1, <1>2, <1>3, <1>4, <1>5, <1>6, <1>7, <1>8 DEF StoreIInv

\* A new request, or one that is sent again.
LEMMA BeginKeeps ==
  ASSUME StoreIInv, NEW key \in 1..arrived', NEW n \in {1, 2}, NEW ask \in Askable,
         Begins(key, n, ask), arrived' \in 0..MaxRequests, arrived <= arrived',
         resent' \in 0..MaxRetries, UNCHANGED << stored, finished, closedAt >>
  PROVE  StoreIInv'
<1>1. key \in Nat
  BY StoreAssumption
<1>2. tries' \subseteq TryRow /\ \A t \in tries' : t \in tries \/ (t.key = key /\ t.n = n)
  BY <1>1, BeginsTry DEF StoreIInv
<1>3. \A t \in tries' : t.key \in 1..arrived' /\ t.n \in {1, 2} /\ t.at \in {"bootstrap", "write"}
  <2> SUFFICES ASSUME NEW t \in tries'
               PROVE  t.key \in 1..arrived' /\ t.n \in {1, 2} /\ t.at \in {"bootstrap", "write"}
    OBVIOUS
  <2>1. t.n \in {1, 2} /\ t.at \in {"bootstrap", "write"}
    BY <1>2 DEF TryRow
  <2>2. t \in tries => t.key \in 1..arrived
    BY DEF StoreIInv, StoreTypeOK
  <2>3. arrived \in Nat /\ arrived' \in Nat
    BY StoreAssumption DEF StoreIInv, StoreTypeOK
  <2> QED
    BY <1>2, <2>1, <2>2, <2>3
<1>4. UNCHANGED << settings, restriction, qnaBans, messages, log, finished, closedAt >>
  BY DEF stored
<1>5. StoreTypeOK'
  BY <1>3, <1>4 DEF StoreIInv, StoreTypeOK
<1>6. FinishedIsLocked' /\ (finished' => Len(log) = closedAt') /\ BansReachQuestions'
  BY <1>4 DEF StoreIInv, FinishedIsLocked, ClosedIsClosed, BansReachQuestions
<1> QED
  BY <1>2, <1>4, <1>5, <1>6, NothingWritten

-------------------------------------------------------------------------------
(* The invariant holds in every state.                                        *)

\* Of a room nobody has looked at, or one that has been talking.
LEMMA StoreStarts ==
  ASSUME StoreInit
  PROVE  StoreIInv
<1>1. /\ finished = FALSE /\ closedAt = 0 /\ log = << >> /\ qnaBans = {} /\ tries = {}
      /\ arrived = 0 /\ resent = 0 /\ restriction = [p \in Speakers |-> Free]
  BY DEF StoreInit
<1>2. Len(log) = 0 /\ 1..Len(log) = {} /\ LogStands
  BY <1>1 DEF LogStands
<1>3. /\ IsFiniteSet(messages) /\ messages \subseteq MessageRow
      /\ \A m \in messages : m.id[1] = 0
      /\ \A m, n \in messages : m = n
      /\ messages = {} \/ \E m : messages = {m}
  <2>1. CASE messages = {}
    BY <2>1, FS_EmptySet
  <2>2. ASSUME NEW p \in Speakers, messages = {Message(0, 1, p)}
        PROVE  <1>3
    <3>1. Message(0, 1, p) \in MessageRow /\ Message(0, 1, p).id[1] = 0
      BY DEF Message, MessageRow
    <3> QED
      BY <2>2, <3>1, FS_Singleton
  <2> QED
    BY <2>1, <2>2 DEF StoreInit
<1>4. MessagesStand /\ RequestsCountOnce
  BY <1>2, <1>3 DEF MessagesStand, RequestsCountOnce
<1>5. QuotaHolds
  <2> SUFFICES ASSUME NEW p \in Speakers PROVE Posted(p) <= Quota
    BY DEF QuotaHolds
  <2> DEFINE M == {m \in messages : m.by = p}
  <2>1. M = {} \/ \E m : M = {m}
    BY <1>3
  <2>2. Cardinality(M) = 0 \/ Cardinality(M) = 1
    BY <2>1, FS_EmptySet, FS_Singleton
  <2>3. Posted(p) = Cardinality(M)
    BY DEF Posted
  <2> HIDE DEF M
  <2> QED
    BY <2>2, <2>3, StoreAssumption
<1>6. StoreTypeOK
  <2>1. settings \in [there : BOOLEAN, closed : BOOLEAN, chat : BOOLEAN, signals : BOOLEAN]
    <3>1. settings = Fresh \/ settings = [Defaults EXCEPT !.chat = TRUE]
      BY DEF StoreInit
    <3>2. Fresh \in SettingsRow /\ Defaults \in SettingsRow
      BY DEF Fresh, Defaults, SettingsRow
    <3>3. [Defaults EXCEPT !.chat = TRUE] \in SettingsRow
      BY <3>2 DEF SettingsRow
    <3> QED
      BY <3>1, <3>2, <3>3 DEF SettingsRow
  <2>2. restriction \in [Speakers -> [muted : BOOLEAN, banned : BOOLEAN]]
    BY <1>1 DEF Free
  <2>3. \A m \in messages : m.by \in Speakers /\ m.removed \in BOOLEAN
    BY <1>3 DEF MessageRow
  <2>4. finished \in BOOLEAN /\ closedAt \in 0..Len(log) /\ qnaBans \subseteq Speakers
    <3>1. finished \in BOOLEAN
      BY <1>1
    <3>2. closedAt \in 0..Len(log)
      BY <1>1, <1>2
    <3>3. qnaBans \subseteq Speakers
      BY <1>1
    <3> QED
      BY <3>1, <3>2, <3>3
  <2>5. arrived \in 0..MaxRequests /\ resent \in 0..MaxRetries
    BY <1>1, StoreAssumption
  <2>6. \A t \in tries : t.key \in 1..arrived /\ t.n \in {1, 2} /\ t.at \in {"bootstrap", "write"}
    BY <1>1
  <2> QED
    BY <2>1, <2>2, <2>3, <2>4, <2>5, <2>6 DEF StoreTypeOK
<1>7. BansReachQuestions
  BY <1>1 DEF BansReachQuestions, Free
<1> QED
  BY <1>1, <1>2, <1>4, <1>5, <1>6, <1>7
     DEF StoreIInv, TriesStand, DecisionsHold, RemovalsHold, FinishedIsLocked,
         SilencedIsSilent, RemovedIsLeftAlone, ClosedIsClosed

\* Every step of the store keeps the invariant.
LEMMA StoreSteps ==
  ASSUME StoreIInv, [StoreNext]_storeVars
  PROVE  StoreIInv'
<1>1. ASSUME NEW ask \in Askable, Arrives(ask) PROVE StoreIInv'
  <2>1. /\ arrived < MaxRequests /\ arrived' = arrived + 1 /\ Begins(arrived + 1, 1, ask)
        /\ UNCHANGED << stored, finished, closedAt, resent >>
    BY <1>1 DEF Arrives
  <2>2. arrived \in Nat /\ arrived' \in 0..MaxRequests /\ arrived + 1 \in 1..arrived'
        /\ arrived <= arrived' /\ resent' \in 0..MaxRetries
    BY <2>1, StoreAssumption DEF StoreIInv, StoreTypeOK
  <2> QED
    BY <2>1, <2>2, BeginKeeps
<1>2. ASSUME NEW t \in tries, ArrivesAgain(t) PROVE StoreIInv'
  <2>1. /\ resent < MaxRetries /\ resent' = resent + 1 /\ Begins(t.key, 2, t.ask)
        /\ UNCHANGED << stored, finished, closedAt, arrived >>
    BY <1>2 DEF ArrivesAgain
  <2>2. t.ask \in Askable /\ t.key \in 1..arrived
    BY DEF StoreIInv, StoreTypeOK, TriesStand, TryRow
  <2>3. arrived \in 0..MaxRequests /\ arrived' = arrived /\ arrived <= arrived'
        /\ resent' \in 0..MaxRetries
    BY <2>1, StoreAssumption DEF StoreIInv, StoreTypeOK
  <2>4. UNCHANGED << stored, finished, closedAt >>
    BY <2>1
  <2> QED
    BY <2>1, <2>2, <2>3, <2>4, BeginKeeps
<1>3. ASSUME NEW t \in tries, Unwritten(t) PROVE StoreIInv'
  <2>1. /\ tries' = tries \ {t}
        /\ UNCHANGED << settings, restriction, qnaBans, messages, log, finished, closedAt,
                        arrived, resent >>
    BY <1>3 DEF Unwritten, stored
  <2>2. StoreTypeOK' /\ tries' \subseteq TryRow
    BY <2>1 DEF StoreIInv, StoreTypeOK, TriesStand
  <2>3. FinishedIsLocked' /\ (finished' => Len(log) = closedAt') /\ BansReachQuestions'
    BY <2>1 DEF StoreIInv, FinishedIsLocked, ClosedIsClosed, BansReachQuestions
  <2> QED
    BY <2>1, <2>2, <2>3, NothingWritten
<1>4. ASSUME NEW p \in Speakers, BanFromQna(p) PROVE StoreIInv'
  <2>1. /\ qnaBans' = qnaBans \cup {p}
        /\ UNCHANGED << settings, restriction, messages, log, finished, closedAt, tries,
                        arrived, resent >>
    BY <1>4 DEF BanFromQna
  <2>2. StoreTypeOK' /\ tries' \subseteq TryRow
    BY <2>1 DEF StoreIInv, StoreTypeOK, TriesStand
  <2>3. FinishedIsLocked' /\ (finished' => Len(log) = closedAt') /\ BansReachQuestions'
    BY <2>1 DEF StoreIInv, FinishedIsLocked, ClosedIsClosed, BansReachQuestions
  <2> QED
    BY <2>1, <2>2, <2>3, NothingWritten
<1>5. CASE FinishSession
  <2>1. /\ ~finished /\ finished' = TRUE /\ closedAt' = Len(log)
        /\ settings' = IF settings.there
                       THEN [settings EXCEPT !.closed = TRUE, !.chat = FALSE, !.signals = FALSE]
                       ELSE settings
        /\ UNCHANGED << restriction, qnaBans, messages, log, tries, arrived, resent >>
    BY <1>5 DEF FinishSession
  <2>2. settings \in SettingsRow
    BY DEF StoreIInv, StoreTypeOK, SettingsRow
  <2>3. settings' \in SettingsRow /\ (settings'.closed \/ ~settings'.there)
    BY <2>1, <2>2 DEF SettingsRow
  <2>4. Len(log) \in Nat
    BY LenProperties DEF StoreIInv, LogStands
  <2>5. StoreTypeOK'
    BY <2>1, <2>3, <2>4 DEF StoreIInv, StoreTypeOK, SettingsRow
  <2>6. tries' \subseteq TryRow /\ FinishedIsLocked' /\ BansReachQuestions'
    BY <2>1, <2>3 DEF StoreIInv, TriesStand, FinishedIsLocked, BansReachQuestions
  <2> QED
    BY <2>1, <2>5, <2>6, NothingWritten
<1>6. CASE UNCHANGED storeVars
  <2>1. UNCHANGED << settings, restriction, qnaBans, messages, log, finished, closedAt, tries,
                     arrived, resent >>
    BY <1>6 DEF storeVars, stored
  <2>2. StoreTypeOK' /\ tries' \subseteq TryRow
    BY <2>1 DEF StoreIInv, StoreTypeOK, TriesStand
  <2>3. FinishedIsLocked' /\ (finished' => Len(log) = closedAt') /\ BansReachQuestions'
    BY <2>1 DEF StoreIInv, FinishedIsLocked, ClosedIsClosed, BansReachQuestions
  <2> QED
    BY <2>1, <2>2, <2>3, NothingWritten
<1> QED
  BY <1>1, <1>2, <1>3, <1>4, <1>5, <1>6, BootstrapKeeps, WriteKeeps DEF StoreNext

\* For any number of participants, requests and retries: each request counts once; a
\* participant who was silenced, a removed message and a closed chat are left alone from
\* that event on, whatever was read before it; the limit holds; nothing follows the end.
THEOREM StoreIsSound == StoreSpec => []StoreInv
<1>1. StoreIInv => StoreInv
  BY DEF StoreIInv, StoreInv
<1>2. StoreInit => StoreIInv
  BY StoreStarts
<1>3. StoreIInv /\ [StoreNext]_storeVars => StoreIInv'
  BY StoreSteps
<1> QED
  BY <1>1, <1>2, <1>3, PTL DEF StoreSpec

-------------------------------------------------------------------------------
(* The panel of the page (AudiencePanel).  What it shows of a message is what *)
(* the room was at some event, its stamp; an envelope or a page makes the     *)
(* stamp grow, and a viewer with nothing on its way has reached every event.  *)

\* A set of numbers has a least one: what holds of a function by recursion is proved below
\* by the least argument at which it would not.
LEMMA Leasts ==
  ASSUME NEW T \in SUBSET Nat, T # {}
  PROVE  \E x \in T : \A y \in T : x <= y
<1>1. PICK x \in T : \A y \in T : ~(<<y, x>> \in OpToRel(<, Nat))
  BY NatLessThanWellFounded, WFMin
<1>2. \A y \in T : ~(y < x)
  BY <1>1 DEF OpToRel
<1> QED
  BY <1>2

\* Whatever is not empty among the first k numbers has a greatest element.
LEMMA Greatest ==
  ASSUME NEW k \in Nat, NEW s \in SUBSET (1..k), s # {}
  PROVE  Max(s) \in s /\ \A y \in s : Max(s) >= y
<1> DEFINE T == {k - y : y \in s}
<1>1. \A y \in s : y \in Nat /\ k - y \in Nat
  OBVIOUS
<1> HIDE DEF T
<1>5. T \in SUBSET Nat /\ T # {}
  BY <1>1 DEF T
<1>2. PICK x \in T : \A y \in T : x <= y
  BY <1>5, Leasts
<1>3. PICK g \in s : x = k - g
  BY <1>2 DEF T
<1>4. ASSUME NEW y \in s PROVE g >= y
  <2>1. k - g <= k - y
    BY <1>2, <1>3 DEF T
  <2> QED
    BY <1>1, <2>1
<1> QED
  BY <1>3, <1>4 DEF Max

\* What each kept envelope makes of the page, one after another.
Builds(after, loaded) ==
    /\ after[0] = loaded
    /\ \A k \in 1..Len(fetch.replay) : after[k] = Applied(after[k - 1], fetch.replay[k])

\* A page with what was kept while it was read is the page, and each envelope on it in turn.
LEMMA MergedInSteps ==
  ASSUME NEW c, NEW r, NEW t, Len(fetch.replay) \in Nat,
         DOMAIN fetch.replay = 1..Len(fetch.replay)
  PROVE  \E after : Builds(after, Page(c, r, t)) /\ Merged(c, r, t) = after[Len(fetch.replay)]
<1> DEFINE base == Page(c, r, t)
           seq == fetch.replay
           n == Len(seq)
<1> DEFINE Step(g, s) == IF s = {} THEN base ELSE Applied(g[s \ {Max(s)}], seq[Max(s)])
           Table(g, k) == g = [s \in SUBSET (1..k) |-> Step(g, s)]
           it == CHOOSE g : g = [s \in SUBSET (DOMAIN seq) |-> Step(g, s)]
           T == {k \in Nat : ~(\E g : Table(g, k))}
<1>1. Merged(c, r, t) = it[DOMAIN seq]
  BY DEF Merged, FoldLeft, MapThenFoldSet
<1>0. DOMAIN seq = 1..n /\ n \in Nat
  OBVIOUS
<1> HIDE DEF base, seq, n
<1>2. \E g : Table(g, 0)
  <2> DEFINE g == [s \in SUBSET (1..0) |-> base]
  <2>1. \A s \in SUBSET (1..0) : s = {}
    OBVIOUS
  <2>2. g = [s \in SUBSET (1..0) |-> Step(g, s)]
    BY <2>1
  <2> QED
    BY <2>2
<1>3. ASSUME NEW k \in Nat, NEW g, Table(g, k)
      PROVE  \E h : Table(h, k + 1)
  <2> DEFINE h == [s \in SUBSET (1..k + 1) |->
                      IF s \subseteq 1..k THEN g[s] ELSE Applied(g[s \ {k + 1}], seq[k + 1])]
  <2>1. ASSUME NEW s \in SUBSET (1..k + 1) PROVE h[s] = Step(h, s)
    <3>1. CASE s \subseteq 1..k
      <4>1. h[s] = g[s] /\ g[s] = Step(g, s)
        BY <1>3, <3>1
      <4>2. CASE s = {}
        BY <4>1, <4>2
      <4>3. CASE s # {}
        <5>1. s \ {Max(s)} \in SUBSET (1..k) /\ s \ {Max(s)} \in SUBSET (1..k + 1)
          BY <3>1
        <5>2. h[s \ {Max(s)}] = g[s \ {Max(s)}]
          BY <5>1
        <5> QED
          BY <4>1, <4>3, <5>2
      <4> QED
        BY <4>2, <4>3
    <3>2. CASE ~(s \subseteq 1..k)
      <4>1. k + 1 \in s
        BY <3>2
      <4>2. Max(s) = k + 1
        <5>1. Max(s) \in s /\ Max(s) >= k + 1
          BY <4>1, Greatest, k + 1 \in Nat
        <5>2. Max(s) \in 1..k + 1
          BY <5>1
        <5> HIDE DEF h
        <5> QED
          BY <5>1, <5>2
      <4>3. s \ {k + 1} \in SUBSET (1..k) /\ s \ {k + 1} \in SUBSET (1..k + 1)
        OBVIOUS
      <4>4. h[s \ {k + 1}] = g[s \ {k + 1}]
        BY <4>3
      <4>5. h[s] = Applied(g[s \ {k + 1}], seq[k + 1])
        BY <3>2
      <4> QED
        BY <4>1, <4>2, <4>4, <4>5
    <3> QED
      BY <3>1, <3>2
  <2> HIDE DEF Step
  <2>2. h = [s \in SUBSET (1..k + 1) |-> Step(h, s)]
    BY <2>1
  <2> QED
    BY <2>2
<1>4. T = {}
  <2> SUFFICES ASSUME T # {} PROVE FALSE
    OBVIOUS
  <2> HIDE DEF Table
  <2>1. PICK k \in T : \A j \in T : k <= j
    BY Leasts
  <2>2. k # 0 /\ k - 1 \in Nat /\ k - 1 \notin T
    BY <1>2, <2>1
  <2>3. PICK g : Table(g, k - 1)
    BY <2>2
  <2>4. \E h : Table(h, k - 1 + 1)
    BY <1>3, <2>2, <2>3
  <2> QED
    BY <2>1, <2>4
<1>5. Table(it, n)
  <2>1. \E g : Table(g, n)
    BY <1>0, <1>4
  <2> QED
    BY <1>0, <2>1
<1> HIDE DEF it
<1>6. ASSUME NEW k \in 1..n PROVE it[1..k] = Applied(it[1..k - 1], seq[k])
  <2>1. Max(1..k) = k
    <3>1. k \in 1..k /\ 1..k \in SUBSET (1..k) /\ k \in Nat
      OBVIOUS
    <3>2. Max(1..k) \in 1..k /\ Max(1..k) >= k
      BY <3>1, Greatest
    <3> QED
      BY <3>2
  <2>2. 1..k # {} /\ (1..k) \ {k} = 1..k - 1 /\ 1..k \in SUBSET (1..n)
    <3>1. k \in Nat /\ k >= 1 /\ k <= n /\ k \in 1..k
      BY <1>0
    <3>2. (1..k) \ {k} = 1..k - 1
      BY <3>1
    <3>3. \A x \in 1..k : x \in 1..n
      BY <1>0, <3>1
    <3>4. 1..k # {}
      BY <3>1
    <3> QED
      BY <3>2, <3>3, <3>4
  <2>3. it[1..k] = Step(it, 1..k)
    BY <1>5, <2>2
  <2> QED
    BY <2>1, <2>2, <2>3
<1>7. it[1..0] = base
  <2>1. 1..0 = {} /\ 1..0 \in SUBSET (1..n)
    OBVIOUS
  <2> QED
    BY <1>5, <2>1
<1> DEFINE after == [k \in 0..n |-> it[1..k]]
<1>8. after[0] = base /\ after[n] = Merged(c, r, t)
  BY <1>0, <1>1, <1>7
<1>9. \A k \in 1..n : after[k] = Applied(after[k - 1], seq[k])
  BY <1>0, <1>6
<1> QED
  BY <1>8, <1>9 DEF base, seq, n, Builds

-------------------------------------------------------------------------------
(* The viewer's panel.                                                         *)

\* What a row and its reactions are, and how far they reach.
Genuine(x, m) ==
    /\ x.row # 0 => events[x.row] = Of(m, "message")
    /\ x.reactions # 0 => events[x.reactions] = Of(m, "reaction")
Covers(x, m, n) ==
    \A i \in 1..n : /\ events[i] = Of(m, "message") => i <= x.row
                    /\ events[i] = Of(m, "reaction") => i <= x.reactions

\* An envelope tells of its event, and of a message as it was then or later.
Told(env) ==
    /\ Genuine(env, env.of) /\ events[env.seq].of = env.of /\ events[env.seq] # Private
    /\ Covers(env, env.of, env.seq) /\ Covers(env, env.of, env.row)

\* What the panel shows of a message is as new as its stamp, and as the page.
Entry == [row : 0..Len(events), reactions : 0..Len(events), stamp : 0..Len(events)]
Pages == [read : BOOLEAN, sync : 0..Len(events), shown : [Messages -> Entry]]
Stands(d) ==
    \A m \in Messages :
        /\ Genuine(d.shown[m], m) /\ d.shown[m].row <= d.shown[m].stamp
        /\ Covers(d.shown[m], m, d.shown[m].stamp) /\ Covers(d.shown[m], m, d.sync)

\* A page covers an event: it was read after it, or an envelope not older was applied.
Reached(d, e) == e <= d.sync \/ e <= d.shown[events[e].of].stamp

\* The last event of a kind among the first n is the last one there is.
LEMMA LastFound ==
  ASSUME Len(events) \in Nat, NEW event, NEW n \in 0..Len(events)
  PROVE  /\ LastAt(event, n) \in 0..n
         /\ LastAt(event, n) # 0 => events[LastAt(event, n)] = event
         /\ \A i \in 1..n : events[i] = event => i <= LastAt(event, n)
<1> DEFINE I == {i \in 1..n : events[i] = event}
<1>1. LastAt(event, n) = IF I # {} THEN Max(I) ELSE 0
  BY DEF LastAt, SelectLastInSubSeq
<1>2. CASE I = {}
  BY <1>1, <1>2
<1>3. CASE I # {}
  <2>1. I \in SUBSET (1..n) /\ n \in Nat
    OBVIOUS
  <2>2. Max(I) \in I /\ \A y \in I : Max(I) >= y
    BY <1>3, <2>1, Greatest
  <2> QED
    BY <1>1, <1>3, <2>2
<1> QED
  BY <1>2, <1>3

\* A message read at r and its reactions read at n cover what had happened by either.
LEMMA ReadInOrder ==
  ASSUME Len(events) \in Nat, NEW m, NEW r \in 0..Len(events), NEW n \in r..Len(events),
         NEW x, x.row = RowAt(m, r), x.reactions = ReactionsAt(m, n)
  PROVE  /\ x.row \in 0..r /\ x.reactions \in 0..n /\ Genuine(x, m)
         /\ Covers(x, m, r) /\ Covers(x, m, x.row)
<1>1. n \in 0..Len(events)
  OBVIOUS
<1>2. /\ x.row \in 0..r /\ (x.row # 0 => events[x.row] = Of(m, "message"))
      /\ \A i \in 1..r : events[i] = Of(m, "message") => i <= x.row
  BY LastFound DEF RowAt
<1>3. /\ x.reactions \in 0..n /\ (x.reactions # 0 => events[x.reactions] = Of(m, "reaction"))
      /\ \A i \in 1..n : events[i] = Of(m, "reaction") => i <= x.reactions
  BY <1>1, LastFound DEF ReactionsAt
<1>4. Genuine(x, m)
  BY <1>2, <1>3 DEF Genuine
<1>5. Covers(x, m, r)
  BY <1>1, <1>2, <1>3 DEF Covers
<1>6. Covers(x, m, x.row)
  <2>1. \A i \in 1..x.row : i \in 1..r
    BY <1>2
  <2> QED
    BY <1>5, <2>1 DEF Covers
<1> QED
  BY <1>2, <1>3, <1>4, <1>5, <1>6

\* Applying an envelope takes no message back, and leaves what is shown as new as its stamp.
LEMMA AppliedStands ==
  ASSUME events \in Seq(Kinds), Len(events) \in 0..MaxSeq, NEW d \in Pages, Stands(d),
         NEW env \in Envelopes, Told(env)
  PROVE  /\ Applied(d, env) \in Pages /\ Stands(Applied(d, env))
         /\ Applied(d, env).sync = d.sync /\ Applied(d, env).read = d.read
         /\ \A m \in Messages : /\ Applied(d, env).shown[m].stamp >= d.shown[m].stamp
                                /\ Applied(d, env).shown[m].row >= d.shown[m].row
         /\ Reached(Applied(d, env), env.seq)
<1>1. /\ env.of \in Messages /\ env.seq \in 1..Len(events) /\ env.row \in 0..Len(events)
      /\ env.reactions \in 0..Len(events) /\ events[env.seq].of = env.of
  BY PanelAssumption DEF Envelopes, Messages, Seqs, Told
<1>2. CASE env.seq < d.sync \/ env.seq < d.shown[env.of].stamp
  <2>1. Applied(d, env) = d
    BY <1>2 DEF Applied
  <2>2. Reached(d, env.seq)
    BY <1>1, <1>2 DEF Reached, Pages, Entry
  <2> QED
    BY <2>1, <2>2 DEF Pages, Entry
<1>3. CASE ~(env.seq < d.sync \/ env.seq < d.shown[env.of].stamp)
  <2> DEFINE x == [row |-> env.row, reactions |-> env.reactions,
                   stamp |-> Later(env.row, env.seq)]
             f == [d EXCEPT !.shown[env.of] = x]
  <2>1. Applied(d, env) = f
    BY <1>3 DEF Applied, Shows
  <2>2. x \in Entry /\ x.row = env.row /\ x.reactions = env.reactions
        /\ x.stamp >= env.row /\ x.stamp >= env.seq /\ x.stamp \in {env.row, env.seq}
    BY <1>1 DEF Entry, Later
  <2>3. /\ d.shown \in [Messages -> Entry] /\ d.sync \in 0..Len(events) /\ d.read \in BOOLEAN
    BY DEF Pages
  <2> HIDE DEF x
  <2>4. f.shown = [d.shown EXCEPT ![env.of] = x] /\ f.sync = d.sync /\ f.read = d.read
        /\ f \in Pages
    BY <1>1, <2>2, <2>3 DEF Pages
  <2> HIDE DEF f
  <2>5. f.shown[env.of] = x /\ \A m \in Messages : m # env.of => f.shown[m] = d.shown[m]
    BY <1>1, <2>3, <2>4
  <2>6. d.shown[env.of] \in Entry
    BY <1>1, <2>3
  <2>7. d.sync <= env.seq /\ d.shown[env.of].stamp <= env.seq
    BY <1>1, <1>3, <2>3, <2>6 DEF Entry
  <2>8. d.shown[env.of].row <= env.row
    <3>1. d.shown[env.of].row \in 0..env.seq
      BY <1>1, <2>6, <2>7 DEF Stands, Entry
    <3>2. d.shown[env.of].row # 0 => events[d.shown[env.of].row] = Of(env.of, "message")
      BY <1>1 DEF Stands, Genuine
    <3>3. CASE d.shown[env.of].row = 0
      BY <1>1, <3>3
    <3>4. CASE d.shown[env.of].row # 0
      BY <1>1, <3>1, <3>2, <3>4 DEF Told, Covers
    <3> QED
      BY <3>3, <3>4
  <2>9. Genuine(x, env.of) /\ Covers(x, env.of, x.stamp) /\ Covers(x, env.of, d.sync)
    <3>1. Genuine(x, env.of)
      BY <2>2 DEF Told, Genuine
    <3>2. Covers(x, env.of, env.seq) /\ Covers(x, env.of, env.row)
      BY <2>2 DEF Told, Covers
    <3>3. Covers(x, env.of, x.stamp)
      BY <2>2, <3>2
    <3>4. Covers(x, env.of, d.sync)
      BY <1>1, <2>3, <2>7, <3>2 DEF Covers
    <3> QED
      BY <3>1, <3>3, <3>4
  <2>10. Stands(f)
    <3> SUFFICES ASSUME NEW m \in Messages
                 PROVE  /\ Genuine(f.shown[m], m) /\ f.shown[m].row <= f.shown[m].stamp
                        /\ Covers(f.shown[m], m, f.shown[m].stamp)
                        /\ Covers(f.shown[m], m, f.sync)
      BY DEF Stands
    <3>1. CASE m = env.of
      BY <1>1, <2>2, <2>4, <2>5, <2>9, <3>1
    <3>2. CASE m # env.of
      BY <2>4, <2>5, <3>2 DEF Stands
    <3> QED
      BY <3>1, <3>2
  <2>11. ASSUME NEW m \in Messages
         PROVE  f.shown[m].stamp >= d.shown[m].stamp /\ f.shown[m].row >= d.shown[m].row
    <3>0. d.shown[m] \in Entry
      BY <2>3
    <3>1. CASE m = env.of
      <4>1. f.shown[m] = x /\ d.shown[m] = d.shown[env.of]
        BY <2>5, <3>1
      <4>2. x.stamp \in Nat /\ d.shown[m].stamp \in Nat /\ env.seq \in Nat
        BY <1>1, <2>2, <3>0 DEF Entry
      <4>3. d.shown[m].stamp <= env.seq /\ d.shown[m].row <= env.row
        BY <2>7, <2>8, <4>1
      <4> QED
        BY <1>1, <2>2, <4>1, <4>2, <4>3
    <3>2. CASE m # env.of
      BY <2>5, <3>0, <3>2 DEF Entry
    <3> QED
      BY <3>1, <3>2
  <2>12. Reached(f, env.seq)
    BY <1>1, <2>2, <2>5 DEF Reached
  <2> QED
    BY <2>1, <2>4, <2>10, <2>11, <2>12
<1> QED
  BY <1>2, <1>3

\* An event names a message by an event that has happened; a reaction comes after its message.
NamesStand ==
    \A e \in Seqs :
        /\ events[e].of <= Len(events)
        /\ events[e].is = "reaction" =>
              \E j \in 1..e : events[j] = Of(events[e].of, "message")

\* What is prepared or on its way tells of its event.
MailStands ==
    /\ \A x \in sending : x.seq <= x.at /\ events[x.seq] # Private
    /\ \A i \in DOMAIN mail : Told(mail[i])

\* A refresh runs for a panel on the page; it counts, or another one follows.
FetchStands ==
    /\ fetch.on => mounted /\ (fetch.counts \/ trailing)
    /\ \A i \in DOMAIN fetch.replay : Told(fetch.replay[i])

\* The events from the first envelope received to the highest one: none was missed without
\* a gap that had the panel refreshed.
Linked(t) == {e \in Seqs : t.first # 0 /\ t.first <= e /\ e <= t.seq}

\* Each of them will be in the page with the refresh under way, or is in it.
Awaited(f, t) ==
    \A e \in Linked(t) : e <= f.from \/ \E i \in DOMAIN f.replay : f.replay[i].seq = e
HasReached(d, t) == \A e \in Linked(t) : events[e] # Private => Reached(d, e)

LinkedIsKnown ==
    /\ receipt.first <= receipt.seq /\ (receipt.seq # 0 => receipt.first # 0)
    /\ fetch.on /\ fetch.counts => Awaited(fetch, receipt)
    /\ mounted /\ ~fetch.on /\ ~error => HasReached(data, receipt)

\* The inductive invariant.
PanelIInv ==
    /\ PanelTypeOK /\ NamesStand /\ MailStands /\ FetchStands /\ Stands(data) /\ LinkedIsKnown

-------------------------------------------------------------------------------
(* What an event adds to the room, and what leaves the events alone.           *)

\* While nothing happens in the room, envelopes and pages are as true as before.
LEMMA SameEvents ==
  ASSUME events' = events
  PROVE  /\ \A env : Told(env)' <=> Told(env)
         /\ \A d : Stands(d)' <=> Stands(d)
         /\ \A d, e : Reached(d, e)' <=> Reached(d, e)
         /\ Envelopes' = Envelopes /\ Pages' = Pages /\ Seqs' = Seqs
         /\ NamesStand' <=> NamesStand
BY DEF Told, Stands, Reached, Genuine, Covers, Envelopes, Pages, Entry, Seqs, NamesStand

\* One more event leaves what was true of those before it.
LEMMA MoreEvents ==
  ASSUME events \in Seq(Kinds), NEW ev \in Kinds, events' = Append(events, ev)
  PROVE  /\ Len(events) \in Nat /\ Len(events)' = Len(events) + 1
         /\ \A i \in 1..Len(events) : events'[i] = events[i]
         /\ events'[Len(events) + 1] = ev /\ events' \in Seq(Kinds)
         /\ Seqs \subseteq Seqs'
         /\ \A env \in Envelopes : env \in Envelopes' /\ (Told(env) => Told(env)')
         /\ \A d \in Pages : d \in Pages' /\ (Stands(d) => Stands(d)')
         /\ \A d \in Pages, e \in Seqs : Reached(d, e) => Reached(d, e)'
<1>1. /\ Len(events) \in Nat /\ Len(events') = Len(events) + 1 /\ events' \in Seq(Kinds)
      /\ \A i \in 1..Len(events) : events'[i] = events[i]
      /\ events'[Len(events) + 1] = ev
  BY AppendProperties, LenProperties
<1>2. 0..Len(events) \subseteq 0..Len(events') /\ 1..Len(events) \subseteq 1..Len(events')
  BY <1>1
<1>3. Entry \subseteq Entry'
  BY <1>2 DEF Entry
<1>4. ASSUME NEW env \in Envelopes PROVE env \in Envelopes' /\ (Told(env) => Told(env)')
  <2>1. env \in Envelopes'
    BY <1>2 DEF Envelopes, Seqs
  <2>2. /\ env.seq \in 1..Len(events) /\ env.row \in 0..Len(events)
        /\ env.reactions \in 0..Len(events)
    BY DEF Envelopes, Seqs
  <2>3. Genuine(env, env.of) => Genuine(env, env.of)'
    BY <1>1, <2>2 DEF Genuine
  <2>4. ASSUME NEW n \in 0..Len(events), Covers(env, env.of, n)
        PROVE  Covers(env, env.of, n)'
    BY <1>1, <2>4 DEF Covers
  <2>5. env.seq \in 0..Len(events) /\ events'[env.seq] = events[env.seq]
    BY <1>1, <2>2
  <2>6. Told(env) => Told(env)'
    BY <2>2, <2>3, <2>4, <2>5 DEF Told, Private, Of
  <2> QED
    BY <2>1, <2>6
<1>5. ASSUME NEW d \in Pages PROVE d \in Pages' /\ (Stands(d) => Stands(d)')
  <2>1. d \in Pages'
    <3>1. /\ d.shown \in [Messages -> Entry]
          /\ d = [read |-> d.read, sync |-> d.sync, shown |-> d.shown]
          /\ d.read \in BOOLEAN /\ d.sync \in 0..Len(events)
      BY DEF Pages
    <3>2. d.shown \in [Messages -> Entry']
      BY <1>3, <3>1
    <3> QED
      BY <1>2, <3>1, <3>2 DEF Pages, Messages
  <2>2. ASSUME Stands(d), NEW m \in Messages
        PROVE  /\ Genuine(d.shown[m], m)' /\ d.shown[m].row <= d.shown[m].stamp
               /\ Covers(d.shown[m], m, d.shown[m].stamp)' /\ Covers(d.shown[m], m, d.sync)'
    <3> DEFINE x == d.shown[m]
    <3>1. /\ x.row \in 0..Len(events) /\ x.reactions \in 0..Len(events)
          /\ x.stamp \in 0..Len(events) /\ d.sync \in 0..Len(events)
      BY DEF Pages, Entry
    <3>2. Genuine(x, m) /\ x.row <= x.stamp /\ Covers(x, m, x.stamp) /\ Covers(x, m, d.sync)
      BY <2>2 DEF Stands
    <3> HIDE DEF x
    <3>3. Genuine(x, m)'
      BY <1>1, <3>1, <3>2 DEF Genuine, Of
    <3>4. Covers(x, m, x.stamp)' /\ Covers(x, m, d.sync)'
      BY <1>1, <3>1, <3>2 DEF Covers, Of
    <3> QED
      BY <3>2, <3>3, <3>4 DEF x
  <2>3. Stands(d) => Stands(d)'
    BY <2>2 DEF Stands, Messages
  <2> QED
    BY <2>1, <2>3
<1>6. ASSUME NEW d \in Pages, NEW e \in Seqs, Reached(d, e) PROVE Reached(d, e)'
  BY <1>1, <1>6 DEF Reached, Seqs
<1> QED
  BY <1>1, <1>2, <1>4, <1>5, <1>6 DEF Seqs

\* A page with what was kept while it was read: each of those envelopes is in it.
LEMMA MergedStands ==
  ASSUME events \in Seq(Kinds), Len(events) \in 0..MaxSeq, fetch.replay \in Seq(Envelopes),
         \A i \in DOMAIN fetch.replay : Told(fetch.replay[i]),
         \A e \in Seqs, m \in Messages :
             events[e] = Of(m, "reaction") => \E j \in 1..e : events[j] = Of(m, "message"),
         NEW c \in 0..Len(events), NEW r \in c..Len(events), NEW n \in r..Len(events)
  PROVE  /\ Merged(c, r, n) \in Pages /\ Stands(Merged(c, r, n)) /\ Merged(c, r, n).sync = c
         /\ \A i \in DOMAIN fetch.replay : Reached(Merged(c, r, n), fetch.replay[i].seq)
<1> DEFINE q == fetch.replay
<1>1. /\ Len(q) \in Nat /\ DOMAIN q = 1..Len(q) /\ Len(events) \in Nat
      /\ \A i \in 1..Len(q) : q[i] \in Envelopes /\ Told(q[i])
      /\ r \in 0..Len(events) /\ c <= r
  BY ElementOfSeq, LenProperties
<1> HIDE DEF q
<1>2. PICK after : /\ after[0] = Page(c, r, n)
                   /\ \A k \in 1..Len(q) : after[k] = Applied(after[k - 1], q[k])
                   /\ Merged(c, r, n) = after[Len(q)]
  <2>1. \E after : Builds(after, Page(c, r, n)) /\ Merged(c, r, n) = after[Len(fetch.replay)]
    BY <1>1, MergedInSteps DEF q
  <2> QED
    BY <2>1 DEF q, Builds
<1> DEFINE Good(k) == /\ after[k] \in Pages /\ Stands(after[k]) /\ after[k].sync = c
                      /\ \A i \in 1..k : Reached(after[k], q[i].seq)
<1>3. Good(0)
  <2> DEFINE p == Page(c, r, n)
  <2>1. ASSUME NEW m \in Messages
        PROVE  /\ p.shown[m] \in Entry /\ Genuine(p.shown[m], m)
               /\ p.shown[m].row <= p.shown[m].stamp
               /\ Covers(p.shown[m], m, p.shown[m].stamp) /\ Covers(p.shown[m], m, c)
    <3> DEFINE x == [row |-> RowAt(m, r), reactions |-> ReactionsAt(m, n),
                     stamp |-> Later(RowAt(m, r), c)]
    <3>1. /\ x.row \in 0..r /\ x.reactions \in 0..n /\ Genuine(x, m)
          /\ Covers(x, m, r) /\ Covers(x, m, x.row)
      <4> HIDE DEF x
      <4>1. x.row = RowAt(m, r) /\ x.reactions = ReactionsAt(m, n)
        BY DEF x
      <4> QED
        BY <1>1, <4>1, ReadInOrder
    <3>2. p.shown[m] = IF RowAt(m, r) = 0 THEN Unposted ELSE x
      BY DEF Page
    <3>3. x.row = RowAt(m, r) /\ x.stamp = Later(x.row, c)
      OBVIOUS
    <3>4. x = [row |-> x.row, reactions |-> x.reactions, stamp |-> x.stamp]
      OBVIOUS
    <3> HIDE DEF x, p
    <3>5. x.stamp \in 0..Len(events) /\ x.row <= x.stamp /\ (x.stamp = x.row \/ x.stamp = c)
      BY <1>1, <3>1, <3>3 DEF Later
    <3>6. x \in Entry
      BY <1>1, <3>1, <3>4, <3>5 DEF Entry
    <3>7. Covers(x, m, c)
      BY <1>1, <3>1 DEF Covers
    <3>8. CASE RowAt(m, r) # 0
      BY <3>1, <3>2, <3>5, <3>6, <3>7, <3>8
    <3>9. CASE RowAt(m, r) = 0
      <4>1. p.shown[m] = Unposted
        BY <3>2, <3>9
      <4>2. \A i \in 1..c : events[i] # Of(m, "message")
        BY <3>3, <3>7, <3>9 DEF Covers
      <4>3. \A i \in 1..c : events[i] # Of(m, "reaction")
        <5> SUFFICES ASSUME NEW i \in 1..c, events[i] = Of(m, "reaction") PROVE FALSE
          OBVIOUS
        <5>1. i \in Seqs
          BY <1>1 DEF Seqs
        <5>2. PICK j \in 1..i : events[j] = Of(m, "message")
          BY <5>1
        <5> QED
          BY <4>2, <5>2
      <4> QED
        BY <1>1, <4>1, <4>2, <4>3 DEF Unposted, Entry, Genuine, Covers
    <3> QED
      BY <3>8, <3>9
  <2>2. p.read = TRUE /\ p.sync = c /\ p.shown = [m \in Messages |-> p.shown[m]]
        /\ p = [read |-> p.read, sync |-> p.sync, shown |-> p.shown]
    BY DEF Page
  <2> HIDE DEF p
  <2>3. p.shown \in [Messages -> Entry]
    BY <2>1, <2>2
  <2>4. p \in Pages
    BY <2>2, <2>3 DEF Pages
  <2>5. Stands(p)
    BY <2>1, <2>2 DEF Stands
  <2> QED
    BY <1>2, <2>2, <2>4, <2>5 DEF p
<1>4. ASSUME NEW k \in 1..Len(q), Good(k - 1) PROVE Good(k)
  <2> DEFINE d == after[k - 1]
             f == Applied(d, q[k])
  <2>1. after[k] = f
    BY <1>2
  <2>2. d \in Pages /\ Stands(d) /\ q[k] \in Envelopes /\ Told(q[k]) /\ d.sync = c
    BY <1>1, <1>4
  <2> HIDE DEF f
  <2>3. /\ f \in Pages /\ Stands(f) /\ f.sync = d.sync
        /\ \A m \in Messages : f.shown[m].stamp >= d.shown[m].stamp
        /\ Reached(f, q[k].seq)
    <3> HIDE DEF d
    <3> QED
      BY <2>2, AppliedStands DEF f
  <2>4. ASSUME NEW i \in 1..k PROVE Reached(f, q[i].seq)
    <3>1. CASE i = k
      BY <2>3, <3>1
    <3>2. CASE i # k
      <4>1. i \in 1..k - 1 /\ i \in 1..Len(q)
        BY <3>2
      <4>2. Reached(d, q[i].seq) /\ Told(q[i]) /\ q[i] \in Envelopes
        BY <1>1, <1>4, <4>1
      <4> DEFINE env == q[i]
                 m == events[env.seq].of
      <4>3. m \in Messages /\ env.seq \in 1..Len(events)
        <5>1. env.of \in 1..Len(events) /\ env.seq \in 1..Len(events)
          BY <4>2 DEF Envelopes, Seqs
        <5>2. m = env.of
          BY <4>2 DEF Told
        <5> QED
          BY <5>1, <5>2, PanelAssumption DEF Messages
      <4> HIDE DEF env
      <4>4. f.shown[m].stamp >= d.shown[m].stamp
        BY <2>3, <4>3
      <4>5. f.shown[m].stamp \in Nat /\ d.shown[m].stamp \in Nat
        <5>1. d.shown[m] \in Entry /\ f.shown[m] \in Entry
          BY <2>2, <2>3, <4>3 DEF Pages
        <5>2. \A x \in Entry : x.stamp \in Nat
          BY <1>1 DEF Entry
        <5> QED
          BY <5>1, <5>2
      <4>6. Reached(d, env.seq)
        BY <4>2 DEF env
      <4> HIDE DEF d
      <4>7. Reached(f, env.seq)
        BY <2>3, <4>3, <4>4, <4>5, <4>6, SMTT(30) DEF Reached
      <4> QED
        BY <4>7 DEF env
    <3> QED
      BY <3>1, <3>2
  <2> HIDE DEF d
  <2> QED
    BY <2>1, <2>2, <2>3, <2>4
<1>5. Good(Len(q))
  <2> DEFINE T == {k \in Nat : k <= Len(q) /\ ~Good(k)}
  <2> HIDE DEF Good
  <2>1. CASE T = {}
    BY <1>1, <2>1
  <2>2. CASE T # {}
    <3>1. PICK k \in T : \A j \in T : k <= j
      BY <2>2, Leasts
    <3>2. k \in 1..Len(q) /\ k - 1 \in Nat /\ k - 1 \notin T
      BY <1>1, <1>3, <3>1
    <3>3. Good(k - 1)
      BY <1>1, <3>2
    <3> QED
      BY <1>4, <3>1, <3>2, <3>3
  <2> QED
    BY <2>1, <2>2
<1>7. DOMAIN fetch.replay = 1..Len(q)
  BY <1>1 DEF q
<1> QED
  BY <1>2, <1>5, <1>7 DEF q

-------------------------------------------------------------------------------
(* The steps.                                                                  *)

\* Nothing of the panel moves, and what is sent or known of the room is as good as before.
LEMMA RoomStep ==
  ASSUME PanelIInv, UNCHANGED << receipt, panel >>, PanelTypeOK', NamesStand', MailStands',
         \A env \in Envelopes : Told(env) => Told(env)',
         \A d \in Pages : Stands(d) => Stands(d)',
         Seqs \subseteq Seqs', \A e \in Seqs : events'[e] = events[e]
  PROVE  PanelIInv'
<1>1. /\ fetch' = fetch /\ data' = data /\ receipt' = receipt /\ mounted' = mounted
      /\ trailing' = trailing /\ error' = error
  BY DEF panel
<1>2. FetchStands'
  <2>1. fetch.replay \in Seq(Envelopes)
    BY DEF PanelIInv, PanelTypeOK
  <2>2. \A i \in DOMAIN fetch.replay : fetch.replay[i] \in Envelopes
    BY <2>1, ElementOfSeq, LenProperties
  <2> QED
    BY <1>1, <2>2 DEF PanelIInv, FetchStands
<1>3. data \in Pages /\ Stands(data)
  BY DEF PanelIInv, PanelTypeOK, Pages, Entry
<1>4. Stands(data)'
  BY <1>1, <1>3
<1>5. PICK t : t = receipt
  OBVIOUS
<1>6. PICK f : f = fetch
  OBVIOUS
<1>7. PICK d : d = data
  OBVIOUS
<1>8. Linked(t)' = Linked(t)
  <2>1. t.seq \in 0..Len(events) /\ Len(events) \in Nat /\ Len(events') \in Nat
    BY <1>5, LenProperties DEF PanelIInv, PanelTypeOK
  <2>2. t.first \in 0..Len(events)
    BY <1>5 DEF PanelIInv, PanelTypeOK
  <2>3. 1..Len(events) \subseteq 1..Len(events')
    BY DEF Seqs
  <2> QED
    BY <2>1, <2>2, <2>3 DEF Linked, Seqs
<1>9. (Awaited(f, t) => Awaited(f, t)') /\ (HasReached(d, t) => HasReached(d, t)')
  BY <1>8 DEF Awaited, HasReached, Reached, Private, Of, Linked
<1>10. LinkedIsKnown'
  BY <1>1, <1>5, <1>6, <1>7, <1>9 DEF PanelIInv, LinkedIsKnown
<1> QED
  BY <1>2, <1>4, <1>10 DEF PanelIInv

\* Something happens in the room: what was read before is still true of its time.
LEMMA Commits ==
  ASSUME PanelIInv, NEW ev \in Kinds, Commit(ev),
         ev.of \in 0..Len(events) + 1,
         ev.is = "reaction" => RowAt(ev.of, Len(events)) # 0
  PROVE  PanelIInv'
<1>1. /\ events \in Seq(Kinds) /\ events' = Append(events, ev) /\ Len(events) < MaxSeq
      /\ UNCHANGED << sending, sent, link, mail, receipt, panel, trouble >>
  BY DEF Commit, PanelIInv, PanelTypeOK
<1>2. /\ Len(events) \in Nat /\ Len(events)' = Len(events) + 1
      /\ \A i \in 1..Len(events) : events'[i] = events[i]
      /\ events'[Len(events) + 1] = ev /\ events' \in Seq(Kinds)
      /\ Seqs \subseteq Seqs'
      /\ \A env \in Envelopes : env \in Envelopes' /\ (Told(env) => Told(env)')
      /\ \A d \in Pages : d \in Pages' /\ (Stands(d) => Stands(d)')
  BY <1>1, MoreEvents
<1>3. Seq(Envelopes) \subseteq Seq(Envelopes')
  <2>1. Envelopes \subseteq Envelopes'
    BY <1>2
  <2> QED
    BY <2>1
<1>4. PanelTypeOK'
  <2>1. data \in Pages /\ data' \in Pages'
    BY <1>1, <1>2 DEF panel, PanelIInv, PanelTypeOK, Pages, Entry
  <2>2. /\ fetch' \in [on : BOOLEAN, from : 0..Len(events), counts : BOOLEAN,
                       replay : Seq(Envelopes)]
        /\ mail' \in Seq(Envelopes)
        /\ receipt' \in [seen : SUBSET Seqs, first : 0..Len(events), seq : 0..Len(events)]
        /\ sending' \subseteq [seq : Seqs, at : Seqs] /\ sent' \subseteq Seqs
        /\ link' \in {"down", "up", "in"} /\ trouble' \in 0..MaxTrouble
        /\ mounted' \in BOOLEAN /\ trailing' \in BOOLEAN /\ error' \in BOOLEAN
    BY <1>1 DEF panel, PanelIInv, PanelTypeOK
  <2>3. 0..Len(events) \subseteq 0..Len(events')
    BY <1>2
  <2>4. fetch' \in [on : BOOLEAN, from : 0..Len(events'), counts : BOOLEAN,
                    replay : Seq(Envelopes')]
    BY <1>3, <2>2, <2>3
  <2>5. receipt' \in [seen : SUBSET Seqs', first : 0..Len(events'), seq : 0..Len(events')]
    BY <1>2, <2>2, <2>3
  <2>6. mail' \in Seq(Envelopes') /\ sending' \subseteq [seq : Seqs', at : Seqs']
        /\ sent' \subseteq Seqs'
    BY <1>2, <1>3, <2>2
  <2>7. Len(events') <= MaxSeq
    BY <1>1, <1>2, PanelAssumption
  <2> QED
    BY <1>2, <2>1, <2>2, <2>4, <2>5, <2>6, <2>7 DEF PanelTypeOK, Pages, Entry
<1>5. NamesStand'
  <2> SUFFICES ASSUME NEW e \in Seqs'
               PROVE  /\ events'[e].of <= Len(events')
                      /\ events'[e].is = "reaction" =>
                            \E j \in 1..e : events'[j] = Of(events'[e].of, "message")
    BY DEF NamesStand, Of
  <2>1. CASE e \in Seqs
    <3>1. e \in 1..Len(events) /\ events'[e] = events[e]
      BY <1>2, <2>1 DEF Seqs
    <3>2. events[e].of <= Len(events) /\ events[e].of \in Nat
      <4>1. events[e] \in Kinds
        BY <1>1, <3>1, ElementOfSeq
      <4>2. events[e].of \in Nat
        BY <4>1, PanelAssumption DEF Kinds, Private, Of, Messages
      <4> QED
        BY <2>1, <4>2 DEF PanelIInv, NamesStand
    <3>3. ASSUME events[e].is = "reaction"
          PROVE  \E j \in 1..e : events'[j] = Of(events'[e].of, "message")
      <4>1. PICK j \in 1..e : events[j] = Of(events[e].of, "message")
        BY <2>1, <3>3 DEF PanelIInv, NamesStand
      <4> QED
        BY <1>2, <3>1, <4>1
    <3> QED
      BY <1>2, <3>1, <3>2, <3>3
  <2>2. CASE e = Len(events) + 1
    <3>1. events'[e] = ev
      BY <1>2, <2>2
    <3>2. ASSUME ev.is = "reaction"
          PROVE  \E j \in 1..e : events'[j] = Of(ev.of, "message")
      <4> DEFINE j == RowAt(ev.of, Len(events))
      <4>1. j # 0
        BY <3>2
      <4>2. j \in 0..Len(events) /\ (j # 0 => events[j] = Of(ev.of, "message"))
        <5>1. Len(events) \in 0..Len(events)
          BY <1>2
        <5> QED
          BY <1>2, <5>1, LastFound DEF RowAt
      <4> HIDE DEF j
      <4>3. j \in 1..Len(events) /\ j \in 1..e /\ events'[j] = events[j]
        BY <1>2, <2>2, <4>1, <4>2
      <4> QED
        BY <4>1, <4>2, <4>3
    <3> QED
      BY <1>2, <3>1, <3>2
  <2> QED
    BY <1>2, <2>1, <2>2 DEF Seqs
<1>6. MailStands'
  <2>1. ASSUME NEW x \in sending PROVE x.seq <= x.at /\ events'[x.seq] # Private
    <3>1. x.seq \in Seqs
      BY DEF PanelIInv, PanelTypeOK
    <3> QED
      BY <1>2, <3>1 DEF PanelIInv, MailStands, Seqs
  <2>2. ASSUME NEW i \in DOMAIN mail PROVE Told(mail[i])'
    <3>1. mail[i] \in Envelopes
      BY ElementOfSeq, LenProperties DEF PanelIInv, PanelTypeOK
    <3> QED
      BY <1>1, <1>2, <3>1 DEF PanelIInv, MailStands
  <2> QED
    BY <1>1, <2>1, <2>2 DEF MailStands, Private, Of
<1>7. UNCHANGED << receipt, panel >> /\ \A e \in Seqs : events'[e] = events[e]
  BY <1>1, <1>2 DEF Seqs
<1> QED
  BY <1>2, <1>4, <1>5, <1>6, <1>7, RoomStep

\* An envelope is prepared from what there is.
LEMMA Prepares ==
  ASSUME PanelIInv, NEW e \in Seqs, Prepare(e)
  PROVE  PanelIInv'
<1>1. /\ events' = events /\ mail' = mail /\ link' = link /\ UNCHANGED << receipt, panel >>
      /\ sent' = sent \cup {e} /\ events[e] # Private
      /\ sending' = sending \cup {[seq |-> e, at |-> Len(events)]}
      /\ trouble' \in {trouble, trouble + 1} /\ (trouble' # trouble => trouble < MaxTrouble)
  BY DEF Prepare, Trouble
<1>2. Len(events) \in Nat /\ e \in 1..Len(events)
  BY LenProperties DEF PanelIInv, PanelTypeOK, Seqs
<1>3. PanelTypeOK'
  <2>1. trouble' \in 0..MaxTrouble
    BY <1>1, PanelAssumption DEF PanelIInv, PanelTypeOK
  <2>2. sending' \subseteq [seq : Seqs, at : Seqs] /\ sent' \subseteq Seqs
    BY <1>1, <1>2 DEF PanelIInv, PanelTypeOK, Seqs
  <2> QED
    BY <1>1, <2>1, <2>2 DEF PanelIInv, PanelTypeOK, panel, Seqs, Envelopes
<1>4. NamesStand' /\ Seqs' = Seqs /\ (\A env : Told(env)' <=> Told(env))
      /\ (\A d : Stands(d)' <=> Stands(d))
  BY <1>1, SameEvents DEF PanelIInv
<1>5. MailStands'
  BY <1>1, <1>2, <1>4 DEF PanelIInv, MailStands, Private, Of
<1> QED
  BY <1>1, <1>3, <1>4, <1>5, RoomStep

\* What is emitted was read at its event or later.
LEMMA Sends ==
  ASSUME PanelIInv, NEW x \in sending, Send(x)
  PROVE  PanelIInv'
<1> DEFINE m == events[x.seq].of
           env(n) == [seq |-> x.seq, of |-> m, row |-> RowAt(m, x.at),
                      reactions |-> ReactionsAt(m, n)]
<1>1. PICK n \in x.at..Len(events) : mail' = IF link # "in" THEN mail ELSE Append(mail, env(n))
  BY DEF Send
<1>2. /\ events' = events /\ link' = link /\ UNCHANGED << receipt, panel >> /\ sent' = sent
      /\ sending' = sending \ {x} /\ trouble' = trouble
  BY DEF Send
<1>3. /\ Len(events) \in Nat /\ x.seq \in 1..Len(events) /\ x.at \in 1..Len(events)
      /\ x.seq <= x.at /\ events[x.seq] # Private /\ events[x.seq] \in Kinds
      /\ events[x.seq].of <= Len(events)
  <2>1. x \in [seq : Seqs, at : Seqs] /\ events \in Seq(Kinds)
    BY DEF PanelIInv, PanelTypeOK
  <2>2. Len(events) \in Nat /\ x.seq \in 1..Len(events) /\ x.at \in 1..Len(events)
    BY <2>1, LenProperties DEF Seqs
  <2>3. x.seq <= x.at /\ events[x.seq] # Private
    BY DEF PanelIInv, MailStands
  <2>4. events[x.seq].of <= Len(events)
    BY <2>1 DEF PanelIInv, NamesStand
  <2> QED
    BY <2>1, <2>2, <2>3, <2>4, ElementOfSeq
<1>4. m \in 1..Len(events)
  BY <1>3, PanelAssumption DEF Kinds, Private, Of, Messages
<1>5. env(n) \in Envelopes /\ Told(env(n))
  <2> DEFINE v == env(n)
  <2>1. /\ v.seq = x.seq /\ v.of = m /\ v.row = RowAt(m, x.at) /\ v.reactions = ReactionsAt(m, n)
        /\ v = [seq |-> v.seq, of |-> v.of, row |-> v.row, reactions |-> v.reactions]
    OBVIOUS
  <2> HIDE DEF v
  <2>2. /\ v.row \in 0..x.at /\ v.reactions \in 0..n /\ Genuine(v, m)
        /\ Covers(v, m, x.at) /\ Covers(v, m, v.row)
    <3>1. x.at \in 0..Len(events) /\ n \in x.at..Len(events)
      BY <1>3
    <3> QED
      BY <1>3, <2>1, <3>1, ReadInOrder
  <2>3. v \in Envelopes
    <3>1. v.seq \in Seqs /\ v.of \in Seqs /\ v.row \in 0..Len(events)
          /\ v.reactions \in 0..Len(events)
      BY <1>3, <1>4, <2>1, <2>2 DEF Seqs
    <3> QED
      BY <2>1, <3>1 DEF Envelopes
  <2>4. Covers(v, m, v.seq)
    BY <1>3, <2>1, <2>2 DEF Covers
  <2>5. Told(v)
    BY <1>3, <2>1, <2>2, <2>4 DEF Told
  <2> QED
    BY <2>3, <2>5 DEF v
<1> HIDE DEF env
<1>6. mail' \in Seq(Envelopes) /\ \A i \in DOMAIN mail' : Told(mail'[i])
  <2>1. mail \in Seq(Envelopes) /\ \A i \in DOMAIN mail : Told(mail[i])
    BY DEF PanelIInv, PanelTypeOK, MailStands
  <2>2. CASE link # "in"
    BY <1>1, <2>1, <2>2
  <2>3. CASE link = "in"
    <3>1. mail' = Append(mail, env(n))
      BY <1>1, <2>3
    <3>2. /\ mail' \in Seq(Envelopes) /\ Len(mail') = Len(mail) + 1 /\ Len(mail) \in Nat
          /\ \A i \in 1..Len(mail) : mail'[i] = mail[i]
          /\ mail'[Len(mail) + 1] = env(n) /\ DOMAIN mail' = 1..Len(mail')
          /\ DOMAIN mail = 1..Len(mail)
      BY <1>5, <2>1, <3>1, AppendProperties, LenProperties
    <3> QED
      BY <1>5, <2>1, <3>2
  <2> QED
    BY <2>2, <2>3
<1>7. PanelTypeOK'
  BY <1>2, <1>6 DEF PanelIInv, PanelTypeOK, panel, Seqs, Envelopes
<1>8. NamesStand' /\ Seqs' = Seqs /\ (\A v : Told(v)' <=> Told(v))
      /\ (\A d : Stands(d)' <=> Stands(d))
  BY <1>2, SameEvents DEF PanelIInv
<1>9. MailStands'
  <2>1. PICK q : q = mail'
    OBVIOUS
  <2>2. \A i \in DOMAIN q : Told(q[i])'
    BY <1>6, <1>8, <2>1
  <2>3. \A i \in DOMAIN mail' : Told(mail[i])'
    BY <2>1, <2>2
  <2> QED
    BY <1>2, <2>3 DEF PanelIInv, MailStands, Private, Of
<1> QED
  BY <1>2, <1>7, <1>8, <1>9, RoomStep

\* The socket joins, or is lost with what was on its way.
LEMMA Reconnects ==
  ASSUME PanelIInv, Join \/ Disconnect
  PROVE  PanelIInv'
<1>1. /\ UNCHANGED << events, sending, sent, receipt, panel >> /\ link' \in {"down", "up", "in"}
      /\ mail' \in {mail, << >>}
      /\ trouble' \in {trouble, trouble + 1} /\ (trouble' # trouble => trouble < MaxTrouble)
  BY DEF Join, Disconnect, Trouble, room
<1>2. mail' \in Seq(Envelopes) /\ \A i \in DOMAIN mail' : Told(mail'[i])
  <2>1. << >> \in Seq(Envelopes) /\ DOMAIN << >> = {}
    BY EmptySeq
  <2> QED
    BY <1>1, <2>1 DEF PanelIInv, PanelTypeOK, MailStands
<1>3. PanelTypeOK'
  <2>1. trouble' \in 0..MaxTrouble
    BY <1>1, PanelAssumption DEF PanelIInv, PanelTypeOK
  <2> QED
    BY <1>1, <1>2, <2>1 DEF PanelIInv, PanelTypeOK, panel, Seqs, Envelopes
<1>4. NamesStand' /\ Seqs' = Seqs /\ (\A v : Told(v)' <=> Told(v))
      /\ (\A d : Stands(d)' <=> Stands(d))
  BY <1>1, SameEvents DEF PanelIInv
<1>5. MailStands'
  <2>1. PICK q : q = mail'
    OBVIOUS
  <2>2. \A i \in DOMAIN q : Told(q[i])'
    BY <1>2, <1>4, <2>1
  <2>3. \A i \in DOMAIN mail' : Told(mail[i])'
    BY <2>1, <2>2
  <2> QED
    BY <1>1, <2>3 DEF PanelIInv, MailStands, Private, Of
<1> QED
  BY <1>1, <1>3, <1>4, <1>5, RoomStep

\* What may be on its way, a refresh, and a receipt.
Letters(q) == q \in Seq(Envelopes) /\ \A i \in DOMAIN q : Told(q[i])
Refreshing(f) ==
    /\ f \in [on : BOOLEAN, from : 0..Len(events), counts : BOOLEAN, replay : Seq(Envelopes)]
    /\ \A i \in DOMAIN f.replay : Told(f.replay[i])
Received(t) ==
    /\ t \in [seen : SUBSET Seqs, first : 0..Len(events), seq : 0..Len(events)]
    /\ t.first <= t.seq /\ (t.seq # 0 => t.first # 0)

\* A step of the page alone, by what it leaves.
LEMMA PageStep ==
  ASSUME PanelIInv, UNCHANGED room,
         NEW q, mail' = q, Letters(q), NEW d, data' = d, d \in Pages, Stands(d),
         NEW f, fetch' = f, Refreshing(f), NEW t, receipt' = t, Received(t),
         link' \in {"down", "up", "in"}, trouble' \in 0..MaxTrouble,
         mounted' \in BOOLEAN, trailing' \in BOOLEAN, error' \in BOOLEAN,
         f.on => mounted' /\ (f.counts \/ trailing'),
         f.on /\ f.counts => Awaited(f, t),
         mounted' /\ ~f.on /\ ~error' => HasReached(d, t)
  PROVE  PanelIInv'
<1>1. events' = events /\ sending' = sending /\ sent' = sent
  BY DEF room
<1>2. /\ \A v : Told(v)' <=> Told(v)
      /\ \A v : Stands(v)' <=> Stands(v)
      /\ \A v, e : Reached(v, e)' <=> Reached(v, e)
      /\ Envelopes' = Envelopes /\ Pages' = Pages /\ Seqs' = Seqs /\ NamesStand'
  BY <1>1, SameEvents DEF PanelIInv
<1>3. PanelTypeOK'
  <2>1. d \in [read : BOOLEAN, sync : 0..Len(events),
               shown : [Messages -> [row : 0..Len(events), reactions : 0..Len(events),
                                     stamp : 0..Len(events)]]]
    BY DEF Pages, Entry
  <2>2. /\ events' \in Seq(Kinds) /\ Len(events') <= MaxSeq /\ sent' \subseteq Seqs
        /\ sending' \subseteq [seq : Seqs, at : Seqs]
    BY <1>1 DEF PanelIInv, PanelTypeOK
  <2> QED
    BY <1>1, <1>2, <2>1, <2>2 DEF PanelTypeOK, Letters, Refreshing, Received
<1>4. MailStands'
  <2>1. \A i \in DOMAIN q : Told(q[i])'
    BY <1>2 DEF Letters
  <2>2. \A i \in DOMAIN mail' : Told(mail[i])'
    BY <2>1
  <2> QED
    BY <1>1, <2>2 DEF PanelIInv, MailStands, Private, Of
<1>5. FetchStands'
  <2>1. \A i \in DOMAIN f.replay : Told(f.replay[i])'
    BY <1>2 DEF Refreshing
  <2>2. \A i \in DOMAIN fetch'.replay : Told(fetch.replay[i])'
    BY <2>1
  <2> QED
    BY <2>2 DEF FetchStands
<1>6. Stands(data)'
  <2>1. Stands(d)'
    BY <1>2
  <2> QED
    BY <2>1
<1>7. LinkedIsKnown'
  <2>1. Linked(t)' = Linked(t)
    BY <1>2 DEF Linked
  <2>2. (Awaited(f, t)' <=> Awaited(f, t)) /\ (HasReached(d, t)' <=> HasReached(d, t))
    BY <1>1, <1>2, <2>1 DEF Awaited, HasReached, Private, Of
  <2>3. t.first <= t.seq /\ (t.seq # 0 => t.first # 0)
    BY DEF Received
  <2> QED
    BY <2>2, <2>3 DEF LinkedIsKnown
<1> QED
  BY <1>2, <1>3, <1>4, <1>5, <1>6, <1>7 DEF PanelIInv

\* What is true before a step of the page.
LEMMA PageStands ==
  ASSUME PanelIInv
  PROVE  /\ Len(events) \in Nat /\ events \in Seq(Kinds) /\ Len(events) \in 0..MaxSeq
         /\ Letters(mail) /\ data \in Pages /\ Stands(data)
         /\ Refreshing(fetch) /\ Received(receipt)
         /\ link \in {"down", "up", "in"} /\ trouble \in 0..MaxTrouble
         /\ mounted \in BOOLEAN /\ trailing \in BOOLEAN /\ error \in BOOLEAN
         /\ fetch.on => mounted /\ (fetch.counts \/ trailing)
         /\ fetch.on /\ fetch.counts => Awaited(fetch, receipt)
         /\ mounted /\ ~fetch.on /\ ~error => HasReached(data, receipt)
         /\ \A e \in Seqs : e \in 1..Len(events)
<1>1. PanelTypeOK /\ MailStands /\ FetchStands /\ LinkedIsKnown /\ Stands(data)
  BY DEF PanelIInv
<1>2. Len(events) \in Nat /\ Len(events) \in 0..MaxSeq
  BY <1>1, LenProperties, PanelAssumption DEF PanelTypeOK
<1>3. data \in Pages
  BY <1>1 DEF PanelTypeOK, Pages, Entry
<1>4. Letters(mail) /\ Refreshing(fetch)
  BY <1>1 DEF PanelTypeOK, MailStands, FetchStands, Letters, Refreshing
<1>5. Received(receipt)
  BY <1>1 DEF PanelTypeOK, LinkedIsKnown, Received
<1>6. PanelTypeOK => /\ events \in Seq(Kinds)
                     /\ link \in {"down", "up", "in"} /\ trouble \in 0..MaxTrouble
                     /\ mounted \in BOOLEAN /\ trailing \in BOOLEAN /\ error \in BOOLEAN
  BY DEF PanelTypeOK
<1>7. \A e \in Seqs : e \in 1..Len(events)
  BY DEF Seqs
<1> QED
  BY <1>1, <1>2, <1>3, <1>4, <1>5, <1>6, <1>7 DEF FetchStands, LinkedIsKnown

\* What a refresh that is launched, or wanted once more, leaves: it has yet to read.
LEMMA Restarted ==
  ASSUME PanelIInv, events' = events, Restart \/ fetch' = Launch, NEW f, f = fetch', NEW t,
         Received(t)
  PROVE  /\ Refreshing(f) /\ f.on /\ (f.counts \/ trailing')
         /\ f.counts => Awaited(f, t)
<1>1. Len(events) \in Nat /\ Refreshing(fetch)
  BY PageStands
<1>2. \A e \in Linked(t) : e <= Len(events)
  BY PageStands DEF Linked
<1>3. CASE fetch' = Launch
  <2>1. << >> \in Seq(Envelopes) /\ DOMAIN << >> = {}
    BY EmptySeq
  <2>2. Refreshing(f) /\ f.on /\ f.counts /\ f.from = Len(events)
    BY <1>1, <1>3, <2>1 DEF Launch, Refreshing
  <2> QED
    BY <1>2, <2>2 DEF Awaited
<1>4. CASE fetch.on /\ fetch' = [fetch EXCEPT !.counts = FALSE] /\ trailing'
  <2>1. Refreshing(f) /\ f.on /\ ~f.counts
    BY <1>1, <1>4 DEF Refreshing
  <2> QED
    BY <1>4, <2>1
<1> QED
  BY <1>3, <1>4 DEF Restart

\* The socket connects, or the page mounts the panel: a refresh is wanted.
LEMMA Refreshes ==
  ASSUME PanelIInv, UNCHANGED << room, mail, receipt, data, error, trouble >>,
         link' \in {"down", "up", "in"}, mounted', trailing' \in BOOLEAN,
         mounted' \in BOOLEAN, Restart \/ fetch' = Launch
  PROVE  PanelIInv'
<1>1. PICK f : f = fetch'
  OBVIOUS
<1>2. PICK t : t = receipt'
  OBVIOUS
<1>3. PICK q : q = mail'
  OBVIOUS
<1>4. PICK d : d = data'
  OBVIOUS
<1>5. Received(t) /\ Letters(q) /\ d \in Pages /\ Stands(d) /\ error' \in BOOLEAN
      /\ trouble' \in 0..MaxTrouble
  BY <1>2, <1>3, <1>4, PageStands
<1>6. Refreshing(f) /\ f.on /\ (f.counts \/ trailing') /\ (f.counts => Awaited(f, t))
  BY <1>1, <1>5, Restarted DEF room
<1> QED
  BY <1>1, <1>2, <1>3, <1>4, <1>5, <1>6, PageStep

\* The socket connects; a panel on the page refreshes.
LEMMA Connects == ASSUME PanelIInv, Connect PROVE PanelIInv'
<1>1. CASE mounted
  <2>1. /\ UNCHANGED << room, mail, receipt, data, error, trouble >> /\ Restart
        /\ link' \in {"down", "up", "in"} /\ mounted' = mounted
    BY <1>1 DEF Connect
  <2>2. trailing' \in BOOLEAN
    BY <2>1, PageStands DEF Restart
  <2> QED
    BY <1>1, <2>1, <2>2, PageStands, Refreshes
<1>2. CASE ~mounted
  <2>1. /\ UNCHANGED << room, mail, receipt, data, error, trouble, fetch, trailing, mounted >>
        /\ link' \in {"down", "up", "in"} /\ events' = events
    BY <1>2 DEF Connect, room
  <2>2. PanelTypeOK'
    BY <2>1 DEF PanelIInv, PanelTypeOK, room, Seqs, Envelopes
  <2>3. NamesStand' /\ Seqs' = Seqs /\ (\A v : Told(v)' <=> Told(v))
        /\ (\A d : Stands(d)' <=> Stands(d))
    BY <2>1, SameEvents DEF PanelIInv
  <2>4. MailStands'
    <3>1. PICK q : q = mail'
      OBVIOUS
    <3>2. \A i \in DOMAIN q : Told(q[i])'
      BY <2>1, <2>3, <3>1 DEF PanelIInv, MailStands
    <3>3. \A i \in DOMAIN mail' : Told(mail[i])'
      BY <3>1, <3>2
    <3> QED
      BY <2>1, <3>3 DEF PanelIInv, MailStands, Private, Of, room
  <2> QED
    BY <2>1, <2>2, <2>3, <2>4, RoomStep DEF panel
<1> QED
  BY <1>1, <1>2

\* The panel is put on the page, and refreshes.
LEMMA Mounts == ASSUME PanelIInv, Mount PROVE PanelIInv'
<1>1. /\ UNCHANGED << room, mail, receipt, data, error, trouble, trailing >>
      /\ link' \in {"down", "up", "in"} /\ mounted' = TRUE /\ fetch' = Launch
  BY PageStands DEF Mount
<1>2. trailing' \in BOOLEAN
  BY <1>1, PageStands
<1> QED
  BY <1>1, <1>2, Refreshes

\* A refresh that is over: one that counted is followed by nothing or by another one.
LEMMA Finished ==
  ASSUME PanelIInv, events' = events, fetch.on, Finish, NEW f, f = fetch', NEW t, Received(t)
  PROVE  /\ Refreshing(f) /\ trailing' \in BOOLEAN
         /\ f.on => f.counts /\ Awaited(f, t)
         /\ ~f.on => fetch.counts
<1>1. << >> \in Seq(Envelopes) /\ DOMAIN << >> = {} /\ Len(events) \in Nat
  BY EmptySeq, PageStands
<1>2. CASE trailing
  <2>1. fetch' = Launch /\ trailing' = FALSE
    BY <1>2 DEF Finish
  <2>2. f.on /\ f.counts
    BY <2>1 DEF Launch
  <2> QED
    BY <2>1, <2>2, Restarted
<1>3. CASE ~trailing
  <2>1. fetch' = NoFetch /\ trailing' = FALSE /\ fetch.counts
    BY <1>3, PageStands DEF Finish
  <2>2. Refreshing(NoFetch) /\ ~NoFetch.on
    BY <1>1 DEF NoFetch, Refreshing
  <2> QED
    BY <2>1, <2>2
<1> QED
  BY <1>2, <1>3

\* A refresh fails: nothing is shown, and another one is wanted or an error is.
LEMMA Fails == ASSUME PanelIInv, RefreshFails PROVE PanelIInv'
<1>1. PICK f : f = fetch'
  OBVIOUS
<1>2. PICK t : t = receipt'
  OBVIOUS
<1>3. PICK q : q = mail'
  OBVIOUS
<1>4. PICK d : d = data'
  OBVIOUS
<1>5. /\ UNCHANGED << room, link, mail, receipt, mounted, data >> /\ fetch.on /\ Finish
      /\ trouble < MaxTrouble /\ trouble' = trouble + 1 /\ error' = (error \/ fetch.counts)
      /\ events' = events
  BY DEF RefreshFails, Trouble, room
<1>6. /\ Received(t) /\ Letters(q) /\ d \in Pages /\ Stands(d) /\ error' \in BOOLEAN
      /\ link' \in {"down", "up", "in"} /\ mounted' \in BOOLEAN /\ mounted'
  BY <1>2, <1>3, <1>4, <1>5, PageStands
<1>7. /\ Refreshing(f) /\ trailing' \in BOOLEAN
      /\ f.on => f.counts /\ Awaited(f, t)
      /\ ~f.on => fetch.counts
  BY <1>1, <1>5, <1>6, Finished
<1>8. trouble' \in 0..MaxTrouble
  BY <1>5, PageStands, PanelAssumption
<1>9. ~f.on => error'
  BY <1>5, <1>7
<1> QED
  BY <1>1, <1>2, <1>3, <1>4, <1>5, <1>6, <1>7, <1>8, <1>9, PageStep

\* A page has been read: with the envelopes kept meanwhile it has reached all that is linked.
LEMMA Refreshings == ASSUME PanelIInv, Refreshed PROVE PanelIInv'
<1>1. PICK f : f = fetch'
  OBVIOUS
<1>2. PICK t : t = receipt'
  OBVIOUS
<1>3. PICK q : q = mail'
  OBVIOUS
<1>4. PICK d : d = data'
  OBVIOUS
<1>5. /\ UNCHANGED << room, link, mail, receipt, mounted, trouble >> /\ fetch.on /\ Finish
      /\ events' = events
  BY DEF Refreshed, room
<1>6. /\ Received(t) /\ t = receipt /\ Letters(q) /\ trouble' \in 0..MaxTrouble
      /\ link' \in {"down", "up", "in"} /\ mounted' \in BOOLEAN /\ mounted'
  BY <1>2, <1>3, <1>5, PageStands
<1>7. /\ Refreshing(f) /\ trailing' \in BOOLEAN
      /\ f.on => f.counts /\ Awaited(f, t)
      /\ ~f.on => fetch.counts
  BY <1>1, <1>5, <1>6, Finished
<1>9. CASE fetch.counts
  <2>1. PICK c \in fetch.from..Len(events) : \E r \in c..Len(events) :
              \E n \in r..Len(events) : data' = Merged(c, r, n)
    BY <1>9 DEF Refreshed
  <2>8. PICK r \in c..Len(events) : \E n \in r..Len(events) : data' = Merged(c, r, n)
    BY <2>1
  <2>2. PICK n \in r..Len(events) : data' = Merged(c, r, n)
    BY <2>8
  <2>3. c \in 0..Len(events) /\ fetch.from <= c /\ fetch.from \in Nat
    BY PageStands DEF Refreshing
  <2>4. \A e \in Seqs, m \in Messages :
           events[e] = Of(m, "reaction") => \E j \in 1..e : events[j] = Of(m, "message")
    BY DEF PanelIInv, NamesStand, Of
  <2>5. /\ d \in Pages /\ Stands(d) /\ d.sync = c
        /\ \A i \in DOMAIN fetch.replay : Reached(d, fetch.replay[i].seq)
    BY <1>4, <2>2, <2>3, <2>4, MergedStands, PageStands DEF Refreshing
  <2>6. HasReached(d, t)
    <3> SUFFICES ASSUME NEW e \in Linked(t) PROVE Reached(d, e)
      BY DEF HasReached
    <3>1. e <= fetch.from \/ \E i \in DOMAIN fetch.replay : fetch.replay[i].seq = e
      BY <1>5, <1>6, <1>9, PageStands DEF Awaited
    <3>2. CASE e <= fetch.from
      <4>1. e \in Nat
        BY PageStands DEF Linked
      <4> QED
        BY <2>3, <2>5, <3>2, <4>1 DEF Reached
    <3>3. CASE \E i \in DOMAIN fetch.replay : fetch.replay[i].seq = e
      BY <2>5, <3>3
    <3> QED
      BY <3>1, <3>2, <3>3
  <2>7. error' \in BOOLEAN
    BY <1>9 DEF Refreshed
  <2> QED
    BY <1>1, <1>2, <1>3, <1>4, <1>5, <1>6, <1>7, <2>5, <2>6, <2>7, PageStep
<1>10. CASE ~fetch.counts
  <2>1. d \in Pages /\ Stands(d) /\ error' \in BOOLEAN
    BY <1>4, <1>10, PageStands DEF Refreshed
  <2> QED
    BY <1>1, <1>2, <1>3, <1>4, <1>5, <1>6, <1>7, <1>10, <2>1, PageStep
<1> QED
  BY <1>9, <1>10

\* What an envelope does to the page, by case; and no message is taken back.
LEMMA Receives ==
  ASSUME PanelIInv, Receive
  PROVE  /\ PanelIInv'
         /\ \A m \in Messages : data'.shown[m].row >= data.shown[m].row
<1>1. PICK f : f = fetch'
  OBVIOUS
<1>2. PICK t : t = receipt'
  OBVIOUS
<1>3. PICK q : q = mail'
  OBVIOUS
<1>4. PICK d : d = data'
  OBVIOUS
<1> DEFINE env == Head(mail)
<1>5. /\ UNCHANGED << room, link, mounted, error, trouble >> /\ events' = events
      /\ mail # << >> /\ q = Tail(mail)
  BY <1>3 DEF Receive, room
<1>6. env \in Envelopes /\ Told(env) /\ Letters(q)
  <2>1. mail \in Seq(Envelopes) /\ \A i \in DOMAIN mail : Told(mail[i])
    BY PageStands DEF Letters
  <2>2. Len(mail) \in Nat \ {0} /\ DOMAIN mail = 1..Len(mail) /\ env = mail[1]
    BY <1>5, <2>1, HeadTailProperties, EmptySeq, LenProperties
  <2>3. env \in Envelopes /\ Told(env)
    BY <2>1, <2>2, ElementOfSeq
  <2>4. q \in Seq(Envelopes) /\ Len(q) = Len(mail) - 1 /\ DOMAIN q = 1..Len(q)
        /\ \A i \in 1..Len(q) : q[i] = mail[i + 1]
    BY <1>5, <2>1, HeadTailProperties, LenProperties
  <2>5. \A i \in 1..Len(q) : i + 1 \in 1..Len(mail)
    BY <2>2, <2>4
  <2> QED
    BY <2>1, <2>2, <2>3, <2>4, <2>5 DEF Letters
<1> HIDE DEF env
<1>7. /\ env.seq \in Seqs /\ env.seq \in 1..Len(events) /\ Len(events) \in Nat
      /\ \A e \in Seqs : e \in 1..Len(events)
  BY <1>6, PageStands DEF Envelopes, Seqs
<1>8. /\ link' \in {"down", "up", "in"} /\ trouble' \in 0..MaxTrouble /\ error' \in BOOLEAN
      /\ mounted' \in BOOLEAN /\ mounted' = mounted /\ error' = error
  BY <1>5, PageStands
<1>9. \A m \in Messages : data.shown[m].row >= data.shown[m].row
  <2>1. \A m \in Messages : data.shown[m] \in Entry
    BY PageStands DEF Pages
  <2> QED
    BY <1>7, <2>1 DEF Entry
<1>10. CASE env.seq \in receipt.seen /\ UNCHANGED << receipt, fetch, trailing, data >>
  <2>1. /\ t = receipt /\ f = fetch /\ d = data /\ trailing' = trailing
    BY <1>1, <1>2, <1>4, <1>10
  <2>3. /\ Refreshing(f) /\ Received(t) /\ d \in Pages /\ Stands(d) /\ trailing' \in BOOLEAN
        /\ f.on => mounted' /\ (f.counts \/ trailing')
        /\ f.on /\ f.counts => Awaited(f, t)
        /\ mounted' /\ ~f.on /\ ~error' => HasReached(d, t)
    BY <1>8, <2>1, PageStands
  <2>2. PanelIInv'
    BY <1>1, <1>2, <1>3, <1>4, <1>5, <1>6, <1>8, <2>3, PageStep
  <2> QED
    BY <1>9, <1>10, <2>2
<1>11. CASE /\ env.seq \notin receipt.seen
            /\ receipt' = [seen |-> receipt.seen \cup {env.seq},
                           first |-> IF receipt.seq = 0 THEN env.seq ELSE receipt.first,
                           seq |-> Later(env.seq, receipt.seq)]
            /\ \/ ~mounted /\ UNCHANGED << fetch, trailing, data >>
               \/ mounted /\ IsGap(env.seq) /\ Restart /\ UNCHANGED data
               \/ mounted /\ ~IsGap(env.seq) /\ Apply(env)
  <2>1. /\ receipt.seen \subseteq Seqs /\ receipt.first \in 0..Len(events)
        /\ receipt.seq \in 0..Len(events)
        /\ receipt.first <= receipt.seq /\ (receipt.seq # 0 => receipt.first # 0)
    BY PageStands DEF Received
  <2>2. /\ t.first = (IF receipt.seq = 0 THEN env.seq ELSE receipt.first)
        /\ t.seq = Later(env.seq, receipt.seq)
        /\ t \in [seen : SUBSET Seqs, first : 0..Len(events), seq : 0..Len(events)]
    BY <1>2, <1>7, <1>11, <2>1 DEF Later
  <2>3. Received(t)
    BY <1>7, <2>1, <2>2 DEF Later, Received
  <2>4. CASE ~mounted /\ UNCHANGED << fetch, trailing, data >>
    <3>1. /\ Refreshing(f) /\ d \in Pages /\ Stands(d) /\ trailing' \in BOOLEAN /\ ~f.on
          /\ ~mounted'
      BY <1>1, <1>4, <1>8, <2>4, PageStands
    <3>2. PanelIInv'
      BY <1>1, <1>2, <1>3, <1>4, <1>5, <1>6, <1>8, <2>3, <3>1, PageStep
    <3> QED
      BY <1>9, <2>4, <3>2
  <2>5. CASE mounted /\ IsGap(env.seq) /\ Restart /\ UNCHANGED data
    <3>1. d \in Pages /\ Stands(d) /\ trailing' \in BOOLEAN /\ mounted'
      BY <1>4, <1>8, <2>5, PageStands DEF Restart
    <3>2. Refreshing(f) /\ f.on /\ (f.counts \/ trailing') /\ (f.counts => Awaited(f, t))
      BY <1>1, <1>5, <2>3, <2>5, Restarted
    <3>3. PanelIInv'
      BY <1>1, <1>2, <1>3, <1>4, <1>5, <1>6, <1>8, <2>3, <3>1, <3>2, PageStep
    <3> QED
      BY <1>9, <2>5, <3>3
  <2>6. CASE mounted /\ ~IsGap(env.seq) /\ Apply(env)
    \* Only the envelope's event becomes linked.
    <3>1. \A e \in Linked(t) : e = env.seq \/ e \in Linked(receipt)
      BY <1>7, <2>1, <2>2, <2>6, PageStands DEF IsGap, Later, Linked
    <3> DEFINE g == Applied(data, env)
    <3>2. /\ g \in Pages /\ Stands(g)
          /\ g.sync = data.sync
          /\ \A m \in Messages : /\ g.shown[m].stamp >= data.shown[m].stamp
                                 /\ g.shown[m].row >= data.shown[m].row
          /\ Reached(g, env.seq)
      BY <1>6, PageStands, AppliedStands
    <3> HIDE DEF g
    <3>3. ASSUME NEW e \in Seqs, events[e] # Private, Reached(data, e) PROVE Reached(g, e)
      <4> DEFINE m == events[e].of
      <4>1. m \in Messages
        <5>1. events[e] \in Kinds
          BY <1>7, PageStands, ElementOfSeq
        <5> QED
          BY <3>3, <5>1 DEF Kinds, Of, Messages
      <4>2. g.shown[m] \in Entry /\ data.shown[m] \in Entry
        BY <3>2, <4>1, PageStands DEF Pages
      <4>3. g.shown[m].stamp \in Nat /\ data.shown[m].stamp \in Nat /\ e \in Nat
            /\ g.shown[m].stamp >= data.shown[m].stamp
        BY <1>7, <3>2, <4>1, <4>2 DEF Entry
      <4> QED
        BY <3>2, <3>3, <4>3 DEF Reached
    <3>4. d = (IF data.read THEN g ELSE data) /\ trailing' = trailing
      BY <1>4, <2>6 DEF Apply, g
    <3>5. d \in Pages /\ Stands(d) /\ \A m \in Messages : data'.shown[m].row >= data.shown[m].row
      BY <1>4, <1>9, <3>2, <3>4, PageStands
    <3>6. CASE fetch.on
      <4>1. f = [fetch EXCEPT !.replay = Append(@, env)]
        BY <1>1, <2>6, <3>6 DEF Apply
      <4>2. /\ fetch.replay \in Seq(Envelopes) /\ f.replay = Append(fetch.replay, env)
            /\ f.on = fetch.on /\ f.counts = fetch.counts /\ f.from = fetch.from
            /\ f = [fetch EXCEPT !.replay = f.replay]
        BY <4>1, PageStands DEF Refreshing
      <4>3. /\ DOMAIN fetch.replay = 1..Len(fetch.replay) /\ Len(fetch.replay) \in Nat
            /\ DOMAIN f.replay = 1..Len(fetch.replay) + 1 /\ f.replay \in Seq(Envelopes)
            /\ f.replay[Len(fetch.replay) + 1] = env
            /\ \A i \in 1..Len(fetch.replay) : f.replay[i] = fetch.replay[i]
        BY <1>6, <4>2, AppendProperties, LenProperties
      <4>4. Refreshing(f)
        <5>1. \A i \in DOMAIN f.replay : Told(f.replay[i])
          BY <1>6, <4>3, PageStands DEF Refreshing
        <5>2. f \in [on : BOOLEAN, from : 0..Len(events), counts : BOOLEAN,
                     replay : Seq(Envelopes)]
          BY <4>2, <4>3, PageStands DEF Refreshing
        <5> QED
          BY <5>1, <5>2 DEF Refreshing
      <4>5. ASSUME f.counts PROVE Awaited(f, t)
        <5> SUFFICES ASSUME NEW e \in Linked(t)
                     PROVE  e <= f.from \/ \E i \in DOMAIN f.replay : f.replay[i].seq = e
          BY DEF Awaited
        <5>1. CASE e = env.seq
          BY <4>3, <5>1
        <5>2. CASE e \in Linked(receipt)
          <6>1. e <= fetch.from \/ \E i \in DOMAIN fetch.replay : fetch.replay[i].seq = e
            BY <3>6, <4>2, <4>5, <5>2, PageStands DEF Awaited
          <6>2. ASSUME NEW i \in DOMAIN fetch.replay, fetch.replay[i].seq = e
                PROVE  i \in DOMAIN f.replay /\ f.replay[i].seq = e
            BY <4>3, <6>2
          <6> QED
            BY <4>2, <6>1, <6>2
        <5> QED
          BY <3>1, <5>1, <5>2
      <4>6. f.on /\ mounted' /\ (f.counts \/ trailing') /\ trailing' \in BOOLEAN
        BY <1>8, <3>4, <3>6, <4>2, PageStands
      <4>7. PanelIInv'
        BY <1>1, <1>2, <1>3, <1>4, <1>5, <1>6, <1>8, <2>3, <3>5, <4>4, <4>5, <4>6, PageStep
      <4> QED
        BY <3>5, <4>7
    <3>7. CASE ~fetch.on /\ data.read
      <4>1. f = fetch /\ d = g
        BY <1>1, <2>6, <3>4, <3>7 DEF Apply
      <4>2. ASSUME ~error' PROVE HasReached(d, t)
        <5> SUFFICES ASSUME NEW e \in Linked(t), events[e] # Private PROVE Reached(d, e)
          BY DEF HasReached
        <5>1. CASE e = env.seq
          BY <3>2, <4>1, <5>1
        <5>2. CASE e \in Linked(receipt)
          <6>1. Reached(data, e) /\ e \in Seqs
            BY <1>8, <2>6, <3>7, <4>2, <5>2, PageStands DEF HasReached, Linked
          <6> QED
            BY <3>3, <4>1, <6>1
        <5> QED
          BY <3>1, <5>1, <5>2
      <4>3. ~f.on /\ Refreshing(f) /\ trailing' \in BOOLEAN
        BY <3>4, <3>7, <4>1, PageStands
      <4>4. PanelIInv'
        BY <1>1, <1>2, <1>3, <1>4, <1>5, <1>6, <1>8, <2>3, <3>5, <4>2, <4>3, PageStep
      <4> QED
        BY <3>5, <4>4
    <3>8. CASE ~fetch.on /\ ~data.read
      <4>1. fetch' = Launch /\ trailing' \in BOOLEAN /\ mounted'
        BY <1>8, <2>6, <3>4, <3>8, PageStands DEF Apply
      <4>2. Refreshing(f) /\ f.on /\ (f.counts \/ trailing') /\ (f.counts => Awaited(f, t))
        BY <1>1, <1>5, <2>3, <4>1, Restarted
      <4>3. PanelIInv'
        BY <1>1, <1>2, <1>3, <1>4, <1>5, <1>6, <1>8, <2>3, <3>5, <4>1, <4>2, PageStep
      <4> QED
        BY <3>5, <4>3
    <3> QED
      BY <3>6, <3>7, <3>8
  <2> QED
    BY <1>11, <2>4, <2>5, <2>6
<1> QED
  BY <1>10, <1>11 DEF Receive, env

\* At first nothing has happened.
LEMMA PanelStarts == ASSUME PanelInit PROVE PanelIInv
<1>1. events = << >> /\ Len(events) = 0 /\ Seqs = {} /\ mail = << >> /\ DOMAIN << >> = {}
  BY EmptySeq DEF PanelInit, Seqs
<1>2. << >> \in Seq(Kinds) /\ << >> \in Seq(Envelopes)
  BY EmptySeq
<1>3. data \in Pages /\ Stands(data)
  BY <1>1 DEF PanelInit, Unread, Unposted, Pages, Entry, Stands, Genuine, Covers, Messages
<1>4. Refreshing(fetch) /\ ~fetch.on
  BY <1>1, <1>2 DEF PanelInit, NoFetch, Refreshing
<1>5. Received(receipt)
  BY <1>1 DEF PanelInit, Received
<1>6. PanelTypeOK
  <2>1. /\ sent = {} /\ sending = {} /\ link = "down" /\ mounted = FALSE /\ trailing = FALSE
        /\ error = FALSE /\ trouble = 0
    BY DEF PanelInit
  <2>2. trouble \in 0..MaxTrouble /\ Len(events) <= MaxSeq
    BY <1>1, <2>1, PanelAssumption
  <2>3. data \in [read : BOOLEAN, sync : 0..Len(events),
                 shown : [Messages -> [row : 0..Len(events), reactions : 0..Len(events),
                                       stamp : 0..Len(events)]]]
    BY <1>3 DEF Pages, Entry
  <2>4. /\ receipt \in [seen : SUBSET Seqs, first : 0..Len(events), seq : 0..Len(events)]
        /\ fetch \in [on : BOOLEAN, from : 0..Len(events), counts : BOOLEAN,
                      replay : Seq(Envelopes)]
    BY <1>4, <1>5 DEF Refreshing, Received
  <2> QED
    BY <1>1, <1>2, <2>1, <2>2, <2>3, <2>4 DEF PanelTypeOK
<1>7. NamesStand /\ MailStands
  BY <1>1 DEF PanelInit, NamesStand, MailStands
<1>8. FetchStands
  BY <1>4 DEF FetchStands, Refreshing
<1>9. LinkedIsKnown
  BY <1>1, <1>4 DEF PanelInit, LinkedIsKnown, Received
<1> QED
  BY <1>3, <1>6, <1>7, <1>8, <1>9 DEF PanelIInv

\* Every step keeps the invariant.
LEMMA PanelGoesOn == ASSUME PanelIInv, [PanelNext]_panelVars PROVE PanelIInv'
<1>1. CASE Commit(Private)
  <2>1. Private \in Kinds /\ Private.of = 0 /\ Private.is = "private"
    BY DEF Private, Of, Kinds
  <2>2. 0 \in 0..Len(events) + 1
    BY PageStands
  <2> QED
    BY <1>1, <2>1, <2>2, Commits
<1>2. CASE Commit(Of(Len(events) + 1, "message"))
  <2> DEFINE ev == Of(Len(events) + 1, "message")
  <2>1. Len(events) + 1 \in Messages
    BY <1>2, PageStands, PanelAssumption DEF Commit, Messages
  <2>2. ev \in Kinds /\ ev.of = Len(events) + 1 /\ ev.is = "message"
    BY <2>1 DEF Kinds, Of
  <2>3. ev.of \in 0..Len(events) + 1
    BY <2>2, PageStands
  <2> HIDE DEF ev
  <2> QED
    BY <1>2, <2>2, <2>3, Commits DEF ev
<1>3. ASSUME NEW m \in Seqs, NEW kind \in {"message", "reaction"},
             RowAt(m, Len(events)) # 0, Commit(Of(m, kind))
      PROVE  PanelIInv'
  <2> DEFINE ev == Of(m, kind)
  <2>1. m \in Messages /\ m \in 0..Len(events) + 1
    BY PageStands, PanelAssumption DEF Messages
  <2>2. ev \in Kinds /\ ev.of = m
    BY <2>1 DEF Kinds, Of
  <2>3. ev.of \in 0..Len(events) + 1 /\ RowAt(ev.of, Len(events)) # 0
    BY <1>3, <2>1, <2>2
  <2> HIDE DEF ev
  <2> QED
    BY <1>3, <2>2, <2>3, Commits DEF ev
<1>4. ASSUME NEW e \in Seqs, Prepare(e) PROVE PanelIInv'
  BY <1>4, Prepares
<1>5. ASSUME NEW x \in sending, Send(x) PROVE PanelIInv'
  BY <1>5, Sends
<1>6. CASE Receive
  BY <1>6, Receives
<1>7. CASE Connect
  BY <1>7, Connects
<1>8. CASE Join \/ Disconnect
  BY <1>8, Reconnects
<1>9. CASE Mount
  BY <1>9, Mounts
<1>10. CASE Refreshed
  BY <1>10, Refreshings
<1>11. CASE RefreshFails
  BY <1>11, Fails
<1>12. CASE UNCHANGED panelVars
  <2>1. UNCHANGED << receipt, panel, events, mail, sending, sent, link, trouble >>
    BY <1>12 DEF panelVars, room
  <2>2. PanelTypeOK' /\ Seqs' = Seqs
    BY <2>1 DEF PanelIInv, PanelTypeOK, panel, Seqs, Envelopes
  <2>3. NamesStand' /\ (\A v : Told(v)' <=> Told(v)) /\ (\A d : Stands(d)' <=> Stands(d))
    BY <2>1, SameEvents DEF PanelIInv
  <2>4. PICK q : q = mail'
    OBVIOUS
  <2>5. \A i \in DOMAIN q : Told(q[i])'
    BY <2>1, <2>3, <2>4 DEF PanelIInv, MailStands
  <2>6. \A i \in DOMAIN mail' : Told(mail[i])'
    BY <2>4, <2>5
  <2>7. MailStands'
    BY <2>1, <2>6 DEF PanelIInv, MailStands, Private, Of
  <2> QED
    BY <2>1, <2>2, <2>3, <2>7, RoomStep
<1> QED
  BY <1>1, <1>2, <1>3, <1>4, <1>5, <1>6, <1>7, <1>8, <1>9, <1>10, <1>11, <1>12 DEF PanelNext

\* What is linked and reached is shown as it is.
LEMMA ReachedIsShown ==
  ASSUME PanelIInv, Settled, FirstIsLinked, NEW m \in Messages
  PROVE  /\ data.shown[m].row = RowAt(m, Len(events))
         /\ data.shown[m].reactions = ReactionsAt(m, Len(events))
<1> DEFINE x == data.shown[m]
<1>1. /\ Len(events) \in Nat /\ data \in Pages /\ Stands(data) /\ HasReached(data, receipt)
      /\ receipt.first \in Nat /\ receipt.seq \in Nat /\ receipt.first <= receipt.seq
      /\ receipt.seq # 0 => receipt.first # 0
  BY PageStands DEF Settled, Received
<1>2. /\ x \in Entry /\ data.sync \in 0..Len(events) /\ Genuine(x, m)
      /\ Covers(x, m, x.stamp) /\ Covers(x, m, data.sync)
  BY <1>1 DEF Pages, Stands
<1>3. x.row \in 0..Len(events) /\ x.reactions \in 0..Len(events) /\ x.stamp \in 0..Len(events)
  BY <1>2 DEF Entry
<1>4. ASSUME NEW e \in 1..Len(events), events[e].of = m, events[e] # Private
      PROVE  e <= data.sync \/ e <= x.stamp
  <2>1. e \in Public
    BY <1>4 DEF Public, Seqs
  <2>2. e <= receipt.seq \/ e <= data.sync
    BY <2>1 DEF Settled
  <2>3. CASE ~(e <= data.sync)
    <3>1. e \in Linked(receipt)
      BY <1>1, <1>2, <2>2, <2>3 DEF FirstIsLinked, Linked, Seqs
    <3>2. Reached(data, e)
      BY <1>1, <1>4, <3>1 DEF HasReached
    <3> QED
      BY <1>4, <3>2 DEF Reached
  <2> QED
    BY <2>3
<1>5. Covers(x, m, Len(events))
  <2> SUFFICES ASSUME NEW e \in 1..Len(events),
                      events[e] = Of(m, "message") \/ events[e] = Of(m, "reaction")
               PROVE  /\ events[e] = Of(m, "message") => e <= x.row
                      /\ events[e] = Of(m, "reaction") => e <= x.reactions
    BY DEF Covers
  <2>1. events[e].of = m /\ events[e] # Private
    BY DEF Of, Private
  <2>2. e <= data.sync \/ e <= x.stamp
    BY <1>4, <2>1
  <2> QED
    BY <1>2, <1>3, <2>2 DEF Covers
<1> HIDE DEF x
<1>6. Len(events) \in 0..Len(events)
  BY <1>1
<1>7. x.row = RowAt(m, Len(events))
  <2> DEFINE l == LastAt(Of(m, "message"), Len(events))
  <2>1. /\ l \in 0..Len(events) /\ (l # 0 => events[l] = Of(m, "message"))
        /\ \A i \in 1..Len(events) : events[i] = Of(m, "message") => i <= l
    BY <1>1, <1>6, LastFound
  <2> HIDE DEF l
  <2>2. x.row # 0 => x.row <= l
    BY <1>2, <1>3, <2>1 DEF Genuine
  <2>3. l # 0 => l <= x.row
    BY <1>1, <1>5, <2>1 DEF Covers
  <2>4. x.row = l
    BY <1>3, <2>1, <2>2, <2>3
  <2> QED
    BY <2>4 DEF RowAt, l
<1>8. x.reactions = ReactionsAt(m, Len(events))
  <2> DEFINE l == LastAt(Of(m, "reaction"), Len(events))
  <2>1. /\ l \in 0..Len(events) /\ (l # 0 => events[l] = Of(m, "reaction"))
        /\ \A i \in 1..Len(events) : events[i] = Of(m, "reaction") => i <= l
    BY <1>1, <1>6, LastFound
  <2> HIDE DEF l
  <2>2. x.reactions # 0 => x.reactions <= l
    BY <1>2, <1>3, <2>1 DEF Genuine
  <2>3. l # 0 => l <= x.reactions
    BY <1>1, <1>5, <2>1 DEF Covers
  <2>4. x.reactions = l
    BY <1>3, <2>1, <2>2, <2>3
  <2> QED
    BY <2>4 DEF ReactionsAt, l
<1> QED
  BY <1>7, <1>8 DEF x

\* What the invariant says of a settled viewer is that it shows the room.
LEMMA PanelIsKept == PanelIInv => PanelInv
<1> SUFFICES ASSUME PanelIInv PROVE PanelInv
  OBVIOUS
<1>1. PanelTypeOK
  BY DEF PanelIInv
<1>2. ASSUME Settled, FirstIsLinked PROVE ShowsAll
  BY <1>2, ReachedIsShown DEF ShowsAll
<1> QED
  BY <1>1, <1>2 DEF PanelInv, PanelIsCurrent

\* A viewer for whom nothing is on its way shows the chat as it is (audience-panel.tsx,
\* lib/realtime.ts), for any number of events, envelopes sent twice, late or out of order,
\* lost connections and failed refreshes.
THEOREM PanelKeepsUp == PanelSpec => []PanelInv
<1>1. PanelSpec => []PanelIInv
  BY PanelStarts, PanelGoesOn, PTL DEF PanelSpec
<1> QED
  BY <1>1, PanelIsKept, PTL

\* No envelope takes the panel back to an earlier state of a message.
THEOREM EnvelopesGoForward == PanelSpec => EnvelopesNeverGoBack
<1>1. PanelSpec => []PanelIInv
  BY PanelStarts, PanelGoesOn, PTL DEF PanelSpec
<1>2. PanelIInv /\ [PanelNext]_panelVars =>
        [Receive => \A m \in Messages : data'.shown[m].row >= data.shown[m].row]_panelVars
  BY Receives
<1> QED
  BY <1>1, <1>2, PTL DEF PanelSpec, EnvelopesNeverGoBack

-------------------------------------------------------------------------------
(* The Round editor (DraftEditor).  Each part of the invariant is a predicate *)
(* of values: the drafts by revision h, the receipts g, the publications v,   *)
(* the identifiers given out n, the page p and the browser's copy c.          *)

\* What the page and the server keep has the shape of the code's types.
Copies == [there : BOOLEAN, draft : Drafts]
Saves == [id : Nat, draft : Drafts, kind : {"autosave", "publish"}, tag : Nat]
TaskRow(stages) == [at : stages, id : Nat, from : Nat, captured : Drafts, tag : Nat]
Labels == {"idle", "saving", "saved", "error", "conflict"}
PageRow ==
    [draft : Drafts, saved : Drafts, rev : Nat, label : Labels, conflict : BOOLEAN,
     barrier : BOOLEAN, busy : BOOLEAN, latest : Nat, timer : Nat, queue : Seq(Saves),
     tries : Nat, expected : Nat, publish : TaskRow({"none", "saving", "asking", "publishing"}),
     apply : TaskRow({"none", "waiting", "sent", "applied", "retryable"}),
     reloading : BOOLEAN, offer : Copies]

\* Receipts name revisions; what is published is the draft of its revision, as it was meant.
HistoryStands(h, g, n) ==
    /\ h \in Seq(Drafts) /\ Len(h) >= 1
    /\ \A i \in DOMAIN g : i \in 1..n /\ g[i] \in 1..Len(h)
VersionsStand(h, v) ==
    \A x \in v : x.revision \in 1..Len(h) /\ x.content = h[x.revision] /\ x.meant = x.content

\* The saves that wait have mutations of their own, and none but the first has been sent: if
\* that one has been carried out, its receipt names its draft.
QueueStands(h, g, n, p) ==
    /\ p.apply.id \in 0..n /\ (p.apply.at # "none" => p.apply.id # 0)
    /\ \A k \in 1..Len(p.queue) : p.queue[k].id \in 1..n /\ p.queue[k].id # p.apply.id
    /\ \A j, k \in 1..Len(p.queue) : p.queue[j].id = p.queue[k].id => j = k
    /\ \A k \in 2..Len(p.queue) : p.queue[k].id \notin DOMAIN g
    /\ p.queue # << >> =>
          (p.queue[1].id \in DOMAIN g => h[g[p.queue[1].id]] = p.queue[1].draft)

\* The page knows the draft of the revision it names, and so does its publication.
Asks(p) == p.publish.at \in {"asking", "publishing"}
BaseStands(h, p) ==
    /\ p.rev \in 1..Len(h) /\ p.saved = h[p.rev]
    /\ Asks(p) => p.publish.from \in 1..Len(h) /\ p.publish.captured = h[p.publish.from]

\* A page that was left is as one that has not been opened.
Sound(h, g, n, here, p) ==
    /\ p \in PageRow /\ QueueStands(h, g, n, p)
    /\ IF here THEN BaseStands(h, p) ELSE p = Opened({}, 0, NoCopy)

\* The saves and the publication are in the order of the edits they are for ...
TagsStand(p) ==
    /\ \A k \in 1..Len(p.queue) : p.queue[k].tag <= p.latest
    /\ \A j, k \in 1..Len(p.queue) : j < k => p.queue[j].tag < p.queue[k].tag
    /\ Asks(p) => /\ p.publish.tag <= p.latest
                  /\ \A k \in 1..Len(p.queue) : p.publish.tag < p.queue[k].tag
\* ... and a timer is that of the newest edit.
TimerStands(p) ==
    p.timer # 0 =>
        /\ p.label = "saving" /\ ~p.conflict /\ ~p.barrier
        /\ \A k \in 1..Len(p.queue) : p.queue[k].tag < p.latest
        /\ Asks(p) => p.publish.tag < p.latest

\* The newest save is of the draft on the screen, and so is a publication newer than any edit.
NewestStands(p) ==
    /\ ~p.conflict => \A k \in 1..Len(p.queue) :
          p.queue[k].tag = p.latest => p.queue[k].draft = p.draft
    /\ Asks(p) /\ p.publish.tag = p.latest =>
          ~p.conflict /\ ~p.busy /\ p.label # "saved" /\ ~Dirty(p)

\* What is under way excludes what would disturb it.
HeldStands(p) ==
    /\ p.queue # << >> => p.expected = p.rev
    /\ p.busy => p.queue = << >> /\ ~p.reloading /\ p.barrier /\ p.apply.from = p.rev
    /\ p.busy <=> p.apply.at \in {"sent", "applied"}
    /\ p.apply.at # "waiting"
    /\ p.apply.at = "retryable" => p.conflict
    /\ p.reloading => p.conflict
BarrierStands(p) == p.barrier => p.busy \/ p.conflict

\* What the page says.
LabelStands(p) ==
    /\ p.label = "saved" => ~Dirty(p) /\ p.queue = << >> /\ ~p.conflict /\ ~p.busy
    /\ p.label = "saving" =>
          \/ p.timer # 0 \/ p.busy \/ p.reloading
          \/ \E k \in 1..Len(p.queue) : p.queue[k].tag = p.latest
          \/ Asks(p) /\ p.publish.tag = p.latest

PageIsCalm(p) ==
    /\ TagsStand(p) /\ TimerStands(p) /\ NewestStands(p) /\ HeldStands(p) /\ BarrierStands(p)
    /\ LabelStands(p)

\* What the page fears has happened, but for losses.
FearsStand(h, g, lost, p) ==
    /\ p.conflict => /\ p.queue # << >> => p.rev < Len(h) /\ p.queue[1].id \notin DOMAIN g
                     /\ lost = 0 => p.rev < Len(h)
    /\ p.apply.at # "none" =>
          (p.apply.id \in DOMAIN g => (lost = 0 => p.rev < g[p.apply.id]))
    /\ p.apply.at = "applied" => p.apply.id \in DOMAIN g /\ p.apply.tag = g[p.apply.id]

\* The draft shown is in the history, or in the browser's copy.
WorkStands(h, c, p) == p.draft \in {h[r] : r \in 1..Len(h)} \/ c = Copy(p.draft)

Calmly(h, g, lost, c, p) ==
    PageIsCalm(p) /\ FearsStand(h, g, lost, p) /\ WorkStands(h, c, p)

\* The inductive invariant.
EditorIInv ==
    /\ open \in BOOLEAN /\ hasty \in BOOLEAN /\ ids \in Nat /\ losses \in Nat
    /\ recovery \in Copies /\ HistoryStands(history, receipts, ids)
    /\ VersionsStand(history, published) /\ Sound(history, receipts, ids, open, page)
    /\ open /\ ~hasty => Calmly(history, receipts, losses, recovery, page)

-------------------------------------------------------------------------------
(* The page's helpers, by the fields they change.                             *)

\* What is no part of a rendering stays.
RenderedAs(p, q) ==
    /\ q.draft = p.draft /\ q.saved = p.saved /\ q.rev = p.rev /\ q.busy = p.busy
    /\ q.queue = p.queue /\ q.expected = p.expected /\ q.publish = p.publish
    /\ q.apply = p.apply /\ q.reloading = p.reloading
    /\ ~Dirty(p) => /\ q.timer = 0 /\ q.barrier = (p.barrier /\ (p.busy \/ p.conflict))
                    /\ q.conflict = p.conflict /\ q.label = p.label /\ q.latest = p.latest
    /\ Dirty(p) /\ (p.busy \/ p.conflict) /\ (p.barrier \/ p.conflict) =>
          /\ q.timer = 0 /\ q.barrier = p.barrier /\ q.conflict = p.conflict
          /\ q.label = p.label /\ q.latest = p.latest
    /\ Dirty(p) /\ ~p.barrier /\ ~p.conflict =>
          /\ q.timer = p.latest + 1 /\ q.latest = p.latest + 1 /\ q.label = "saving"
          /\ q.barrier = p.barrier /\ q.conflict = p.conflict

\* The types of a page's parts.
LEMMA PageIsTyped ==
  ASSUME NEW p \in PageRow
  PROVE  /\ p.draft \in Drafts /\ p.saved \in Drafts /\ p.rev \in Nat /\ p.label \in Labels
         /\ p.conflict \in BOOLEAN /\ p.barrier \in BOOLEAN /\ p.busy \in BOOLEAN
         /\ p.latest \in Nat /\ p.timer \in Nat /\ p.queue \in Seq(Saves) /\ p.tries \in Nat
         /\ p.expected \in Nat /\ p.reloading \in BOOLEAN /\ p.offer \in Copies
         /\ p.publish.at \in {"none", "saving", "asking", "publishing"}
         /\ p.publish.from \in Nat /\ p.publish.tag \in Nat /\ p.publish.captured \in Drafts
         /\ p.apply.at \in {"none", "waiting", "sent", "applied", "retryable"}
         /\ p.apply.id \in Nat /\ p.apply.from \in Nat /\ p.apply.captured \in Drafts
         /\ p.apply.tag \in Nat
         /\ Len(p.queue) \in Nat
         /\ \A k \in 1..Len(p.queue) :
               /\ p.queue[k] \in Saves /\ p.queue[k].id \in Nat /\ p.queue[k].tag \in Nat
               /\ p.queue[k].draft \in Drafts /\ p.queue[k].kind \in {"autosave", "publish"}
<1>1. /\ p.publish \in TaskRow({"none", "saving", "asking", "publishing"})
      /\ p.apply \in TaskRow({"none", "waiting", "sent", "applied", "retryable"})
      /\ p.queue \in Seq(Saves)
  BY DEF PageRow
<1>2. Len(p.queue) \in Nat /\ \A k \in 1..Len(p.queue) : p.queue[k] \in Saves
  BY <1>1
<1>3. \A k \in 1..Len(p.queue) :
        /\ p.queue[k].id \in Nat /\ p.queue[k].tag \in Nat
        /\ p.queue[k].draft \in Drafts /\ p.queue[k].kind \in {"autosave", "publish"}
  BY <1>2 DEF Saves
<1>4. /\ p.publish.at \in {"none", "saving", "asking", "publishing"}
      /\ p.publish.from \in Nat /\ p.publish.tag \in Nat /\ p.publish.captured \in Drafts
      /\ p.apply.at \in {"none", "waiting", "sent", "applied", "retryable"}
      /\ p.apply.id \in Nat /\ p.apply.from \in Nat /\ p.apply.captured \in Drafts
      /\ p.apply.tag \in Nat
  BY <1>1 DEF TaskRow
<1> QED
  BY <1>1, <1>2, <1>3, <1>4 DEF PageRow

\* A rendering changes no more than that.
LEMMA Renders ==
  ASSUME NEW p \in PageRow
  PROVE  Rendered(p) \in PageRow /\ RenderedAs(p, Rendered(p))
<1>1. CASE ~Dirty(p)
  BY <1>1 DEF Rendered, RenderedAs, PageRow, Dirty
<1>2. CASE Dirty(p) /\ p.barrier /\ (p.busy \/ p.conflict)
  BY <1>2 DEF Rendered, RenderedAs, PageRow, Dirty
<1>3. CASE Dirty(p) /\ p.barrier /\ ~(p.busy \/ p.conflict)
  BY <1>3 DEF Rendered, RenderedAs, PageRow, Dirty, Labels
<1>4. CASE Dirty(p) /\ ~p.barrier /\ p.conflict
  BY <1>4 DEF Rendered, RenderedAs, PageRow, Dirty
<1>5. CASE Dirty(p) /\ ~p.barrier /\ ~p.conflict
  <2>1. PICK q : q = [p EXCEPT !.timer = p.latest + 1, !.latest = @ + 1, !.label = "saving"]
    OBVIOUS
  <2>2. Rendered(p) = q
    BY <2>1, <1>5 DEF Rendered
  <2>3. p.latest + 1 \in Nat
    BY PageIsTyped
  <2>4. q \in PageRow
    BY <2>1, <2>3 DEF PageRow, Labels
  <2>5. q.timer = p.latest + 1 /\ q.latest = p.latest + 1 /\ q.label = "saving"
    BY <2>1 DEF PageRow
  <2>6. /\ q.draft = p.draft /\ q.saved = p.saved /\ q.rev = p.rev /\ q.busy = p.busy
        /\ q.queue = p.queue /\ q.expected = p.expected /\ q.publish = p.publish
        /\ q.apply = p.apply /\ q.reloading = p.reloading /\ q.barrier = p.barrier
        /\ q.conflict = p.conflict
    BY <2>1 DEF PageRow
  <2> QED
    BY <1>5, <2>2, <2>4, <2>5, <2>6 DEF RenderedAs
<1> QED
  BY <1>1, <1>2, <1>3, <1>4, <1>5

\* A page that is about to be rendered.
Ready(p) ==
    /\ TagsStand(p) /\ HeldStands(p) /\ BarrierStands(p)
    /\ ~Dirty(p) \/ p.barrier \/ p.conflict => NewestStands(p)
    /\ p.label = "saved" => p.queue = << >> /\ ~p.conflict /\ ~p.busy
    /\ p.label = "saving" /\ (~Dirty(p) \/ p.barrier \/ p.conflict) =>
          \/ p.busy \/ p.reloading
          \/ \E k \in 1..Len(p.queue) : p.queue[k].tag = p.latest
          \/ Asks(p) /\ p.publish.tag = p.latest

\* Rendered, it is calm.
LEMMA RendersCalmly ==
  ASSUME NEW p \in PageRow, Ready(p)
  PROVE  PageIsCalm(Rendered(p))
<1>1. PICK q : q = Rendered(p)
  OBVIOUS
<1>2. q \in PageRow /\ RenderedAs(p, q)
  BY <1>1, Renders
<1>3. Asks(q) <=> Asks(p)
  BY <1>2 DEF Asks, RenderedAs
<1>4. Dirty(q) <=> Dirty(p)
  BY <1>2 DEF Dirty, RenderedAs
<1>5. /\ p.latest \in Nat /\ p.publish.tag \in Nat /\ Len(p.queue) \in Nat
      /\ \A k \in 1..Len(p.queue) : p.queue[k].tag \in Nat
  BY PageIsTyped
<1>6. CASE ~Dirty(p) \/ p.barrier \/ p.conflict
  <2>1. /\ q.timer = 0 /\ q.latest = p.latest /\ q.label = p.label /\ q.conflict = p.conflict
        /\ q.queue = p.queue /\ q.publish = p.publish
        /\ q.barrier => p.barrier
        /\ p.barrier /\ (p.busy \/ p.conflict) => q.barrier
    BY <1>2, <1>6 DEF RenderedAs, Ready, BarrierStands
  <2>2. TagsStand(q) /\ TimerStands(q)
    BY <2>1, <1>3 DEF Ready, TagsStand, TimerStands
  <2>3. NewestStands(q)
    BY <2>1, <1>2, <1>3, <1>4, <1>6 DEF Ready, RenderedAs, NewestStands
  <2>4. HeldStands(q) /\ BarrierStands(q)
    BY <2>1, <1>2 DEF Ready, RenderedAs, HeldStands, BarrierStands
  <2>5. LabelStands(q)
    BY <2>1, <1>2, <1>3, <1>4, <1>6, <1>5
       DEF Ready, RenderedAs, LabelStands, BarrierStands
  <2> QED
    BY <1>1, <2>2, <2>3, <2>4, <2>5 DEF PageIsCalm
<1>7. CASE Dirty(p) /\ ~p.barrier /\ ~p.conflict
  <2>1. /\ q.timer = p.latest + 1 /\ q.latest = p.latest + 1 /\ q.label = "saving"
        /\ q.barrier = p.barrier /\ q.conflict = p.conflict /\ q.queue = p.queue
        /\ q.publish = p.publish
    BY <1>2, <1>7 DEF RenderedAs
  <2>2. TagsStand(q) /\ TimerStands(q)
    <3>1. TagsStand(q)
      BY <2>1, <1>3, <1>5, SMTT(30) DEF Ready, TagsStand
    <3>2. TimerStands(q)
      BY <2>1, <1>3, <1>5, <1>7, SMTT(30) DEF Ready, TagsStand, TimerStands
    <3> QED
      BY <3>1, <3>2
  <2>3. NewestStands(q)
    BY <2>1, <1>3, <1>5 DEF Ready, NewestStands, TagsStand
  <2>4. HeldStands(q) /\ BarrierStands(q) /\ LabelStands(q)
    BY <2>1, <1>2, <1>5, <1>7
       DEF RenderedAs, Ready, HeldStands, BarrierStands, LabelStands
  <2> QED
    BY <1>1, <2>2, <2>3, <2>4 DEF PageIsCalm
<1> QED
  BY <1>1, <1>6, <1>7

\* Queueing a save, and what an authoritative mutation leaves.
LEMMA Queues ==
  ASSUME NEW p \in PageRow, ids \in Nat, NEW kind \in {"autosave", "publish"}
  PROVE  LET q == Queued(p, kind)
             s == [id |-> ids + 1, draft |-> p.draft, kind |-> kind, tag |-> p.latest]
         IN  /\ q \in PageRow /\ s \in Saves /\ q.queue = Append(p.queue, s)
             /\ q.expected = IF p.queue = << >> THEN p.rev ELSE p.expected
             /\ q.draft = p.draft /\ q.saved = p.saved /\ q.rev = p.rev /\ q.busy = p.busy
             /\ q.publish = p.publish /\ q.apply = p.apply /\ q.reloading = p.reloading
             /\ q.timer = p.timer /\ q.barrier = p.barrier /\ q.conflict = p.conflict
             /\ q.label = p.label /\ q.latest = p.latest
<1> DEFINE s == [id |-> ids + 1, draft |-> p.draft, kind |-> kind, tag |-> p.latest]
<1>1. s \in Saves
  BY DEF Saves, PageRow
<1>2. Append(p.queue, s) \in Seq(Saves)
  BY <1>1, AppendProperties DEF PageRow
<1> HIDE DEF s
<1> QED
  BY <1>1, <1>2 DEF Queued, PageRow, s

\* The next one's turn comes.
LEMMA Turns ==
  ASSUME NEW p \in PageRow, p.queue # << >>
  PROVE  LET q == NextInTurn(p)
         IN  /\ q \in PageRow /\ q.queue = Tail(p.queue) /\ q.expected = p.rev
             /\ q.draft = p.draft /\ q.saved = p.saved /\ q.rev = p.rev /\ q.busy = p.busy
             /\ q.publish = p.publish /\ q.apply = p.apply /\ q.reloading = p.reloading
             /\ q.timer = p.timer /\ q.barrier = p.barrier /\ q.conflict = p.conflict
             /\ q.label = p.label /\ q.latest = p.latest
<1>1. Tail(p.queue) \in Seq(Saves)
  BY HeadTailProperties DEF PageRow
<1> QED
  BY <1>1 DEF NextInTurn, PageRow

-------------------------------------------------------------------------------
(* What the server adds, and what it leaves.                                  *)

\* Drafts and receipts are only added.
Grown(h, g, n, h2, g2, n2) ==
    /\ HistoryStands(h2, g2, n2) /\ n2 \in Nat /\ n <= n2
    /\ Len(h) <= Len(h2) /\ \A r \in 1..Len(h) : h2[r] = h[r]
    /\ \A i \in DOMAIN g : i \in DOMAIN g2 /\ g2[i] = g[i]

\* No save that waits has been carried out, but for the first one as its receipt says.
QueueAgrees(h, g, p) ==
    /\ \A k \in 2..Len(p.queue) : p.queue[k].id \notin DOMAIN g
    /\ p.queue # << >> =>
          (p.queue[1].id \in DOMAIN g => h[g[p.queue[1].id]] = p.queue[1].draft)

\* Nothing is unmade by that, but the saves that wait must not have been carried out ...
LEMMA SoundLater ==
  ASSUME NEW h, NEW g, NEW n \in Nat, NEW h2, NEW g2, NEW n2, NEW here \in BOOLEAN, NEW p,
         HistoryStands(h, g, n), Sound(h, g, n, here, p), Grown(h, g, n, h2, g2, n2),
         QueueAgrees(h2, g2, p)
  PROVE  Sound(h2, g2, n2, here, p)
<1>1. p \in PageRow /\ QueueStands(h, g, n, p)
  BY DEF Sound
<1>2. Len(h) \in Nat /\ Len(h2) \in Nat
  BY DEF HistoryStands, Grown
<1>3. QueueStands(h2, g2, n2, p)
  <2>1. p.apply.id \in 0..n2 /\ (p.apply.at # "none" => p.apply.id # 0)
    BY <1>1 DEF QueueStands, Grown
  <2>2. \A k \in 1..Len(p.queue) : p.queue[k].id \in 1..n2 /\ p.queue[k].id # p.apply.id
    BY <1>1 DEF QueueStands, Grown
  <2> QED
    BY <1>1, <2>1, <2>2 DEF QueueStands, QueueAgrees
<1>4. ASSUME here PROVE BaseStands(h2, p)
  <2>1. BaseStands(h, p)
    BY <1>4 DEF Sound
  <2>2. p.rev \in 1..Len(h2) /\ p.saved = h2[p.rev]
    BY <1>2, <2>1 DEF BaseStands, Grown
  <2>3. ASSUME Asks(p)
        PROVE  p.publish.from \in 1..Len(h2) /\ p.publish.captured = h2[p.publish.from]
    BY <1>2, <2>1, <2>3 DEF BaseStands, Grown
  <2> QED
    BY <2>2, <2>3 DEF BaseStands
<1> QED
  BY <1>1, <1>3, <1>4 DEF Sound

\* ... and what has been published stays.
LEMMA VersionsLater ==
  ASSUME NEW h, NEW g, NEW n \in Nat, NEW h2, NEW g2, NEW n2, NEW v,
         HistoryStands(h, g, n), VersionsStand(h, v), Grown(h, g, n, h2, g2, n2)
  PROVE  VersionsStand(h2, v)
<1>1. Len(h) \in Nat /\ Len(h2) \in Nat
  BY DEF HistoryStands, Grown
<1> QED
  BY <1>1 DEF VersionsStand, Grown

\* A draft is saved, recognised, or refused.
LEMMA Updates ==
  ASSUME ids \in Nat, HistoryStands(history, receipts, ids), NEW id \in 1..ids,
         NEW d \in Drafts, NEW e, UpdateQuizDraft(id, e, d)
  PROVE  /\ Grown(history, receipts, ids, history', receipts', ids)
         /\ DOMAIN receipts' \subseteq DOMAIN receipts \cup {id}
         /\ Stale(id, e) => history' = history /\ receipts' = receipts
         /\ ~Stale(id, e) =>
               /\ id \in DOMAIN receipts' /\ receipts'[id] = Resulting(id, d)
               /\ ~Replayed(id) => history'[Resulting(id, d)] = d /\ e = Len(history)
               /\ Replayed(id) => history' = history /\ receipts' = receipts
         /\ \/ Resulting(id, d) \in 1..Len(history') \/ Stale(id, e)
<1>1. history \in Seq(Drafts) /\ Len(history) \in Nat /\ Len(history) >= 1
  BY DEF HistoryStands
<1>2. CASE Stale(id, e) \/ Replayed(id)
  <2>1. history' = history /\ receipts' = receipts
    BY <1>2 DEF UpdateQuizDraft
  <2>2. Grown(history, receipts, ids, history', receipts', ids)
    BY <1>1, <2>1 DEF Grown
  <2>3. Replayed(id) => id \in DOMAIN receipts /\ receipts[id] = Resulting(id, d)
                           /\ receipts[id] \in 1..Len(history)
    BY DEF Replayed, Resulting, HistoryStands
  <2> QED
    BY <1>2, <2>1, <2>2, <2>3
<1>3. CASE ~Stale(id, e) /\ ~Replayed(id)
  <2>1. PICK r : r = Resulting(id, d)
    OBVIOUS
  <2>2. /\ receipts' = [i \in DOMAIN receipts \cup {id} |-> Resulting(i, d)]
        /\ history' = IF d = history[Len(history)] THEN history ELSE Append(history, d)
        /\ e = Len(history) /\ id \notin DOMAIN receipts
    BY <1>3 DEF UpdateQuizDraft, Stale, Replayed, Current
  <2>3. /\ DOMAIN receipts' = DOMAIN receipts \cup {id} /\ receipts'[id] = r
        /\ \A i \in DOMAIN receipts : receipts'[i] = receipts[i]
    BY <2>1, <2>2 DEF Resulting, Replayed
  <2>4. /\ history' \in Seq(Drafts) /\ r \in 1..Len(history') /\ history'[r] = d
        /\ Len(history) <= Len(history')
        /\ \A k \in 1..Len(history) : history'[k] = history[k]
    <3>1. CASE d = history[Len(history)]
      BY <1>1, <2>1, <2>2, <3>1 DEF Resulting, Replayed, Current
    <3>2. CASE d # history[Len(history)]
      <4>1. history' = Append(history, d) /\ r = Len(history) + 1
        BY <2>1, <2>2, <3>2 DEF Resulting, Replayed, Current
      <4> QED
        BY <1>1, <4>1, AppendProperties
    <3> QED
      BY <3>1, <3>2
  <2>5. HistoryStands(history', receipts', ids)
    <3>1. Len(history') \in Nat
      BY <2>4
    <3>2. \A i \in DOMAIN receipts : i \in 1..ids /\ receipts[i] \in 1..Len(history)
      BY DEF HistoryStands
    <3>3. \A i \in DOMAIN receipts' : i \in 1..ids /\ receipts'[i] \in 1..Len(history')
      BY <1>1, <2>3, <2>4, <3>1, <3>2
    <3> QED
      BY <1>1, <2>4, <3>1, <3>3 DEF HistoryStands
  <2>6. Grown(history, receipts, ids, history', receipts', ids)
    BY <2>3, <2>4, <2>5 DEF Grown
  <2> QED
    BY <1>3, <2>1, <2>2, <2>3, <2>4, <2>6
<1> QED
  BY <1>2, <1>3

-------------------------------------------------------------------------------
(* Steps of the page alone.                                                   *)

\* A page that keeps its queue and its base is as sound as before.
KeepsBase(p, q) ==
    /\ q \in PageRow /\ q.queue = p.queue
    /\ \/ q.apply = p.apply \/ q.apply = NoTask
       \/ q.apply.id = p.apply.id /\ p.apply.at # "none"
    /\ q.rev = p.rev /\ q.saved = p.saved
    /\ Asks(q) => /\ Asks(p) /\ q.publish.from = p.publish.from
                  /\ q.publish.captured = p.publish.captured

\* Its soundness rests on nothing else.
LEMMA SoundStill ==
  ASSUME NEW h, NEW g, NEW n \in Nat, NEW p, NEW q, Sound(h, g, n, TRUE, p), KeepsBase(p, q)
  PROVE  Sound(h, g, n, TRUE, q)
<1>1. p \in PageRow /\ QueueStands(h, g, n, p) /\ BaseStands(h, p)
  BY DEF Sound
<1>2. QueueStands(h, g, n, q)
  <2>1. /\ q.apply.id \in 0..n /\ (q.apply.at # "none" => q.apply.id # 0)
        /\ \A k \in 1..Len(p.queue) : p.queue[k].id # q.apply.id
    BY <1>1 DEF QueueStands, KeepsBase, NoTask
  <2> QED
    BY <1>1, <2>1 DEF QueueStands, KeepsBase
<1>3. BaseStands(h, q)
  BY <1>1 DEF BaseStands, KeepsBase
<1> QED
  BY <1>2, <1>3 DEF Sound, KeepsBase

\* The page is still open.
LEMMA Moves ==
  ASSUME open \in BOOLEAN, open, open' = open, ids' \in Nat, NEW h, NEW g,
         history' = h, receipts' = g, HistoryStands(h, g, ids'), VersionsStand(h, published'),
         hasty' \in BOOLEAN, losses' \in Nat, recovery' \in Copies,
         Sound(h, g, ids', TRUE, page'), ~hasty' => Calmly(h, g, losses', recovery', page')
  PROVE  EditorIInv'
BY DEF EditorIInv

\* A step that leaves the server as it is, but for publications and identifiers.
LEMMA PageMoves ==
  ASSUME open \in BOOLEAN, UNCHANGED << history, receipts, open >>, open, ids' \in Nat,
         HistoryStands(history, receipts, ids'), VersionsStand(history, published'),
         hasty' \in BOOLEAN, losses' \in Nat, recovery' \in Copies,
         Sound(history, receipts, ids', TRUE, page'),
         ~hasty' => Calmly(history, receipts, losses', recovery', page')
  PROVE  EditorIInv'
BY DEF EditorIInv
\* A page is shown anew.
LEMMA ShowsThen ==
  ASSUME open \in BOOLEAN, open, open' = open, ids' \in Nat, NEW h, NEW g,
         history' = h, receipts' = g, HistoryStands(h, g, ids'), VersionsStand(h, published'),
         hasty' \in BOOLEAN, losses' \in Nat, recovery' \in Copies,
         NEW p, Sound(h, g, ids', TRUE, p), page' = Rendered(p),
         ~hasty' => Ready(p) /\ FearsStand(h, g, losses', p) /\ WorkStands(h, recovery', p)
  PROVE  EditorIInv'
<1>1. p \in PageRow
  BY DEF Sound
<1>2. PICK q : q = Rendered(p)
  OBVIOUS
<1>3. q \in PageRow /\ RenderedAs(p, q)
  BY <1>1, <1>2, Renders
<1>4. KeepsBase(p, q)
  BY <1>3 DEF KeepsBase, RenderedAs, Asks
<1>5. Sound(h, g, ids', TRUE, q)
  BY <1>4, SoundStill
<1>6. ASSUME ~hasty' PROVE Calmly(h, g, losses', recovery', q)
  <2>1. PageIsCalm(q)
    BY <1>1, <1>2, <1>6, RendersCalmly
  <2>2. p.barrier => p.busy \/ p.conflict
    BY <1>6 DEF Ready, BarrierStands
  <2>3. /\ q.conflict = p.conflict /\ q.queue = p.queue /\ q.rev = p.rev /\ q.apply = p.apply
        /\ q.draft = p.draft
    BY <1>3, <2>2 DEF RenderedAs
  <2>4. FearsStand(h, g, losses', q) /\ WorkStands(h, recovery', q)
    BY <1>6, <2>3 DEF FearsStand, WorkStands
  <2> QED
    BY <2>1, <2>4 DEF Calmly
<1> QED
  BY <1>2, <1>5, <1>6, Moves

\* The same, when the server's data stay as they are.
LEMMA IsShown ==
  ASSUME EditorIInv, open, UNCHANGED << history, receipts, published, ids, open >>,
         hasty' \in BOOLEAN, losses' \in Nat, recovery' \in Copies,
         NEW p, Sound(history, receipts, ids, TRUE, p), page' = Rendered(p),
         ~hasty' => /\ Ready(p) /\ FearsStand(history, receipts, losses', p)
                    /\ WorkStands(history, recovery', p)
  PROVE  EditorIInv'
<1>1. /\ VersionsStand(history, published) /\ open \in BOOLEAN /\ ids \in Nat
      /\ HistoryStands(history, receipts, ids)
  BY DEF EditorIInv
<1> QED
  BY <1>1, ShowsThen

\* What is displayed has a copy, or is the saved draft.
LEMMA HasCopy ==
  ASSUME EditorIInv, NEW p, Sound(history, receipts, ids, TRUE, p), Displays(p)
  PROVE  recovery' \in Copies /\ WorkStands(history, recovery', p)
<1>1. p.draft \in Drafts /\ p.rev \in 1..Len(history) /\ p.saved = history[p.rev]
  BY PageIsTyped DEF Sound, BaseStands
<1>2. CASE Dirty(p)
  <2>1. recovery' = [there |-> TRUE, draft |-> p.draft]
    BY <1>2 DEF Displays, Kept, Copy
  <2> QED
    BY <1>1, <2>1 DEF Copies, WorkStands, Copy
<1>3. CASE ~Dirty(p)
  <2>1. recovery' = recovery /\ recovery \in Copies
    BY <1>3 DEF Displays, Kept, EditorIInv
  <2>2. p.draft = history[p.rev]
    BY <1>1, <1>3 DEF Dirty
  <2> QED
    BY <1>1, <2>1, <2>2 DEF WorkStands
<1> QED
  BY <1>2, <1>3

\* An edit or a restored copy changes the draft on the screen.
LEMMA Retypes ==
  ASSUME EditorIInv, open, UNCHANGED << history, receipts, published, ids, open, losses >>,
         NEW p \in PageRow, Displays(p), Hastily(p), p.label \in {page.label, "idle"},
         p.saved = page.saved /\ p.rev = page.rev /\ p.busy = page.busy,
         p.queue = page.queue /\ p.expected = page.expected /\ p.publish = page.publish,
         p.apply = page.apply /\ p.reloading = page.reloading /\ p.barrier = page.barrier,
         p.conflict = page.conflict /\ p.latest = page.latest
  PROVE  EditorIInv'
<1>1. Sound(history, receipts, ids, TRUE, page) /\ ids \in Nat /\ losses \in Nat
  BY DEF EditorIInv
<1>2. KeepsBase(page, p)
  BY DEF KeepsBase, Asks
<1>3. Sound(history, receipts, ids, TRUE, p)
  BY <1>1, <1>2, SoundStill
<1>4. recovery' \in Copies /\ WorkStands(history, recovery', p)
  BY <1>3, HasCopy
<1>5. /\ hasty' \in BOOLEAN
      /\ ~hasty' => ~hasty /\ (Dirty(p) \/ (page.timer = 0 /\ page.queue = << >>))
  BY DEF Hastily, EditorIInv
<1>6. ASSUME ~hasty' PROVE Ready(p) /\ FearsStand(history, receipts, losses', p)
  <2>1. PageIsCalm(page) /\ FearsStand(history, receipts, losses, page)
    BY <1>5, <1>6 DEF EditorIInv, Calmly
  <2>2. Asks(p) <=> Asks(page)
    BY DEF Asks
  <2>3. TagsStand(p) /\ HeldStands(p) /\ BarrierStands(p)
    BY <2>1, <2>2 DEF PageIsCalm, TagsStand, HeldStands, BarrierStands
  <2>4. p.barrier \/ p.conflict => ~(Asks(p) /\ p.publish.tag = p.latest)
    BY <2>1, <2>2 DEF PageIsCalm, NewestStands, BarrierStands
  <2>5. ~Dirty(p) \/ p.barrier \/ p.conflict => NewestStands(p)
    <3>1. ASSUME ~Dirty(p) \/ p.barrier \/ p.conflict, ~p.conflict PROVE p.queue = << >>
      BY <1>5, <1>6, <2>1, <3>1 DEF PageIsCalm, BarrierStands, HeldStands
    <3>2. ASSUME ~Dirty(p), Asks(p), p.publish.tag = p.latest
          PROVE  ~p.conflict /\ ~p.busy /\ p.label # "saved" /\ ~Dirty(p)
      BY <2>1, <2>2, <3>2 DEF PageIsCalm, NewestStands
    <3> QED
      BY <2>4, <3>1, <3>2 DEF NewestStands
  <2>6. p.label = "saved" => p.queue = << >> /\ ~p.conflict /\ ~p.busy
    BY <2>1 DEF PageIsCalm, LabelStands
  <2>7. ASSUME p.label = "saving", ~Dirty(p) \/ p.barrier \/ p.conflict
        PROVE  \/ p.busy \/ p.reloading
               \/ \E k \in 1..Len(p.queue) : p.queue[k].tag = p.latest
               \/ Asks(p) /\ p.publish.tag = p.latest
    <3>1. page.timer = 0
      BY <1>5, <1>6, <2>1, <2>7 DEF PageIsCalm, TimerStands
    <3> QED
      BY <2>1, <2>2, <2>7, <3>1 DEF PageIsCalm, LabelStands
  <2>8. FearsStand(history, receipts, losses', p)
    BY <2>1 DEF FearsStand
  <2> QED
    BY <2>3, <2>5, <2>6, <2>7, <2>8 DEF Ready
<1> QED
  BY <1>1, <1>3, <1>4, <1>5, <1>6, IsShown DEF Displays

\* An edit or an undo.
LEMMA Edits == ASSUME EditorIInv, Edit PROVE EditorIInv'
<1>1. page \in PageRow
  BY DEF EditorIInv, Sound
<1>2. PICK c \in Parts :
         LET p == [page EXCEPT !.draft = (@ \ {c}) \cup ({c} \ @)]
         IN  Displays(p) /\ Hastily(p)
  BY DEF Edit
<1>3. PICK p : p = [page EXCEPT !.draft = (@ \ {c}) \cup ({c} \ @)]
  OBVIOUS
<1>4. Displays(p) /\ Hastily(p)
  BY <1>2, <1>3
<1>5. (page.draft \ {c}) \cup ({c} \ page.draft) \in Drafts
  BY <1>1, PageIsTyped DEF Drafts
<1>6. p \in PageRow
  BY <1>1, <1>3, <1>5 DEF PageRow
<1>7. /\ p.label = page.label /\ p.saved = page.saved /\ p.rev = page.rev /\ p.busy = page.busy
      /\ p.queue = page.queue /\ p.expected = page.expected /\ p.publish = page.publish
      /\ p.apply = page.apply /\ p.reloading = page.reloading /\ p.barrier = page.barrier
      /\ p.conflict = page.conflict /\ p.latest = page.latest
  BY <1>1, <1>3 DEF PageRow
<1>8. open /\ UNCHANGED << history, receipts, published, ids, open, losses >>
  BY DEF Edit, draftVars
<1> QED
  BY <1>4, <1>6, <1>7, <1>8, Retypes

\* The offered copy is taken.
LEMMA Restores == ASSUME EditorIInv, RestoreRecoverySnapshot PROVE EditorIInv'
<1>1. page \in PageRow
  BY DEF EditorIInv, Sound, RestoreRecoverySnapshot
<1>2. PICK p : p = [page EXCEPT !.draft = page.offer.draft, !.offer = NoCopy, !.label = "idle"]
  OBVIOUS
<1>3. Displays(p) /\ Hastily(p)
  BY <1>2 DEF RestoreRecoverySnapshot
<1>4. page.offer.draft \in Drafts /\ NoCopy \in Copies
  BY <1>1, PageIsTyped DEF Copies, NoCopy, Drafts
<1>5. p \in PageRow
  BY <1>1, <1>2, <1>4 DEF PageRow, Labels
<1>6. /\ p.label = "idle" /\ p.saved = page.saved /\ p.rev = page.rev /\ p.busy = page.busy
      /\ p.queue = page.queue /\ p.expected = page.expected /\ p.publish = page.publish
      /\ p.apply = page.apply /\ p.reloading = page.reloading /\ p.barrier = page.barrier
      /\ p.conflict = page.conflict /\ p.latest = page.latest
  BY <1>1, <1>2 DEF PageRow
<1>7. open /\ UNCHANGED << history, receipts, published, ids, open, losses >>
  BY DEF RestoreRecoverySnapshot, draftVars, countVars
<1> QED
  BY <1>3, <1>5, <1>6, <1>7, Retypes

-------------------------------------------------------------------------------
(* Saves are queued, a publication goes on, and a reload begins or fails.     *)

\* A save is queued with an identifier of its own.
LEMMA SoundQueued ==
  ASSUME NEW h, NEW g, NEW n \in Nat, HistoryStands(h, g, n), NEW p, NEW q,
         Sound(h, g, n, TRUE, p), q \in PageRow, NEW s \in Saves, s.id = n + 1,
         q.queue = Append(p.queue, s), q.apply = p.apply, q.rev = p.rev, q.saved = p.saved,
         Asks(q) => q.publish = p.publish
  PROVE  Sound(h, g, n + 1, TRUE, q)
<1>1. p \in PageRow /\ QueueStands(h, g, n, p) /\ BaseStands(h, p)
  BY DEF Sound
<1>2. PICK l \in Nat : l = Len(p.queue)
  BY <1>1, PageIsTyped
<1>3. /\ Len(q.queue) = l + 1 /\ q.queue[l + 1] = s
      /\ \A k \in 1..l : q.queue[k] = p.queue[k]
  BY <1>1, <1>2, AppendProperties, PageIsTyped
<1>4. n + 1 \notin DOMAIN g
  BY DEF HistoryStands
<1>5. QueueStands(h, g, n + 1, q)
  <2>1. q.apply.id \in 0..n /\ (q.apply.at # "none" => q.apply.id # 0)
    BY <1>1 DEF QueueStands
  <2>2. \A k \in 1..l : p.queue[k].id \in 1..n /\ p.queue[k].id # p.apply.id
    BY <1>1, <1>2 DEF QueueStands
  <2>3. \A k \in 1..Len(q.queue) : q.queue[k].id \in 1..n + 1 /\ q.queue[k].id # q.apply.id
    BY <1>3, <2>1, <2>2
  <2>4. \A j, k \in 1..Len(q.queue) : q.queue[j].id = q.queue[k].id => j = k
    <3>1. \A j, k \in 1..l : p.queue[j].id = p.queue[k].id => j = k
      BY <1>1, <1>2 DEF QueueStands
    <3> QED
      BY <1>3, <2>2, <3>1
  <2>5. \A k \in 2..Len(q.queue) : q.queue[k].id \notin DOMAIN g
    <3>1. \A k \in 2..l : p.queue[k].id \notin DOMAIN g
      BY <1>1, <1>2 DEF QueueStands
    <3>2. \A k \in 2..l + 1 : (k \in 2..l /\ k \in 1..l) \/ k = l + 1
      OBVIOUS
    <3> QED
      BY <1>3, <1>4, <3>1, <3>2
  <2>6. q.queue # << >> =>
          (q.queue[1].id \in DOMAIN g => h[g[q.queue[1].id]] = q.queue[1].draft)
    <3>1. CASE l = 0
      BY <1>3, <1>4, <3>1
    <3>2. CASE l # 0
      <4>1. p.queue # << >> /\ q.queue[1] = p.queue[1]
        BY <1>2, <1>3, <3>2
      <4> QED
        BY <1>1, <4>1 DEF QueueStands
    <3> QED
      BY <3>1, <3>2
  <2> QED
    BY <2>1, <2>3, <2>4, <2>5, <2>6, SMTT(30) DEF QueueStands
<1>6. BaseStands(h, q)
  BY <1>1 DEF BaseStands, Asks
<1> QED
  BY <1>5, <1>6 DEF Sound

\* With that, a calm page's saves are still those of its edits.
LEMMA CalmQueued ==
  ASSUME NEW p \in PageRow, NEW q \in PageRow, PageIsCalm(p), NEW s \in Saves,
         q.queue = Append(p.queue, s), s.tag = q.latest, s.draft = q.draft,
         q.latest >= p.latest, q.timer = 0, q.label = "saving",
         \A k \in 1..Len(p.queue) : p.queue[k].tag < q.latest,
         Asks(q) => q.publish = p.publish /\ p.publish.tag < q.latest, ~p.busy,
         q.expected = (IF p.queue = << >> THEN p.rev ELSE p.expected),
         q.rev = p.rev, q.busy = p.busy, q.apply = p.apply, q.reloading = p.reloading,
         q.barrier = p.barrier, q.conflict = p.conflict
  PROVE  PageIsCalm(q)
<1>1. PICK l \in Nat : l = Len(p.queue)
  BY PageIsTyped
<1>2. /\ Len(q.queue) = l + 1 /\ q.queue[l + 1] = s /\ q.queue # << >>
      /\ \A k \in 1..l : q.queue[k] = p.queue[k]
  BY <1>1, AppendProperties, PageIsTyped
<1>3. q.latest \in Nat /\ p.publish.tag \in Nat /\ \A k \in 1..l : p.queue[k].tag \in Nat
  BY <1>1, PageIsTyped
<1>4. Asks(q) => Asks(p)
  BY DEF Asks
<1>5. TagsStand(q) /\ TimerStands(q)
  <2>1. \A j, k \in 1..l : j < k => p.queue[j].tag < p.queue[k].tag
    BY <1>1 DEF PageIsCalm, TagsStand
  <2>2. \A k \in 1..Len(q.queue) : q.queue[k].tag <= q.latest
    BY <1>1, <1>2, <1>3
  <2>3. \A j, k \in 1..Len(q.queue) : j < k => q.queue[j].tag < q.queue[k].tag
    BY <1>1, <1>2, <1>3, <2>1
  <2>4. ASSUME Asks(q)
        PROVE  /\ q.publish.tag <= q.latest
               /\ \A k \in 1..Len(q.queue) : q.publish.tag < q.queue[k].tag
    <3>1. \A k \in 1..l : p.publish.tag < p.queue[k].tag
      BY <1>1, <1>4, <2>4 DEF PageIsCalm, TagsStand
    <3> QED
      BY <1>2, <1>3, <2>4, <3>1, SMTT(30)
  <2> QED
    BY <2>2, <2>3, <2>4 DEF TagsStand, TimerStands
<1>6. NewestStands(q)
  <2>1. \A k \in 1..Len(q.queue) : q.queue[k].tag = q.latest => q.queue[k].draft = q.draft
    BY <1>1, <1>2, <1>3
  <2>2. ~(Asks(q) /\ q.publish.tag = q.latest)
    BY <1>3
  <2> QED
    BY <2>1, <2>2 DEF NewestStands
<1>7. HeldStands(q) /\ BarrierStands(q)
  BY DEF PageIsCalm, HeldStands, BarrierStands
<1>8. LabelStands(q)
  BY <1>1, <1>2 DEF LabelStands
<1> QED
  BY <1>5, <1>6, <1>7, <1>8 DEF PageIsCalm

\* A timer's save is queued.
LEMMA Autosaves == ASSUME EditorIInv, AutosaveDue PROVE EditorIInv'
<1>1. page \in PageRow /\ ids \in Nat /\ HistoryStands(history, receipts, ids)
  BY DEF EditorIInv, Sound
<1>2. PICK q : q = Queued(page, "autosave")
  OBVIOUS
<1>3. PICK s : s = [id |-> ids + 1, draft |-> page.draft, kind |-> "autosave",
                    tag |-> page.latest]
  OBVIOUS
<1>4. /\ q \in PageRow /\ s \in Saves /\ q.queue = Append(page.queue, s)
      /\ q.expected = IF page.queue = << >> THEN page.rev ELSE page.expected
      /\ q.draft = page.draft /\ q.saved = page.saved /\ q.rev = page.rev
      /\ q.busy = page.busy /\ q.publish = page.publish /\ q.apply = page.apply
      /\ q.reloading = page.reloading /\ q.barrier = page.barrier
      /\ q.conflict = page.conflict /\ q.label = page.label /\ q.latest = page.latest
  BY <1>1, <1>2, <1>3, Queues
<1>5. PICK p : p = [q EXCEPT !.timer = 0]
  OBVIOUS
<1>6. page' = p /\ ids' = ids + 1 /\ open /\ page.timer # 0
  BY <1>2, <1>5 DEF AutosaveDue
<1>7. UNCHANGED << history, receipts, published, open, recovery, losses, hasty >>
  BY DEF AutosaveDue, draftVars, countVars
<1>8. /\ p \in PageRow /\ p.timer = 0 /\ p.queue = q.queue /\ p.expected = q.expected
      /\ p.draft = q.draft /\ p.saved = q.saved /\ p.rev = q.rev /\ p.busy = q.busy
      /\ p.publish = q.publish /\ p.apply = q.apply /\ p.reloading = q.reloading
      /\ p.barrier = q.barrier /\ p.conflict = q.conflict /\ p.label = q.label
      /\ p.latest = q.latest
  BY <1>4, <1>5 DEF PageRow
<1>9. s.id = ids + 1 /\ s.tag = p.latest /\ s.draft = p.draft
  BY <1>3, <1>4, <1>8
<1>10. Sound(history, receipts, ids + 1, TRUE, p)
  <2>1. Sound(history, receipts, ids, TRUE, page)
    BY <1>6 DEF EditorIInv
  <2> QED
    <3>1. /\ p.queue = Append(page.queue, s) /\ p.apply = page.apply /\ p.rev = page.rev
          /\ p.saved = page.saved /\ p.publish = page.publish /\ p \in PageRow /\ s \in Saves
      BY <1>4, <1>8
    <3> QED
      BY <1>1, <1>9, <2>1, <3>1, SoundQueued
<1>11. ASSUME ~hasty PROVE Calmly(history, receipts, losses, recovery, p)
  <2>1. Calmly(history, receipts, losses, recovery, page)
    BY <1>6, <1>11 DEF EditorIInv
  <2>2. /\ page.label = "saving" /\ ~page.conflict /\ ~page.busy
        /\ \A k \in 1..Len(page.queue) : page.queue[k].tag < page.latest
        /\ Asks(page) => page.publish.tag < page.latest
    BY <1>6, <2>1 DEF Calmly, PageIsCalm, TimerStands, HeldStands
  <2>3. page.latest \in Nat /\ (Asks(p) => Asks(page))
    BY <1>1, <1>4, <1>8, PageIsTyped DEF Asks
  <2>4. PageIsCalm(p)
    BY <1>1, <1>4, <1>8, <1>9, <2>1, <2>2, <2>3, CalmQueued DEF Calmly
  <2>5. FearsStand(history, receipts, losses, p) /\ WorkStands(history, recovery, p)
    BY <1>4, <1>8, <2>1, <2>2 DEF Calmly, FearsStand, WorkStands
  <2> QED
    BY <2>4, <2>5 DEF Calmly
<1>12. HistoryStands(history, receipts, ids + 1) /\ ids + 1 \in Nat
  BY <1>1 DEF HistoryStands
<1>13. /\ VersionsStand(history, published) /\ open \in BOOLEAN /\ hasty \in BOOLEAN
       /\ losses \in Nat /\ recovery \in Copies
  BY DEF EditorIInv
<1> QED
  BY <1>1, <1>6, <1>7, <1>10, <1>11, <1>12, <1>13, PageMoves

\* A publication's save is queued.
LEMMA Publishes == ASSUME EditorIInv, Publish PROVE EditorIInv'
<1>1. page \in PageRow /\ ids \in Nat /\ HistoryStands(history, receipts, ids)
  BY DEF EditorIInv, Sound
<1>2. PICK b : b = [page EXCEPT !.latest = @ + 1, !.label = "saving"]
  OBVIOUS
<1>3. /\ b \in PageRow /\ b.latest = page.latest + 1 /\ b.label = "saving"
      /\ b.queue = page.queue /\ b.expected = page.expected /\ b.draft = page.draft
      /\ b.saved = page.saved /\ b.rev = page.rev /\ b.busy = page.busy
      /\ b.publish = page.publish /\ b.apply = page.apply /\ b.reloading = page.reloading
      /\ b.barrier = page.barrier /\ b.conflict = page.conflict /\ b.timer = page.timer
  <2>1. page.latest + 1 \in Nat /\ "saving" \in Labels
    BY <1>1, PageIsTyped DEF Labels
  <2>2. b \in PageRow
    BY <1>1, <1>2, <2>1 DEF PageRow
  <2> QED
    BY <1>1, <1>2, <2>2 DEF PageRow
<1>4. PICK q : q = Queued(b, "publish")
  OBVIOUS
<1>5. PICK s : s = [id |-> ids + 1, draft |-> b.draft, kind |-> "publish", tag |-> b.latest]
  OBVIOUS
<1>6. /\ q \in PageRow /\ s \in Saves /\ q.queue = Append(b.queue, s)
      /\ q.expected = IF b.queue = << >> THEN b.rev ELSE b.expected
      /\ q.draft = b.draft /\ q.saved = b.saved /\ q.rev = b.rev
      /\ q.busy = b.busy /\ q.publish = b.publish /\ q.apply = b.apply
      /\ q.reloading = b.reloading /\ q.barrier = b.barrier /\ q.timer = b.timer
      /\ q.conflict = b.conflict /\ q.label = b.label /\ q.latest = b.latest
  BY <1>1, <1>3, <1>4, <1>5, Queues
<1>7. PICK p : p = [q EXCEPT !.publish.at = "saving"]
  OBVIOUS
<1>8. /\ page' = p /\ ids' = ids + 1 /\ open /\ ~page.busy /\ page.label # "saving"
      /\ hasty' = (hasty \/ page.conflict)
  BY <1>2, <1>4, <1>7 DEF Publish
<1>9. UNCHANGED << history, receipts, published, open, recovery, losses >>
  BY DEF Publish, draftVars
<1>10. /\ p.timer = q.timer /\ p.queue = q.queue /\ p.expected = q.expected
       /\ p.draft = q.draft /\ p.saved = q.saved /\ p.rev = q.rev /\ p.busy = q.busy
       /\ p.apply = q.apply /\ p.reloading = q.reloading
       /\ p.barrier = q.barrier /\ p.conflict = q.conflict /\ p.label = q.label
       /\ p.latest = q.latest
  BY <1>6, <1>7 DEF PageRow
<1>11. p \in PageRow /\ p.publish.at = "saving"
  BY <1>6, <1>7 DEF PageRow, TaskRow
<1>12. s.id = ids + 1 /\ s.tag = p.latest /\ s.draft = p.draft /\ ~Asks(p)
  BY <1>5, <1>6, <1>10, <1>11 DEF Asks
<1>13. Sound(history, receipts, ids + 1, TRUE, p)
  <2>1. Sound(history, receipts, ids, TRUE, page)
    BY <1>8 DEF EditorIInv
  <2>2. p.queue = Append(page.queue, s) /\ p.apply = page.apply /\ p.rev = page.rev
        /\ p.saved = page.saved
    BY <1>3, <1>6, <1>10
  <2> QED
    BY <1>1, <1>6, <1>11, <1>12, <2>1, <2>2, SoundQueued
<1>14. ASSUME ~hasty' PROVE Calmly(history, receipts, losses, recovery, p)
  <2>1. Calmly(history, receipts, losses, recovery, page) /\ ~page.conflict
    BY <1>8, <1>14 DEF EditorIInv
  <2>2. /\ page.timer = 0 /\ \A k \in 1..Len(page.queue) : page.queue[k].tag <= page.latest
    BY <1>8, <2>1 DEF Calmly, PageIsCalm, TimerStands, TagsStand
  <2>3. page.latest \in Nat /\ \A k \in 1..Len(page.queue) : page.queue[k].tag \in Nat
    BY <1>1, PageIsTyped
  <2>4. p.latest >= page.latest /\ \A k \in 1..Len(page.queue) : page.queue[k].tag < p.latest
    BY <1>3, <1>6, <1>10, <2>2, <2>3
  <2>5. PageIsCalm(p)
    BY <1>1, <1>3, <1>6, <1>8, <1>10, <1>11, <1>12, <2>1, <2>2, <2>4, CalmQueued DEF Calmly
  <2>6. FearsStand(history, receipts, losses, p) /\ WorkStands(history, recovery, p)
    BY <1>3, <1>6, <1>10, <2>1 DEF Calmly, FearsStand, WorkStands
  <2> QED
    BY <2>5, <2>6 DEF Calmly
<1>15. HistoryStands(history, receipts, ids + 1) /\ ids + 1 \in Nat
  BY <1>1 DEF HistoryStands
<1>16. hasty' \in BOOLEAN
  BY <1>1, <1>8, PageIsTyped DEF EditorIInv
<1>17. /\ VersionsStand(history, published) /\ open \in BOOLEAN /\ losses \in Nat
       /\ recovery \in Copies
  BY DEF EditorIInv
<1> QED
  BY <1>8, <1>9, <1>13, <1>14, <1>15, <1>16, <1>17, PageMoves

-------------------------------------------------------------------------------
(* A publication goes on, a reload begins or fails, an offer is dismissed.    *)

\* What the invariant says of an open page.
LEMMA OpenPage ==
  ASSUME EditorIInv, open
  PROVE  /\ open \in BOOLEAN /\ hasty \in BOOLEAN /\ ids \in Nat /\ losses \in Nat
         /\ losses + 1 \in Nat /\ losses + 1 # 0
         /\ recovery \in Copies /\ NoCopy \in Copies /\ HistoryStands(history, receipts, ids)
         /\ VersionsStand(history, published) /\ Sound(history, receipts, ids, TRUE, page)
         /\ page \in PageRow /\ BaseStands(history, page)
         /\ QueueStands(history, receipts, ids, page)
         /\ ~hasty => /\ Calmly(history, receipts, losses, recovery, page) /\ PageIsCalm(page)
                      /\ FearsStand(history, receipts, losses, page)
                      /\ WorkStands(history, recovery, page)
<1>1. NoCopy \in Copies
  BY DEF NoCopy, Copies, Drafts
<1> QED
  BY <1>1 DEF EditorIInv, Sound, Calmly

\* No publication under way.
NotAsking(p, q) ==
    /\ q \in PageRow /\ q.publish = NoTask /\ q.queue = p.queue /\ q.apply = p.apply
    /\ q.rev = p.rev /\ q.saved = p.saved /\ q.draft = p.draft /\ q.busy = p.busy
    /\ q.expected = p.expected /\ q.reloading = p.reloading /\ q.barrier = p.barrier
    /\ q.latest = p.latest /\ q.timer = p.timer

\* The page without its publication.
Unpublished(p, conflict, label) ==
    [p EXCEPT !.publish = NoTask, !.conflict = conflict, !.label = label]

\* It is no longer published by.
LEMMA PublishEnds ==
  ASSUME NEW p \in PageRow, NEW conflict \in BOOLEAN, NEW label \in Labels,
         NEW q, q = Unpublished(p, conflict, label)
  PROVE  NotAsking(p, q) /\ q.conflict = conflict /\ q.label = label /\ ~Asks(q)
<1>1. NoTask \in TaskRow({"none", "saving", "asking", "publishing"})
  BY DEF NoTask, TaskRow, Drafts
<1>2. q \in PageRow
  BY <1>1 DEF PageRow, Unpublished
<1>3. q.publish.at = "none"
  BY <1>2 DEF NoTask, PageRow, Unpublished
<1> QED
  BY <1>2, <1>3 DEF NotAsking, PageRow, Asks, Unpublished

\* It ends, and the page says so only when nothing newer is there.
LEMMA CalmAfterPublish ==
  ASSUME NEW p \in PageRow, PageIsCalm(p), Asks(p), NEW q, NotAsking(p, q), ~Asks(q),
         q.conflict = p.conflict,
         p.publish.tag = p.latest => q.label \in {"saved", "error"},
         p.publish.tag # p.latest => q.label = p.label
  PROVE  PageIsCalm(q)
<1>1. /\ p.latest \in Nat /\ p.publish.tag \in Nat /\ Len(p.queue) \in Nat
      /\ p.queue \in Seq(Saves) /\ \A k \in 1..Len(p.queue) : p.queue[k].tag \in Nat
  BY PageIsTyped
<1>2. TagsStand(q) /\ NewestStands(q) /\ HeldStands(q) /\ BarrierStands(q)
  BY DEF PageIsCalm, TagsStand, NewestStands, HeldStands, BarrierStands, NotAsking
<1>3. CASE p.publish.tag = p.latest
  <2>1. p.queue = << >>
    <3>1. \A k \in 1..Len(p.queue) : p.queue[k].tag <= p.latest /\ p.publish.tag < p.queue[k].tag
      BY DEF PageIsCalm, TagsStand
    <3>2. ASSUME p.queue # << >> PROVE FALSE
      <4>1. 1 \in 1..Len(p.queue)
        BY <1>1, <3>2
      <4> QED
        BY <1>1, <1>3, <3>1, <4>1
    <3> QED
      BY <3>2
  <2>2. p.timer = 0
    BY <1>1, <1>3 DEF PageIsCalm, TimerStands
  <2>3. ~p.conflict /\ ~p.busy /\ ~Dirty(p)
    BY <1>3 DEF PageIsCalm, NewestStands
  <2>4. TimerStands(q) /\ LabelStands(q)
    BY <1>3, <2>1, <2>2, <2>3 DEF TimerStands, LabelStands, NotAsking, Dirty
  <2> QED
    BY <1>2, <2>4 DEF PageIsCalm
<1>4. CASE p.publish.tag # p.latest
  <2>1. TimerStands(q)
    BY <1>4 DEF PageIsCalm, TimerStands, NotAsking
  <2>2. LabelStands(q)
    BY <1>4 DEF PageIsCalm, LabelStands, NotAsking, Dirty
  <2> QED
    BY <1>2, <2>1, <2>2 DEF PageIsCalm
<1> QED
  BY <1>3, <1>4

\* The publication has read the draft.
LEMMA ReadsToPublish == ASSUME EditorIInv, PublishReads PROVE EditorIInv'
<1>1. PICK q : q = page'
  OBVIOUS
<1>2. /\ open /\ page.publish.at = "asking" /\ q = [page EXCEPT !.publish.at = "publishing"]
      /\ UNCHANGED << history, receipts, published, open, recovery, ids, losses, hasty >>
  BY <1>1 DEF PublishReads, draftVars, countVars
<1>3. page \in PageRow
  BY <1>2, OpenPage
<1>4. q \in PageRow /\ q.publish.at = "publishing"
  BY <1>2, <1>3 DEF PageRow, TaskRow
<1>5. /\ q.publish.from = page.publish.from /\ q.publish.captured = page.publish.captured
      /\ q.publish.tag = page.publish.tag
  BY <1>2, <1>3 DEF PageRow, TaskRow
<1>6. /\ q.queue = page.queue /\ q.apply = page.apply /\ q.rev = page.rev
      /\ q.saved = page.saved /\ q.draft = page.draft /\ q.busy = page.busy
      /\ q.expected = page.expected /\ q.reloading = page.reloading
      /\ q.barrier = page.barrier /\ q.latest = page.latest /\ q.timer = page.timer
      /\ q.conflict = page.conflict /\ q.label = page.label
  BY <1>2, <1>3 DEF PageRow
<1>7. Asks(q) /\ Asks(page)
  BY <1>2, <1>4 DEF Asks
<1>8. Sound(history, receipts, ids, TRUE, q)
  <2>1. KeepsBase(page, q)
    BY <1>4, <1>5, <1>6, <1>7 DEF KeepsBase
  <2> QED
    BY <1>2, <2>1, OpenPage, SoundStill
<1>9. ASSUME ~hasty PROVE Calmly(history, receipts, losses, recovery, q)
  <2>1. /\ PageIsCalm(page) /\ FearsStand(history, receipts, losses, page)
        /\ WorkStands(history, recovery, page)
    BY <1>2, <1>9, OpenPage
  <2>2. TagsStand(q) /\ TimerStands(q)
    BY <2>1, <1>5, <1>6, <1>7 DEF PageIsCalm, TagsStand, TimerStands
  <2>3. NewestStands(q) /\ HeldStands(q) /\ BarrierStands(q)
    BY <2>1, <1>5, <1>6, <1>7
       DEF PageIsCalm, NewestStands, HeldStands, BarrierStands, Dirty
  <2>4. LabelStands(q)
    BY <2>1, <1>5, <1>6, <1>7 DEF PageIsCalm, LabelStands, Dirty
  <2>5. FearsStand(history, receipts, losses, q) /\ WorkStands(history, recovery, q)
    BY <2>1, <1>6 DEF FearsStand, WorkStands
  <2> QED
    BY <2>2, <2>3, <2>4, <2>5 DEF Calmly, PageIsCalm
<1> QED
  BY <1>1, <1>2, <1>8, <1>9, OpenPage, PageMoves

\* What is published is the draft that was read.
LEMMA OneMoreVersion ==
  ASSUME NEW h, NEW g, NEW n, HistoryStands(h, g, n), NEW v, VersionsStand(h, v),
         NEW x, x.revision \in 1..Len(h), x.content = h[x.revision], x.meant = x.content
  PROVE  VersionsStand(h, v \cup {x})
BY DEF VersionsStand

\* It is, under the lock of the draft's row.
LEMMA PublishesTheDraft ==
  ASSUME EditorIInv, open, Asks(page), StillCurrent(page.publish.from)
  PROVE  VersionsStand(history, published \cup {PublishedNow(page.publish)})
<1>1. PICK x : x = PublishedNow(page.publish)
  OBVIOUS
<1>2. /\ page.publish.from \in 1..Len(history)
      /\ page.publish.captured = history[page.publish.from]
      /\ page.publish.from = Len(history)
  BY OpenPage DEF BaseStands, StillCurrent, Current
<1>3. x.revision \in 1..Len(history) /\ x.content = history[x.revision] /\ x.meant = x.content
  BY <1>1, <1>2 DEF PublishedNow, Current
<1> QED
  BY <1>1, <1>3, OpenPage, OneMoreVersion

\* The publication succeeded.
LEMMA Committed == ASSUME EditorIInv, PublishCommits PROVE EditorIInv'
<1>1. PICK q : q = page'
  OBVIOUS
<1>2. /\ open /\ Asks(page) /\ StillCurrent(page.publish.from)
      /\ published' = published \cup {PublishedNow(page.publish)}
      /\ UNCHANGED << history, receipts, open, ids, losses, hasty >>
  BY DEF PublishCommits, countVars, Asks
<1>3. page \in PageRow /\ page.conflict \in BOOLEAN /\ page.label \in Labels
  BY <1>2, OpenPage, PageIsTyped
<1>4. PICK label \in Labels :
        /\ q = Unpublished(page, page.conflict, label)
        /\ page.publish.tag = page.latest => label = "saved" /\ recovery' = NoCopy
        /\ page.publish.tag # page.latest => label = page.label /\ recovery' = recovery
  <2>1. CASE page.publish.tag = page.latest
    <3>1. "saved" \in Labels
      BY DEF Labels
    <3>2. q = Unpublished(page, page.conflict, "saved")
      BY <1>1, <1>3, <2>1 DEF PublishCommits, PageRow, Unpublished
    <3> QED
      BY <2>1, <3>1, <3>2 DEF PublishCommits
  <2>2. CASE page.publish.tag # page.latest
    <3>1. q = Unpublished(page, page.conflict, page.label)
      BY <1>1, <1>3, <2>2 DEF PublishCommits, PageRow, Unpublished
    <3> QED
      BY <1>3, <2>2, <3>1 DEF PublishCommits
  <2> QED
    BY <2>1, <2>2
<1>5. NotAsking(page, q) /\ q.conflict = page.conflict /\ q.label = label /\ ~Asks(q)
  BY <1>3, <1>4, PublishEnds
<1>6. KeepsBase(page, q)
  BY <1>5 DEF KeepsBase, NotAsking
<1>7. Sound(history, receipts, ids, TRUE, q)
  BY <1>2, <1>6, OpenPage, SoundStill
<1>8. recovery' \in Copies
  BY <1>2, <1>4, OpenPage
<1>9. ASSUME ~hasty PROVE Calmly(history, receipts, losses, recovery', q)
  <2>1. /\ PageIsCalm(page) /\ FearsStand(history, receipts, losses, page)
        /\ WorkStands(history, recovery, page)
    BY <1>2, <1>9, OpenPage
  <2>2. PageIsCalm(q)
    BY <1>2, <1>3, <1>4, <1>5, <2>1, CalmAfterPublish
  <2>3. FearsStand(history, receipts, losses, q)
    BY <1>5, <2>1 DEF FearsStand, NotAsking
  <2>4. WorkStands(history, recovery', q)
    <3>1. CASE page.publish.tag = page.latest
      <4>1. page.draft = page.saved
        BY <1>2, <2>1, <3>1 DEF PageIsCalm, NewestStands, Dirty
      <4> QED
        BY <1>2, <1>5, <4>1, OpenPage DEF WorkStands, NotAsking, BaseStands
    <3>2. CASE page.publish.tag # page.latest
      BY <1>4, <1>5, <2>1, <3>2 DEF WorkStands, NotAsking
    <3> QED
      BY <3>1, <3>2
  <2> QED
    BY <2>2, <2>3, <2>4 DEF Calmly
<1>10. VersionsStand(history, published')
  BY <1>2, PublishesTheDraft
<1> QED
  BY <1>1, <1>2, <1>7, <1>8, <1>9, <1>10, OpenPage, PageMoves

\* Its request or the reply is lost.
LEMMA PublishLost == ASSUME EditorIInv, PublishIsLost PROVE EditorIInv'
<1>1. PICK q : q = page'
  OBVIOUS
<1>2. /\ open /\ Asks(page) /\ losses' = losses + 1
      /\ UNCHANGED << history, receipts, open, recovery, ids, hasty >>
  BY DEF PublishIsLost, Asks
<1>3. page \in PageRow /\ page.conflict \in BOOLEAN /\ page.label \in Labels
  BY <1>2, OpenPage, PageIsTyped
<1>4. PICK label \in Labels :
        /\ q = Unpublished(page, page.conflict, label)
        /\ label = IF page.publish.tag = page.latest THEN "error" ELSE page.label
  <2>1. PICK label : label = IF page.publish.tag = page.latest THEN "error" ELSE page.label
    OBVIOUS
  <2>2. label \in Labels
    BY <1>3, <2>1 DEF Labels
  <2>3. q = Unpublished(page, page.conflict, label)
    BY <1>1, <1>3, <2>1 DEF PublishIsLost, PageRow, Unpublished
  <2> QED
    BY <2>1, <2>2, <2>3
<1>5. NotAsking(page, q) /\ q.conflict = page.conflict /\ q.label = label /\ ~Asks(q)
  BY <1>3, <1>4, PublishEnds
<1>6. KeepsBase(page, q)
  BY <1>5 DEF KeepsBase, NotAsking
<1>7. Sound(history, receipts, ids, TRUE, q)
  BY <1>2, <1>6, OpenPage, SoundStill
<1>8. ASSUME ~hasty PROVE Calmly(history, receipts, losses + 1, recovery, q)
  <2>1. /\ PageIsCalm(page) /\ FearsStand(history, receipts, losses, page)
        /\ WorkStands(history, recovery, page)
    BY <1>2, <1>8, OpenPage
  <2>2. PageIsCalm(q)
    BY <1>2, <1>3, <1>4, <1>5, <2>1, CalmAfterPublish
  <2>3. losses + 1 # 0
    BY <1>2, OpenPage
  <2>4. FearsStand(history, receipts, losses + 1, q)
    BY <1>5, <2>1, <2>3 DEF FearsStand, NotAsking
  <2>5. WorkStands(history, recovery, q)
    BY <1>5, <2>1 DEF WorkStands, NotAsking
  <2> QED
    BY <2>2, <2>4, <2>5 DEF Calmly
<1>9. VersionsStand(history, published')
  <2>1. published' = published \/ (/\ StillCurrent(page.publish.from)
                                   /\ published' = published \cup {PublishedNow(page.publish)})
    BY DEF PublishIsLost
  <2> QED
    BY <1>2, <2>1, PublishesTheDraft, OpenPage
<1> QED
  BY <1>1, <1>2, <1>7, <1>8, <1>9, OpenPage, PageMoves

\* A publication that found a newer draft is a conflict.
LEMMA PublishStale == ASSUME EditorIInv, PublishIsStale PROVE EditorIInv'
<1>1. PICK p : p = Unpublished(page, TRUE, "conflict")
  OBVIOUS
<1>2. /\ open /\ Asks(page) /\ page.publish.from # Len(history)
      /\ page' = Rendered(p)
      /\ hasty' = (hasty \/ page.rev = Len(history) \/ page.queue # << >>)
      /\ UNCHANGED << history, receipts, published, open, recovery, ids, losses >>
  BY <1>1 DEF PublishIsStale, Asks, StillCurrent, Current, draftVars, countVars, Unpublished
<1>3. page \in PageRow /\ "conflict" \in Labels
  BY <1>2, OpenPage DEF Labels
<1>4. NotAsking(page, p) /\ p.conflict = TRUE /\ p.label = "conflict" /\ ~Asks(p)
  <2>1. PICK fear \in BOOLEAN : fear = TRUE
    OBVIOUS
  <2>2. p = Unpublished(page, fear, "conflict")
    BY <1>1, <2>1
  <2>3. NotAsking(page, p) /\ p.conflict = fear /\ p.label = "conflict" /\ ~Asks(p)
    BY <1>3, <2>2, PublishEnds
  <2> QED
    BY <2>1, <2>3
<1>5. KeepsBase(page, p)
  BY <1>4 DEF KeepsBase, NotAsking
<1>6. Sound(history, receipts, ids, TRUE, p)
  BY <1>2, <1>5, OpenPage, SoundStill
<1>7. ASSUME ~hasty'
      PROVE  /\ Ready(p) /\ FearsStand(history, receipts, losses, p)
             /\ WorkStands(history, recovery, p)
  <2>1. /\ PageIsCalm(page) /\ FearsStand(history, receipts, losses, page)
        /\ WorkStands(history, recovery, page) /\ page.queue = << >>
        /\ page.rev # Len(history)
    BY <1>2, <1>7, OpenPage
  <2>2. page.rev < Len(history)
    BY <1>2, <2>1, OpenPage DEF BaseStands, HistoryStands
  <2>3. TagsStand(p) /\ HeldStands(p) /\ BarrierStands(p) /\ NewestStands(p)
    BY <1>4, <2>1
       DEF PageIsCalm, TagsStand, HeldStands, BarrierStands, NewestStands, NotAsking
  <2>4. Ready(p)
    BY <1>4, <2>3 DEF Ready
  <2>5. FearsStand(history, receipts, losses, p) /\ WorkStands(history, recovery, p)
    BY <1>4, <2>1, <2>2 DEF FearsStand, WorkStands, NotAsking
  <2> QED
    BY <2>4, <2>5
<1> QED
  BY <1>2, <1>6, <1>7, OpenPage, IsShown

\* A page whose reload begins, ends or fails, and one whose offer is dismissed.
HeldBack(p, q) ==
    /\ q \in PageRow /\ q.publish = p.publish /\ q.queue = p.queue /\ q.rev = p.rev
    /\ q.saved = p.saved /\ q.draft = p.draft /\ q.busy = p.busy /\ q.apply = p.apply
    /\ q.expected = p.expected /\ q.latest = p.latest /\ q.timer = p.timer
    /\ q.conflict = p.conflict

\* Such a page is as sound and as calm as before.
LEMMA Holds ==
  ASSUME EditorIInv, open, UNCHANGED << history, receipts, published, open, ids >>,
         losses' \in Nat, losses' = 0 => losses = 0, hasty' \in BOOLEAN, ~hasty' => ~hasty,
         recovery' \in Copies, NEW q, page' = q, HeldBack(page, q),
         ~hasty' => WorkStands(history, recovery', page),
         \/ q.label = page.label /\ q.barrier = page.barrier /\ q.reloading = page.reloading
         \/ /\ ~hasty => page.conflict /\ ~page.busy
            /\ \/ q.label = "saving" /\ q.reloading
               \/ q.label = "error" /\ ~q.reloading
  PROVE  EditorIInv'
<1>1. KeepsBase(page, q)
  BY DEF KeepsBase, HeldBack, Asks
<1>2. Sound(history, receipts, ids, TRUE, q)
  BY <1>1, OpenPage, SoundStill
<1>3. ASSUME ~hasty' PROVE Calmly(history, receipts, losses', recovery', q)
  <2>1. PageIsCalm(page) /\ FearsStand(history, receipts, losses, page)
    BY <1>3, OpenPage
  <2>2. (Asks(q) <=> Asks(page)) /\ (Dirty(q) <=> Dirty(page))
    BY DEF Asks, Dirty, HeldBack
  <2>3. TagsStand(q)
    BY <2>1, <2>2 DEF PageIsCalm, TagsStand, HeldBack
  <2>4. FearsStand(history, receipts, losses', q)
    BY <2>1 DEF FearsStand, HeldBack
  <2>5. WorkStands(history, recovery', q)
    BY <1>3 DEF WorkStands, HeldBack
  <2>6. CASE q.label = page.label /\ q.barrier = page.barrier /\ q.reloading = page.reloading
    <3>1. TimerStands(q) /\ NewestStands(q)
      BY <2>1, <2>2, <2>6 DEF PageIsCalm, TimerStands, NewestStands, HeldBack
    <3>2. HeldStands(q) /\ BarrierStands(q) /\ LabelStands(q)
      BY <2>1, <2>2, <2>6 DEF PageIsCalm, HeldStands, BarrierStands, LabelStands, HeldBack
    <3> QED
      BY <2>3, <2>4, <2>5, <3>1, <3>2 DEF Calmly, PageIsCalm
  <2>7. CASE /\ page.conflict /\ ~page.busy
             /\ \/ q.label = "saving" /\ q.reloading
                \/ q.label = "error" /\ ~q.reloading
    <3>1. q.timer = 0
      BY <2>1, <2>7 DEF PageIsCalm, TimerStands, HeldBack
    <3>2. TimerStands(q) /\ NewestStands(q)
      BY <2>1, <2>2, <2>7, <3>1 DEF PageIsCalm, TimerStands, NewestStands, HeldBack
    <3>3. HeldStands(q)
      BY <2>1, <2>7 DEF PageIsCalm, HeldStands, HeldBack
    <3>4. BarrierStands(q) /\ LabelStands(q)
      BY <2>7 DEF BarrierStands, LabelStands, HeldBack
    <3> QED
      BY <2>3, <2>4, <2>5, <3>2, <3>3, <3>4 DEF Calmly, PageIsCalm
  <2> QED
    BY <1>3, <2>6, <2>7
<1> QED
  BY <1>2, <1>3, OpenPage, PageMoves

\* A reload begins.
LEMMA Reloads == ASSUME EditorIInv, ReloadLatestDraft PROVE EditorIInv'
<1>1. PICK q : q = page'
  OBVIOUS
<1>2. /\ open /\ page.conflict /\ ~page.busy
      /\ q = [page EXCEPT !.barrier = TRUE, !.label = "saving", !.reloading = TRUE]
      /\ UNCHANGED << history, receipts, published, open, recovery, ids, losses, hasty >>
  BY <1>1 DEF ReloadLatestDraft, draftVars, countVars
<1>3. page \in PageRow /\ "saving" \in Labels
  BY <1>2, OpenPage DEF Labels
<1>4. HeldBack(page, q) /\ q.label = "saving" /\ q.reloading /\ q.barrier
  BY <1>2, <1>3 DEF PageRow, HeldBack
<1> QED
  BY <1>1, <1>2, <1>4, OpenPage, Holds

\* A reload fails.
LEMMA ReloadFailed == ASSUME EditorIInv, ReloadFails PROVE EditorIInv'
<1>1. PICK q : q = page'
  OBVIOUS
<1>2. /\ open /\ page.reloading /\ losses' = losses + 1
      /\ q = [page EXCEPT !.label = "error", !.barrier = FALSE, !.reloading = FALSE]
      /\ UNCHANGED << history, receipts, published, open, recovery, ids, hasty >>
  BY <1>1 DEF ReloadFails, draftVars
<1>3. page \in PageRow /\ "error" \in Labels
  BY <1>2, OpenPage DEF Labels
<1>4. HeldBack(page, q) /\ q.label = "error" /\ ~q.reloading /\ q.barrier = FALSE
  BY <1>2, <1>3 DEF PageRow, HeldBack
<1>5. ASSUME ~hasty
      PROVE  page.conflict /\ ~page.busy /\ WorkStands(history, recovery, page)
  BY <1>2, <1>5, OpenPage DEF PageIsCalm, HeldStands
<1> QED
  BY <1>1, <1>2, <1>4, <1>5, OpenPage, Holds

\* The offered copy is dismissed.
LEMMA Dismisses == ASSUME EditorIInv, DismissRecoverySnapshot PROVE EditorIInv'
<1>1. PICK q : q = page'
  OBVIOUS
<1>2. /\ open /\ recovery' = NoCopy /\ q = [page EXCEPT !.offer = NoCopy]
      /\ hasty' = (hasty \/ Dirty(page))
      /\ UNCHANGED << history, receipts, published, open, ids, losses >>
  BY <1>1 DEF DismissRecoverySnapshot, draftVars, countVars
<1>3. page \in PageRow /\ NoCopy \in Copies
  BY <1>2, OpenPage
<1>4. /\ HeldBack(page, q) /\ q.label = page.label /\ q.barrier = page.barrier
      /\ q.reloading = page.reloading
  BY <1>2, <1>3 DEF PageRow, HeldBack
<1>5. ASSUME ~hasty' PROVE WorkStands(history, recovery', page)
  BY <1>2, <1>5, OpenPage DEF WorkStands, Dirty, BaseStands
<1>6. hasty' \in BOOLEAN /\ (~hasty' => ~hasty) /\ losses \in Nat
  BY <1>2, OpenPage DEF Dirty
<1> QED
  BY <1>1, <1>2, <1>3, <1>4, <1>5, <1>6, Holds

-------------------------------------------------------------------------------
(* The authoritative mutation, and a reload's end.                            *)

\* The page when the mutation is over, before it is rendered.
Ended(p, kept, retryable) ==
    LET q == [p EXCEPT !.busy = FALSE, !.apply = IF retryable THEN [@ EXCEPT !.at = "retryable"]
                                                              ELSE NoTask]
    IN  IF kept THEN [q EXCEPT !.conflict = TRUE, !.label = "conflict"]
        ELSE [q EXCEPT !.label = "saved", !.barrier = FALSE]

\* What the end of the mutation changes.
EndedAs(p, kept, retryable, q) ==
    /\ q \in PageRow /\ q.busy = FALSE /\ q.publish = p.publish /\ q.queue = p.queue
    /\ q.rev = p.rev /\ q.saved = p.saved /\ q.draft = p.draft /\ q.timer = p.timer
    /\ q.expected = p.expected /\ q.latest = p.latest /\ q.reloading = p.reloading
    /\ ~retryable => q.apply = NoTask
    /\ retryable => /\ q.apply.at = "retryable" /\ q.apply.id = p.apply.id
                    /\ q.apply.from = p.apply.from
    /\ kept => q.conflict = TRUE /\ q.label = "conflict" /\ q.barrier = p.barrier
    /\ ~kept => q.conflict = p.conflict /\ q.label = "saved" /\ q.barrier = FALSE

\* It changes no more than that.
LEMMA Ends ==
  ASSUME NEW p \in PageRow, NEW kept \in BOOLEAN, NEW retryable \in BOOLEAN
  PROVE  EndedAs(p, kept, retryable, Ended(p, kept, retryable))
<1> DEFINE q == Ended(p, kept, retryable)
<1>1. PICK a : a = IF retryable THEN [p.apply EXCEPT !.at = "retryable"] ELSE NoTask
  OBVIOUS
<1>2. p.apply \in TaskRow({"none", "waiting", "sent", "applied", "retryable"})
  BY DEF PageRow
<1>3. /\ a \in TaskRow({"none", "waiting", "sent", "applied", "retryable"})
      /\ ~retryable => a = NoTask
      /\ retryable => a.at = "retryable" /\ a.id = p.apply.id /\ a.from = p.apply.from
  <2>1. CASE retryable
    BY <1>1, <1>2, <2>1 DEF TaskRow
  <2>2. CASE ~retryable
    BY <1>1, <2>2 DEF TaskRow, NoTask, Drafts
  <2> QED
    BY <2>1, <2>2
<1>4. PICK b : b = [p EXCEPT !.busy = FALSE, !.apply = a]
  OBVIOUS
<1>5. /\ b \in PageRow /\ b.busy = FALSE /\ b.apply = a /\ b.publish = p.publish
      /\ b.queue = p.queue /\ b.rev = p.rev /\ b.saved = p.saved /\ b.draft = p.draft
      /\ b.timer = p.timer /\ b.expected = p.expected /\ b.latest = p.latest
      /\ b.reloading = p.reloading /\ b.conflict = p.conflict /\ b.barrier = p.barrier
  BY <1>3, <1>4 DEF PageRow
<1> HIDE DEF q
<1>6. CASE kept
  <2>1. q = [b EXCEPT !.conflict = TRUE, !.label = "conflict"]
    BY <1>1, <1>4, <1>6 DEF Ended, q
  <2>2. /\ q \in PageRow /\ q.busy = b.busy /\ q.apply = b.apply /\ q.publish = b.publish
        /\ q.queue = b.queue /\ q.rev = b.rev /\ q.saved = b.saved /\ q.draft = b.draft
        /\ q.timer = b.timer /\ q.expected = b.expected /\ q.latest = b.latest
        /\ q.reloading = b.reloading /\ q.conflict = TRUE /\ q.barrier = b.barrier
        /\ q.label = "conflict"
    BY <1>5, <2>1 DEF PageRow, Labels
  <2> QED
    BY <1>3, <1>5, <1>6, <2>2 DEF EndedAs, q
<1>7. CASE ~kept
  <2>1. q = [b EXCEPT !.label = "saved", !.barrier = FALSE]
    BY <1>1, <1>4, <1>7 DEF Ended, q
  <2>2. /\ q \in PageRow /\ q.busy = b.busy /\ q.apply = b.apply /\ q.publish = b.publish
        /\ q.queue = b.queue /\ q.rev = b.rev /\ q.saved = b.saved /\ q.draft = b.draft
        /\ q.timer = b.timer /\ q.expected = b.expected /\ q.latest = b.latest
        /\ q.reloading = b.reloading /\ q.conflict = b.conflict /\ q.barrier = FALSE
        /\ q.label = "saved"
    BY <1>5, <2>1 DEF PageRow, Labels
  <2> QED
    BY <1>3, <1>5, <1>7, <2>2 DEF EndedAs, q
<1> QED
  BY <1>6, <1>7 DEF q

\* It is as sound as before; and when its draft may have been changed, it says so.
LEMMA EndsKept ==
  ASSUME EditorIInv, open, UNCHANGED << open, published, ids, hasty >>, losses' \in Nat,
         NEW h, NEW g, history' = h, receipts' = g, Grown(history, receipts, ids, h, g, ids),
         Sound(h, g, ids, TRUE, page), NEW retryable \in BOOLEAN, EndApply(page, TRUE, retryable),
         page.apply.at # "none",
         ~hasty => /\ page.busy /\ (losses' = 0 => page.rev < Len(h))
                   /\ (page.apply.id \in DOMAIN g =>
                          (losses' = 0 => page.rev < g[page.apply.id]))
  PROVE  EditorIInv'
<1>1. PICK p : p = Ended(page, TRUE, retryable)
  OBVIOUS
<1>2. Displays(p)
  BY <1>1 DEF EndApply, Ended
<1>3. page \in PageRow
  BY OpenPage
<1>4. /\ p \in PageRow /\ p.busy = FALSE /\ p.publish = page.publish /\ p.queue = page.queue
      /\ p.rev = page.rev /\ p.saved = page.saved /\ p.draft = page.draft
      /\ p.expected = page.expected /\ p.latest = page.latest /\ p.reloading = page.reloading
      /\ ~retryable => p.apply = NoTask
      /\ retryable => p.apply.at = "retryable" /\ p.apply.id = page.apply.id
      /\ p.conflict = TRUE /\ p.label = "conflict"
  <2>1. PICK kept \in BOOLEAN : kept = TRUE
    OBVIOUS
  <2>2. p = Ended(page, kept, retryable)
    BY <1>1, <2>1
  <2>3. EndedAs(page, kept, retryable, p)
    BY <1>3, <2>2, Ends
  <2> QED
    BY <2>1, <2>3 DEF EndedAs
<1>5. KeepsBase(page, p)
  BY <1>4 DEF KeepsBase, Asks
<1>6. Sound(h, g, ids, TRUE, p) /\ Sound(history, receipts, ids, TRUE, p)
  BY <1>5, OpenPage, SoundStill
<1>7. recovery' \in Copies /\ WorkStands(history, recovery', p)
  BY <1>2, <1>6, HasCopy
<1>8. WorkStands(h, recovery', p)
  <2>1. Len(history) \in Nat /\ Len(h) \in Nat
    BY OpenPage DEF HistoryStands, Grown
  <2> QED
    BY <1>7, <2>1 DEF WorkStands, Grown
<1>9. ASSUME ~hasty PROVE Ready(p) /\ FearsStand(h, g, losses', p)
  <2>1. PageIsCalm(page) /\ page.busy
    BY <1>9, OpenPage
  <2>2. page.queue = << >> /\ ~(Asks(page) /\ page.publish.tag = page.latest)
    BY <2>1 DEF PageIsCalm, HeldStands, NewestStands
  <2>3. Asks(p) <=> Asks(page)
    BY <1>4 DEF Asks
  <2>4. TagsStand(p)
    BY <1>4, <2>1, <2>3 DEF PageIsCalm, TagsStand
  <2>5. HeldStands(p) /\ BarrierStands(p)
    BY <1>4, <2>1, <2>2 DEF PageIsCalm, HeldStands, BarrierStands, NoTask
  <2>6. NewestStands(p)
    BY <1>4, <2>2, <2>3 DEF NewestStands
  <2>7. Ready(p)
    BY <1>4, <2>4, <2>5, <2>6 DEF Ready
  <2>8. FearsStand(h, g, losses', p)
    BY <1>4, <1>9, <2>2 DEF FearsStand, NoTask
  <2> QED
    BY <2>7, <2>8
<1>10. HistoryStands(h, g, ids) /\ VersionsStand(h, published)
  BY OpenPage, VersionsLater DEF Grown
<1> QED
  BY <1>2, <1>6, <1>7, <1>8, <1>9, <1>10, OpenPage, ShowsThen DEF Displays

\* A mutation that was not sent leaves the page; no calm page waits for that.
LEMMA SendsApply == ASSUME EditorIInv, SendApply PROVE EditorIInv'
<1>1. /\ open /\ page.apply.at = "waiting"
      /\ UNCHANGED << history, receipts, published, open, ids, losses, hasty >>
  BY DEF SendApply, draftVars, countVars
<1>2. hasty
  BY <1>1, OpenPage DEF PageIsCalm, HeldStands
<1>3. CASE page' = [page EXCEPT !.apply.at = "sent"] /\ UNCHANGED recovery
  <2>1. PICK q : q = page'
    OBVIOUS
  <2>2. page \in PageRow
    BY <1>1, OpenPage
  <2>3. q \in PageRow /\ q.apply.id = page.apply.id
    BY <1>3, <2>1, <2>2 DEF PageRow, TaskRow
  <2>4. /\ q.queue = page.queue /\ q.rev = page.rev /\ q.saved = page.saved
        /\ q.publish = page.publish
    BY <1>3, <2>1, <2>2 DEF PageRow
  <2>5. KeepsBase(page, q)
    BY <1>1, <2>3, <2>4 DEF KeepsBase, Asks
  <2>6. Sound(history, receipts, ids, TRUE, q)
    BY <1>1, <2>5, OpenPage, SoundStill
  <2> QED
    BY <1>1, <1>2, <1>3, <2>1, <2>6, OpenPage, PageMoves
<1>4. CASE EndApply(page, FALSE, FALSE)
  <2>1. PICK no \in BOOLEAN : no = FALSE
    OBVIOUS
  <2>2. PICK p : p = Ended(page, no, no)
    OBVIOUS
  <2>3. Displays(p)
    BY <1>4, <2>1, <2>2 DEF EndApply, Ended
  <2>4. /\ p \in PageRow /\ p.publish = page.publish /\ p.queue = page.queue
        /\ p.rev = page.rev /\ p.saved = page.saved /\ p.apply = NoTask
    <3>1. EndedAs(page, no, no, p)
      BY <1>1, <2>2, OpenPage, Ends
    <3> QED
      BY <2>1, <3>1 DEF EndedAs
  <2>5. KeepsBase(page, p)
    BY <2>4 DEF KeepsBase, Asks
  <2>6. Sound(history, receipts, ids, TRUE, p)
    BY <1>1, <2>5, OpenPage, SoundStill
  <2>7. recovery' \in Copies
    BY <2>3, <2>6, HasCopy
  <2> QED
    BY <1>1, <1>2, <2>3, <2>6, <2>7, OpenPage, IsShown DEF Displays
<1> QED
  BY <1>3, <1>4 DEF SendApply

\* The mutation's request or reply is lost.
LEMMA ApplyLost == ASSUME EditorIInv, ApplyIsLost PROVE EditorIInv'
<1>1. /\ open /\ page.apply.at \in {"sent", "applied"} /\ losses' = losses + 1
      /\ UNCHANGED << history, receipts, published, open, ids, hasty >>
      /\ EndApply(page, TRUE, page.draft = page.apply.captured)
  BY DEF ApplyIsLost, draftVars
<1>2. Grown(history, receipts, ids, history, receipts, ids)
  <2>1. Len(history) \in Nat
    BY <1>1, OpenPage DEF HistoryStands
  <2> QED
    BY <1>1, <2>1, OpenPage DEF Grown
<1>3. ASSUME ~hasty PROVE page.busy
  BY <1>1, <1>3, OpenPage DEF PageIsCalm, HeldStands
<1>4. PICK retryable \in BOOLEAN : retryable = (page.draft = page.apply.captured)
  OBVIOUS
<1>5. EndApply(page, TRUE, retryable)
  BY <1>1, <1>4
<1>6. losses' # 0 /\ losses' \in Nat
  BY <1>1, OpenPage
<1> QED
  BY <1>1, <1>2, <1>3, <1>5, <1>6, OpenPage, EndsKept

\* No save that waits is carried out by a step.
CarriesNone(p, g, g2) ==
    \A k \in 1..Len(p.queue) : p.queue[k].id \in DOMAIN g2 => p.queue[k].id \in DOMAIN g

\* New drafts and receipts of other mutations leave the queue as it stands.
LEMMA QueueLater ==
  ASSUME NEW h, NEW g, NEW n \in Nat, NEW h2, NEW g2, NEW n2, NEW p \in PageRow,
         HistoryStands(h, g, n), QueueStands(h, g, n, p), Grown(h, g, n, h2, g2, n2),
         CarriesNone(p, g, g2)
  PROVE  QueueAgrees(h2, g2, p)
<1>1. Len(p.queue) \in Nat /\ p.queue \in Seq(Saves)
  BY PageIsTyped
<1>2. ASSUME NEW k \in 2..Len(p.queue) PROVE p.queue[k].id \notin DOMAIN g2
  <2>1. k \in 1..Len(p.queue)
    BY <1>1
  <2> QED
    BY <2>1 DEF QueueStands, CarriesNone
<1>3. ASSUME p.queue # << >>, p.queue[1].id \in DOMAIN g2
      PROVE  h2[g2[p.queue[1].id]] = p.queue[1].draft
  <2>1. 1 \in 1..Len(p.queue)
    BY <1>1, <1>3
  <2>2. p.queue[1].id \in DOMAIN g
    BY <1>3, <2>1 DEF CarriesNone
  <2>3. /\ g[p.queue[1].id] \in 1..Len(h) /\ g2[p.queue[1].id] = g[p.queue[1].id]
        /\ h[g[p.queue[1].id]] = p.queue[1].draft
    BY <1>3, <2>2 DEF HistoryStands, QueueStands, Grown
  <2> QED
    BY <2>3 DEF Grown
<1> QED
  BY <1>2, <1>3 DEF QueueAgrees

\* The draft shown is still in the history or the copy.
LEMMA WorkLater ==
  ASSUME NEW h, NEW g, NEW n, NEW h2, NEW g2, NEW n2, HistoryStands(h, g, n),
         Grown(h, g, n, h2, g2, n2), NEW c, NEW p, WorkStands(h, c, p)
  PROVE  WorkStands(h2, c, p)
<1>1. Len(h) \in Nat /\ Len(h2) \in Nat
  BY DEF HistoryStands, Grown
<1> QED
  BY <1>1 DEF WorkStands, Grown

\* The server applies the mutation, or recognises it.
LEMMA Carried == ASSUME EditorIInv, Applies PROVE EditorIInv'
<1>1. /\ open /\ page.apply.at = "sent" /\ UNCHANGED << published, open, ids, hasty >>
  BY DEF Applies
<1>2. PICK a : a = page.apply
  OBVIOUS
<1>3. page \in PageRow /\ ids \in Nat /\ HistoryStands(history, receipts, ids)
  BY <1>1, OpenPage
<1>4. a.id \in 1..ids
  BY <1>1, <1>2, <1>3, OpenPage DEF QueueStands
<1>5. PICK d \in Drafts \ {history[Len(history)]} :
        /\ UpdateQuizDraft(a.id, a.from, d)
        /\ \/ /\ ~Stale(a.id, a.from)
              /\ page' = [page EXCEPT !.apply.at = "applied", !.apply.tag = Resulting(a.id, d)]
              /\ UNCHANGED << recovery, losses >>
           \/ Stale(a.id, a.from) /\ EndApply(page, TRUE, FALSE) /\ UNCHANGED losses
           \/ /\ losses' = losses + 1
              /\ EndApply(page, TRUE, page.draft = a.captured)
  BY <1>2 DEF Applies, Current
<1>6. PICK h : h = history'
  OBVIOUS
<1>7. PICK g : g = receipts'
  OBVIOUS
<1>8. Grown(history, receipts, ids, h, g, ids) /\ DOMAIN g \subseteq DOMAIN receipts \cup {a.id}
  BY <1>3, <1>4, <1>5, <1>6, <1>7, Updates
<1>9. Sound(history, receipts, ids, TRUE, page) /\ QueueStands(history, receipts, ids, page)
  BY <1>1, OpenPage
<1>10. \A k \in 1..Len(page.queue) : page.queue[k].id # a.id
  BY <1>2, <1>9 DEF QueueStands
<1>11. Sound(h, g, ids, TRUE, page)
  <2>1. CarriesNone(page, receipts, g)
    BY <1>8, <1>10 DEF CarriesNone
  <2>2. QueueAgrees(h, g, page)
    BY <1>3, <1>8, <1>9, <2>1, QueueLater
  <2> QED
    BY <1>3, <1>8, <1>9, <2>2, SoundLater
<1>12. HistoryStands(h, g, ids) /\ VersionsStand(h, published)
  BY <1>1, <1>3, <1>8, OpenPage, VersionsLater DEF Grown
<1>13. ASSUME ~hasty
       PROVE  /\ page.busy /\ a.from = page.rev /\ PageIsCalm(page) /\ page.queue = << >>
              /\ FearsStand(history, receipts, losses, page) /\ WorkStands(history, recovery, page)
  BY <1>1, <1>2, <1>13, OpenPage DEF PageIsCalm, HeldStands
<1>14. Len(history) \in Nat /\ Len(h) \in Nat /\ Len(history) <= Len(h)
  BY <1>3, <1>8 DEF HistoryStands, Grown
<1>15. page.rev \in 1..Len(history)
  BY <1>1, OpenPage DEF BaseStands
<1>16. CASE /\ ~Stale(a.id, a.from) /\ UNCHANGED << recovery, losses >>
            /\ page' = [page EXCEPT !.apply.at = "applied", !.apply.tag = Resulting(a.id, d)]
  <2>1. PICK r : r = Resulting(a.id, d)
    OBVIOUS
  <2>2. /\ a.id \in DOMAIN g /\ g[a.id] = r /\ r \in 1..Len(h)
        /\ ~Replayed(a.id) => a.from = Len(history)
        /\ Replayed(a.id) => g = receipts
    BY <1>3, <1>4, <1>5, <1>6, <1>7, <1>16, <2>1, Updates
  <2>3. ~Replayed(a.id) => r = Len(history) + 1
    BY <1>5, <2>1 DEF Resulting, Current
  <2>4. PICK q : q = page'
    OBVIOUS
  <2>5. r \in Nat
    BY <1>14, <2>2
  <2>6. q = [page EXCEPT !.apply.at = "applied", !.apply.tag = r]
    BY <1>16, <2>1, <2>4
  <2>7. /\ q \in PageRow /\ q.apply.at = "applied" /\ q.apply.tag = r /\ q.apply.id = a.id
        /\ q.apply.from = a.from
    BY <1>2, <1>3, <2>5, <2>6 DEF PageRow, TaskRow
  <2>8. /\ q.queue = page.queue /\ q.rev = page.rev
        /\ q.saved = page.saved /\ q.draft = page.draft /\ q.busy = page.busy
        /\ q.expected = page.expected /\ q.reloading = page.reloading
        /\ q.barrier = page.barrier /\ q.latest = page.latest /\ q.timer = page.timer
        /\ q.conflict = page.conflict /\ q.label = page.label /\ q.publish = page.publish
    BY <1>3, <2>6 DEF PageRow
  <2>9. KeepsBase(page, q)
    BY <1>1, <1>2, <2>7, <2>8 DEF KeepsBase, Asks
  <2>10. Sound(h, g, ids, TRUE, q)
    BY <1>3, <1>11, <2>9, SoundStill
  <2>11. ASSUME ~hasty PROVE Calmly(h, g, losses, recovery, q)
    <3>1. (Asks(q) <=> Asks(page)) /\ (Dirty(q) <=> Dirty(page))
      BY <2>8 DEF Asks, Dirty
    <3>2. TagsStand(q) /\ TimerStands(q)
      BY <1>13, <2>8, <2>11, <3>1 DEF PageIsCalm, TagsStand, TimerStands
    <3>3. NewestStands(q) /\ LabelStands(q) /\ BarrierStands(q)
      BY <1>13, <2>8, <2>11, <3>1 DEF PageIsCalm, NewestStands, LabelStands, BarrierStands
    <3>4. HeldStands(q)
      BY <1>1, <1>2, <1>13, <2>7, <2>8, <2>11 DEF PageIsCalm, HeldStands
    <3>5. losses = 0 => page.rev < g[a.id]
      <4>1. CASE Replayed(a.id)
        <5>1. a.id \in DOMAIN receipts /\ g = receipts
          BY <2>2, <4>1 DEF Replayed
        <5> QED
          BY <1>1, <1>2, <1>13, <2>11, <5>1 DEF FearsStand
      <4>2. CASE ~Replayed(a.id)
        BY <1>13, <1>14, <2>2, <2>3, <2>11, <4>2
      <4> QED
        BY <4>1, <4>2
    <3>6. page.conflict => (losses = 0 => page.rev < Len(h))
      BY <1>13, <1>14, <1>15, <2>11 DEF FearsStand
    <3>7. FearsStand(h, g, losses, q)
      BY <1>13, <2>2, <2>7, <2>8, <2>11, <3>5, <3>6 DEF FearsStand
    <3>8. WorkStands(h, recovery, page)
      BY <1>3, <1>8, <1>13, <2>11, WorkLater
    <3>9. WorkStands(h, recovery, q)
      BY <2>8, <3>8 DEF WorkStands
    <3> QED
      BY <3>2, <3>3, <3>4, <3>7, <3>9 DEF Calmly, PageIsCalm
  <2> QED
    BY <1>1, <1>6, <1>7, <1>12, <1>16, <2>4, <2>10, <2>11, OpenPage, Moves
<1>17. CASE Stale(a.id, a.from) /\ EndApply(page, TRUE, FALSE) /\ UNCHANGED losses
  <2>1. h = history /\ g = receipts
    BY <1>3, <1>4, <1>5, <1>6, <1>7, <1>17, Updates
  <2>2. a.id \notin DOMAIN g /\ a.from # Len(history)
    BY <1>17, <2>1 DEF Stale, Replayed, Current
  <2>3. ~hasty => page.busy /\ page.rev < Len(h)
    BY <1>13, <1>14, <1>15, <2>1, <2>2
  <2>4. PICK no \in BOOLEAN : no = FALSE
    OBVIOUS
  <2>5. EndApply(page, TRUE, no)
    BY <1>17, <2>4
  <2>6. losses' \in Nat
    BY <1>1, <1>17, OpenPage
  <2> QED
    BY <1>1, <1>2, <1>6, <1>7, <1>8, <1>11, <2>2, <2>3, <2>5, <2>6, EndsKept
<1>18. CASE losses' = losses + 1 /\ EndApply(page, TRUE, page.draft = a.captured)
  <2>1. PICK retryable \in BOOLEAN : retryable = (page.draft = a.captured)
    OBVIOUS
  <2>2. EndApply(page, TRUE, retryable)
    BY <1>18, <2>1
  <2>3. losses' # 0 /\ losses' \in Nat
    BY <1>1, <1>18, OpenPage
  <2> QED
    BY <1>1, <1>6, <1>7, <1>8, <1>11, <1>13, <2>2, <2>3, EndsKept
<1> QED
  BY <1>5, <1>16, <1>17, <1>18

\* A mutation begins.
BegunFrom(p, q) ==
    /\ q \in PageRow /\ q.busy = TRUE /\ q.barrier = TRUE /\ q.label = "saving"
    /\ q.timer = 0 /\ q.apply.at = (IF p.queue = << >> THEN "sent" ELSE "waiting")
    /\ q.apply.id = p.apply.id /\ q.apply.from = p.apply.from
    /\ q.publish = p.publish /\ q.queue = p.queue /\ q.rev = p.rev /\ q.saved = p.saved
    /\ q.draft = p.draft /\ q.expected = p.expected /\ q.latest = p.latest
    /\ q.reloading = p.reloading /\ q.conflict = p.conflict

\* It begins with those fields.
LEMMA BegunAs == ASSUME NEW p \in PageRow, NEW q, q = Begun(p) PROVE BegunFrom(p, q)
<1>1. PICK a : a = [p.apply EXCEPT !.at = IF p.queue = << >> THEN "sent" ELSE "waiting"]
  OBVIOUS
<1>2. p.apply \in TaskRow({"none", "waiting", "sent", "applied", "retryable"})
  BY DEF PageRow
<1>3. /\ a \in TaskRow({"none", "waiting", "sent", "applied", "retryable"})
      /\ a.at = (IF p.queue = << >> THEN "sent" ELSE "waiting")
      /\ a.id = p.apply.id /\ a.from = p.apply.from
  BY <1>1, <1>2 DEF TaskRow
<1>4. q = [p EXCEPT !.barrier = TRUE, !.busy = TRUE, !.label = "saving", !.timer = 0,
                    !.apply = a]
  BY <1>1 DEF Begun
<1>5. q \in PageRow
  <2>1. PICK c : c = [p EXCEPT !.barrier = TRUE, !.busy = TRUE, !.label = "saving"]
    OBVIOUS
  <2>2. c \in PageRow
    BY <2>1 DEF PageRow, Labels
  <2>3. PICK d : d = [c EXCEPT !.timer = 0]
    OBVIOUS
  <2>4. d \in PageRow
    BY <2>2, <2>3 DEF PageRow
  <2>5. q = [d EXCEPT !.apply = a]
    BY <1>4, <2>1, <2>3
  <2> QED
    BY <1>3, <2>4, <2>5 DEF PageRow
<1>6. q.apply = a
  BY <1>4 DEF PageRow
<1> QED
  BY <1>3, <1>4, <1>5, <1>6 DEF PageRow, BegunFrom

\* A mutation begins, or is retried.
LEMMA BeginsApply == ASSUME EditorIInv, BeginApply PROVE EditorIInv'
<1>1. PICK q : q = page'
  OBVIOUS
<1>2. /\ open /\ ~page.busy /\ hasty' = (hasty \/ page.reloading \/ page.queue # << >>)
      /\ UNCHANGED << history, receipts, published, open, recovery, losses >>
  BY DEF BeginApply, draftVars
<1>3. PICK p, n :
        /\ q = Begun(p) /\ ids' = n
        /\ \/ /\ n = ids + 1 /\ ~page.conflict /\ page.label = "saved"
              /\ p = [page EXCEPT !.apply = [at |-> "", id |-> ids + 1, from |-> page.rev,
                                             captured |-> page.saved, tag |-> 0]]
           \/ n = ids /\ page.apply.at = "retryable" /\ page.apply.from = page.rev /\ p = page
  BY <1>1 DEF BeginApply, Retrying
<1>4. /\ page \in PageRow /\ ids \in Nat /\ HistoryStands(history, receipts, ids)
      /\ QueueStands(history, receipts, ids, page) /\ BaseStands(history, page)
  BY <1>2, OpenPage
<1>5. PICK b : b = q.apply
  OBVIOUS
<1>6. /\ q \in PageRow /\ q.busy = TRUE /\ q.barrier = TRUE /\ q.label = "saving"
      /\ q.timer = 0 /\ q.publish = page.publish /\ q.queue = page.queue
      /\ q.rev = page.rev /\ q.saved = page.saved /\ q.draft = page.draft
      /\ q.expected = page.expected /\ q.latest = page.latest
      /\ q.reloading = page.reloading /\ q.conflict = page.conflict
      /\ b.at = (IF page.queue = << >> THEN "sent" ELSE "waiting") /\ b.from = page.rev
      /\ \/ /\ n = ids + 1 /\ b.id = n /\ ~page.conflict /\ page.label = "saved"
         \/ /\ n = ids /\ b.id = page.apply.id /\ page.apply.at = "retryable"
  <2>1. CASE n = ids /\ page.apply.at = "retryable" /\ page.apply.from = page.rev /\ p = page
    <3>1. q = Begun(page)
      BY <1>3, <2>1
    <3>2. BegunFrom(page, q)
      BY <1>4, <3>1, BegunAs
    <3> QED
      BY <1>5, <2>1, <3>2 DEF BegunFrom
  <2>2. CASE /\ n = ids + 1 /\ ~page.conflict /\ page.label = "saved"
             /\ p = [page EXCEPT !.apply = [at |-> "", id |-> ids + 1, from |-> page.rev,
                                            captured |-> page.saved, tag |-> 0]]
    <3>1. PICK at : at = IF page.queue = << >> THEN "sent" ELSE "waiting"
      OBVIOUS
    <3>4. p.queue = page.queue
      BY <1>4, <2>2 DEF PageRow
    <3>5. p.apply = [at |-> "", id |-> ids + 1, from |-> page.rev,
                     captured |-> page.saved, tag |-> 0]
      BY <1>4, <2>2 DEF PageRow
    <3>2. PICK a : a = [p.apply EXCEPT !.at = at]
      OBVIOUS
    <3>3. p.apply \in TaskRow({""}) /\ p.apply.id = ids + 1 /\ p.apply.from = page.rev
      <4>1. page.rev \in Nat /\ page.saved \in Drafts /\ ids + 1 \in Nat /\ 0 \in Nat
        BY <1>4, PageIsTyped
      <4>2. PICK t : t = [at |-> "", id |-> ids + 1, from |-> page.rev,
                          captured |-> page.saved, tag |-> 0]
        OBVIOUS
      <4>3. t \in TaskRow({""})
        BY <4>1, <4>2 DEF TaskRow
      <4>4. t.id = ids + 1 /\ t.from = page.rev
        BY <4>2
      <4>5. p.apply = t
        BY <3>5, <4>2
      <4> QED
        BY <4>3, <4>4, <4>5
    <3>6. /\ a \in TaskRow({"none", "waiting", "sent", "applied", "retryable"})
          /\ a.at = at /\ a.id = ids + 1 /\ a.from = page.rev
      BY <3>1, <3>2, <3>3 DEF TaskRow
    <3>7. q = [p EXCEPT !.barrier = TRUE, !.busy = TRUE, !.label = "saving", !.timer = 0,
                        !.apply = a]
      BY <1>3, <3>1, <3>2, <3>4 DEF Begun
    <3>8. q = [page EXCEPT !.barrier = TRUE, !.busy = TRUE, !.label = "saving", !.timer = 0,
                           !.apply = a]
      BY <1>4, <2>2, <3>7 DEF PageRow
    <3>9. q \in PageRow /\ q.apply = a
      <4>1. PICK c : c = [page EXCEPT !.barrier = TRUE, !.busy = TRUE, !.label = "saving"]
        OBVIOUS
      <4>2. c \in PageRow
        BY <1>4, <4>1 DEF PageRow, Labels
      <4>3. q = [c EXCEPT !.timer = 0, !.apply = a]
        BY <3>8, <4>1
      <4> QED
        BY <3>6, <4>2, <4>3 DEF PageRow
    <3>10. /\ q.busy = TRUE /\ q.barrier = TRUE /\ q.label = "saving"
           /\ q.timer = 0 /\ q.publish = page.publish /\ q.queue = page.queue
           /\ q.rev = page.rev /\ q.saved = page.saved /\ q.draft = page.draft
           /\ q.expected = page.expected /\ q.latest = page.latest
           /\ q.reloading = page.reloading /\ q.conflict = page.conflict
      BY <1>4, <3>8 DEF PageRow
    <3> QED
      BY <1>5, <2>2, <3>1, <3>6, <3>9, <3>10
  <2> QED
    BY <1>3, <2>1, <2>2
<1>7. n \in Nat /\ HistoryStands(history, receipts, n)
  BY <1>4, <1>6 DEF HistoryStands
<1>8. Sound(history, receipts, n, TRUE, q)
  <2>1. QueueStands(history, receipts, n, q)
    <3>1. b.id \in 0..n /\ b.id # 0
      BY <1>4, <1>6 DEF QueueStands
    <3>2. \A k \in 1..Len(page.queue) : page.queue[k].id \in 1..n /\ page.queue[k].id # b.id
      <4>1. \A k \in 1..Len(page.queue) :
              page.queue[k].id \in 1..ids /\ page.queue[k].id # page.apply.id
        BY <1>4 DEF QueueStands
      <4> QED
        BY <1>4, <1>6, <4>1
    <3>3. /\ \A k \in 1..Len(q.queue) : q.queue[k].id \in 1..n /\ q.queue[k].id # q.apply.id
          /\ q.apply.id \in 0..n /\ q.apply.id # 0
      BY <1>5, <1>6, <3>1, <3>2
    <3>4. q.queue = page.queue
      BY <1>6
    <3> QED
      BY <1>4, <3>3, <3>4 DEF QueueStands
  <2>2. BaseStands(history, q)
    BY <1>4, <1>6 DEF BaseStands, Asks
  <2> QED
    BY <1>6, <2>1, <2>2 DEF Sound
<1>9. ASSUME ~hasty' PROVE Calmly(history, receipts, losses, recovery, q)
  <2>1. /\ ~hasty /\ ~page.reloading /\ page.queue = << >> /\ PageIsCalm(page)
        /\ FearsStand(history, receipts, losses, page) /\ WorkStands(history, recovery, page)
    BY <1>2, <1>9, OpenPage
  <2>2. (Asks(q) <=> Asks(page)) /\ (Dirty(q) <=> Dirty(page)) /\ b.at = "sent"
    BY <1>6, <2>1 DEF Asks, Dirty
  <2>3. ~(Asks(page) /\ page.publish.tag = page.latest)
    BY <1>6, <2>1 DEF PageIsCalm, NewestStands, HeldStands
  <2>4. TagsStand(q) /\ TimerStands(q)
    BY <1>6, <2>1, <2>2 DEF PageIsCalm, TagsStand, TimerStands
  <2>5. Len(q.queue) = 0
    BY <1>6, <2>1
  <2>6. NewestStands(q) /\ BarrierStands(q) /\ LabelStands(q)
    BY <1>6, <2>2, <2>3, <2>5 DEF NewestStands, BarrierStands, LabelStands
  <2>7. HeldStands(q)
    BY <1>5, <1>6, <2>1, <2>2 DEF HeldStands
  <2>8. FearsStand(history, receipts, losses, q)
    <3>1. n = ids + 1 => n \notin DOMAIN receipts
      BY <1>4 DEF HistoryStands
    <3>2. b.id \in DOMAIN receipts => (losses = 0 => page.rev < receipts[b.id])
      BY <1>4, <1>6, <2>1, <3>1 DEF FearsStand
    <3> QED
      BY <1>5, <1>6, <2>1, <2>2, <3>2 DEF FearsStand
  <2>9. WorkStands(history, recovery, q)
    BY <1>6, <2>1 DEF WorkStands
  <2> QED
    BY <2>4, <2>6, <2>7, <2>8, <2>9 DEF Calmly, PageIsCalm
<1>10. hasty' \in BOOLEAN
  BY <1>2, <1>4, OpenPage, PageIsTyped
<1> QED
  BY <1>1, <1>2, <1>3, <1>7, <1>8, <1>9, <1>10, OpenPage, PageMoves

\* The page takes over the draft of the server.
LEMMA SoundRebased ==
  ASSUME NEW h, NEW g, NEW n \in Nat, HistoryStands(h, g, n), NEW p, NEW q,
         Sound(h, g, n, TRUE, p), q \in PageRow, q.queue = p.queue, q.publish = p.publish,
         q.apply = p.apply \/ q.apply = NoTask, q.rev = Len(h), q.saved = h[Len(h)]
  PROVE  Sound(h, g, n, TRUE, q)
<1>1. p \in PageRow /\ QueueStands(h, g, n, p) /\ BaseStands(h, p)
  BY DEF Sound
<1>2. QueueStands(h, g, n, q)
  <2>1. /\ q.apply.id \in 0..n /\ (q.apply.at # "none" => q.apply.id # 0)
        /\ \A k \in 1..Len(p.queue) : p.queue[k].id # q.apply.id
    BY <1>1 DEF QueueStands, NoTask
  <2> QED
    BY <1>1, <2>1 DEF QueueStands
<1>3. BaseStands(h, q)
  BY <1>1 DEF BaseStands, Asks, HistoryStands
<1> QED
  BY <1>2, <1>3 DEF Sound

\* What is then on the screen is in the history, and nothing waits for it.
LEMMA TakesOver ==
  ASSUME EditorIInv, open, UNCHANGED << history, receipts, published, open, ids, losses >>,
         hasty' \in BOOLEAN, recovery' = NoCopy,
         NEW p \in PageRow, page' = Rendered(p), p.queue = page.queue, p.publish = page.publish,
         p.barrier = page.barrier, p.latest = page.latest, p.expected = page.expected,
         p.apply = page.apply \/ p.apply = NoTask,
         p.rev = Len(history), p.saved = history[Len(history)],
         p.draft = history[Len(history)], p.label = "saved", p.conflict = FALSE,
         ~hasty' => /\ ~hasty /\ page.queue = << >> /\ ~p.busy /\ ~p.reloading
                    /\ p.apply = NoTask /\ (page.conflict \/ page.busy)
  PROVE  EditorIInv'
<1>1. Sound(history, receipts, ids, TRUE, p)
  BY OpenPage, SoundRebased
<1>2. ~Dirty(p)
  BY DEF Dirty
<1>3. PICK q : q = Rendered(p)
  OBVIOUS
<1>4. q \in PageRow /\ RenderedAs(p, q)
  BY <1>3, Renders
<1>5. KeepsBase(p, q)
  BY <1>4 DEF KeepsBase, RenderedAs, Asks
<1>6. Sound(history, receipts, ids, TRUE, q)
  BY <1>1, <1>5, OpenPage, SoundStill
<1>7. ASSUME ~hasty' PROVE Calmly(history, receipts, losses, recovery', q)
  <2>1. PageIsCalm(page) /\ page.queue = << >> /\ (page.conflict \/ page.busy)
    BY <1>7, OpenPage
  <2>2. (Asks(q) <=> Asks(page)) /\ q.publish = page.publish
    BY <1>4 DEF Asks, RenderedAs
  <2>3. ~(Asks(page) /\ page.publish.tag = page.latest)
    BY <2>1 DEF PageIsCalm, NewestStands
  <2>4. /\ q.timer = 0 /\ q.barrier = FALSE /\ q.conflict = FALSE /\ q.label = "saved"
        /\ q.latest = page.latest /\ q.queue = << >> /\ ~q.busy /\ ~q.reloading
        /\ q.apply = NoTask /\ q.rev = Len(history) /\ q.draft = p.draft /\ q.saved = p.saved
    BY <1>2, <1>4, <1>7, <2>1 DEF RenderedAs
  <2>5. TagsStand(q) /\ TimerStands(q)
    BY <2>1, <2>2, <2>4 DEF PageIsCalm, TagsStand, TimerStands
  <2>6. NewestStands(q)
    <3>1. Len(q.queue) = 0
      BY <2>4
    <3> QED
      BY <2>2, <2>3, <2>4, <3>1 DEF NewestStands
  <2>7. HeldStands(q) /\ BarrierStands(q) /\ LabelStands(q)
    BY <2>4 DEF HeldStands, BarrierStands, LabelStands, NoTask, Dirty
  <2>8. FearsStand(history, receipts, losses, q)
    BY <2>4 DEF FearsStand, NoTask
  <2>9. WorkStands(history, recovery', q)
    BY <2>4, OpenPage DEF WorkStands, HistoryStands
  <2> QED
    BY <2>5, <2>6, <2>7, <2>8, <2>9 DEF Calmly, PageIsCalm
<1> QED
  BY <1>3, <1>6, <1>7, OpenPage, PageMoves

\* The page adopts the result, or holds it for a conflict.
LEMMA Adopts == ASSUME EditorIInv, Adopt PROVE EditorIInv'
<1>1. /\ open /\ page.apply.at = "applied"
      /\ UNCHANGED << history, receipts, published, open, ids, losses, hasty >>
  BY DEF Adopt, draftVars, countVars
<1>2. ASSUME ~hasty
      PROVE  /\ page.busy /\ page.queue = << >> /\ ~page.reloading
             /\ FearsStand(history, receipts, losses, page)
  BY <1>1, <1>2, OpenPage DEF PageIsCalm, HeldStands
<1>3. CASE MayAdopt
  <2>1. PICK d : d = history[Len(history)]
    OBVIOUS
  <2>2. page \in PageRow /\ Len(history) \in Nat /\ d \in Drafts
    BY <1>1, <2>1, OpenPage DEF HistoryStands
  <2>3. PICK p : p = [page EXCEPT !.rev = Len(history), !.saved = d, !.draft = d,
                                  !.label = "saved", !.conflict = FALSE, !.busy = FALSE,
                                  !.apply = NoTask]
    OBVIOUS
  <2>4. page' = Rendered(p) /\ recovery' = NoCopy
    BY <1>3, <2>1, <2>3 DEF Adopt, Current
  <2>5. PICK c : c = [page EXCEPT !.rev = Len(history), !.saved = d, !.draft = d]
    OBVIOUS
  <2>6. /\ c \in PageRow /\ c.queue = page.queue /\ c.publish = page.publish
        /\ c.barrier = page.barrier /\ c.latest = page.latest /\ c.expected = page.expected
        /\ c.rev = Len(history) /\ c.saved = d /\ c.draft = d /\ c.reloading = page.reloading
    BY <2>2, <2>5 DEF PageRow
  <2>7. PICK b : b = [c EXCEPT !.label = "saved", !.conflict = FALSE]
    OBVIOUS
  <2>8. /\ b \in PageRow /\ b.queue = page.queue /\ b.publish = page.publish
        /\ b.barrier = page.barrier /\ b.latest = page.latest /\ b.expected = page.expected
        /\ b.rev = Len(history) /\ b.saved = d /\ b.draft = d /\ b.reloading = page.reloading
        /\ b.label = "saved" /\ b.conflict = FALSE
    BY <2>6, <2>7 DEF PageRow, Labels
  <2>9. p = [b EXCEPT !.busy = FALSE, !.apply = NoTask]
    BY <2>3, <2>5, <2>7
  <2>10. NoTask \in TaskRow({"none", "waiting", "sent", "applied", "retryable"})
    BY DEF NoTask, TaskRow, Drafts
  <2>11. /\ p \in PageRow /\ p.queue = page.queue /\ p.publish = page.publish
         /\ p.barrier = page.barrier /\ p.latest = page.latest /\ p.expected = page.expected
         /\ p.rev = Len(history) /\ p.saved = d /\ p.draft = d /\ p.reloading = page.reloading
         /\ p.label = "saved" /\ p.conflict = FALSE /\ p.busy = FALSE /\ p.apply = NoTask
    BY <2>8, <2>9, <2>10 DEF PageRow
  <2>12. hasty' \in BOOLEAN
    BY <1>1, OpenPage
  <2> QED
    BY <1>1, <1>2, <2>1, <2>4, <2>11, <2>12, TakesOver
<1>4. CASE ~MayAdopt
  <2>1. PICK retryable \in BOOLEAN : retryable = (page.draft = page.apply.captured)
    OBVIOUS
  <2>2. EndApply(page, TRUE, retryable)
    BY <1>4, <2>1 DEF Adopt
  <2>3. Len(history) \in Nat /\ \A i \in DOMAIN receipts : receipts[i] \in 1..Len(history)
    BY <1>1, OpenPage DEF HistoryStands
  <2>4. Grown(history, receipts, ids, history, receipts, ids)
    BY <1>1, <2>3, OpenPage DEF Grown
  <2>5. page.rev \in Nat
    BY <1>1, OpenPage, PageIsTyped
  <2>6. ASSUME ~hasty, losses = 0
        PROVE  page.rev < receipts[page.apply.id] /\ page.rev < Len(history)
    BY <1>1, <1>2, <2>3, <2>5, <2>6 DEF FearsStand
  <2> QED
    BY <1>1, <1>2, <2>2, <2>4, <2>6, OpenPage, EndsKept
<1> QED
  BY <1>3, <1>4

\* The server's draft has been loaded.
LEMMA ReloadEnds == ASSUME EditorIInv, Reloaded PROVE EditorIInv'
<1>1. PICK d : d = history[Len(history)]
  OBVIOUS
<1>2. PICK a : a = IF page.busy THEN page.apply ELSE NoTask
  OBVIOUS
<1>3. PICK p : p = [page EXCEPT !.rev = Len(history), !.saved = d, !.draft = d,
                                !.conflict = FALSE, !.label = "saved", !.apply = a,
                                !.reloading = FALSE]
  OBVIOUS
<1>4. /\ open /\ page.reloading /\ page' = Rendered(p) /\ recovery' = NoCopy /\ Hastily(p)
      /\ UNCHANGED << history, receipts, published, open, ids, losses >>
  BY <1>1, <1>2, <1>3 DEF Reloaded, Current, draftVars, countVars
<1>5. page \in PageRow /\ Len(history) \in Nat /\ d \in Drafts
  BY <1>1, <1>4, OpenPage DEF HistoryStands
<1>6. a \in TaskRow({"none", "waiting", "sent", "applied", "retryable"})
  <2>1. NoTask \in TaskRow({"none", "waiting", "sent", "applied", "retryable"})
    BY DEF NoTask, TaskRow, Drafts
  <2>2. page.apply \in TaskRow({"none", "waiting", "sent", "applied", "retryable"})
    BY <1>5 DEF PageRow
  <2> QED
    BY <1>2, <2>1, <2>2
<1>7. PICK c : c = [page EXCEPT !.rev = Len(history), !.saved = d, !.draft = d]
  OBVIOUS
<1>8. /\ c \in PageRow /\ c.queue = page.queue /\ c.publish = page.publish
      /\ c.barrier = page.barrier /\ c.latest = page.latest /\ c.expected = page.expected
      /\ c.rev = Len(history) /\ c.saved = d /\ c.draft = d /\ c.busy = page.busy
  BY <1>5, <1>7 DEF PageRow
<1>9. PICK b : b = [c EXCEPT !.conflict = FALSE, !.label = "saved"]
  OBVIOUS
<1>10. /\ b \in PageRow /\ b.queue = page.queue /\ b.publish = page.publish
       /\ b.barrier = page.barrier /\ b.latest = page.latest /\ b.expected = page.expected
       /\ b.rev = Len(history) /\ b.saved = d /\ b.draft = d /\ b.busy = page.busy
       /\ b.label = "saved" /\ b.conflict = FALSE
  BY <1>8, <1>9 DEF PageRow, Labels
<1>11. p = [b EXCEPT !.apply = a, !.reloading = FALSE]
  BY <1>3, <1>7, <1>9
<1>12. /\ p \in PageRow /\ p.queue = page.queue /\ p.publish = page.publish
       /\ p.barrier = page.barrier /\ p.latest = page.latest /\ p.expected = page.expected
       /\ p.rev = Len(history) /\ p.saved = d /\ p.draft = d /\ p.busy = page.busy
       /\ p.label = "saved" /\ p.conflict = FALSE /\ p.reloading = FALSE /\ p.apply = a
  BY <1>6, <1>10, <1>11 DEF PageRow
<1>13. hasty' \in BOOLEAN /\ (~hasty' => ~hasty /\ page.queue = << >>)
  BY <1>4, <1>12, OpenPage DEF Hastily, Dirty
<1>14. ASSUME ~hasty PROVE page.conflict /\ ~page.busy
  BY <1>4, <1>14, OpenPage DEF PageIsCalm, HeldStands
<1> QED
  BY <1>1, <1>2, <1>4, <1>12, <1>13, <1>14, TakesOver

-------------------------------------------------------------------------------
(* A page that goes away and comes back, and other people's saves.            *)

\* A page that has just been opened.
FreshPage(p, d, r) ==
    /\ p \in PageRow /\ p.draft = d /\ p.saved = d /\ p.rev = r /\ p.label = "saved"
    /\ p.conflict = FALSE /\ p.barrier = FALSE /\ p.busy = FALSE /\ p.timer = 0
    /\ p.queue = << >> /\ p.publish = NoTask /\ p.apply = NoTask /\ p.reloading = FALSE
    /\ p.latest = 0

\* The page is opened like that.
LEMMA OpenedAs ==
  ASSUME NEW d \in Drafts, NEW r \in Nat, NEW c \in Copies
  PROVE  FreshPage(Opened(d, r, c), d, r)
<1>1. /\ NoTask \in TaskRow({"none", "saving", "asking", "publishing"})
      /\ NoTask \in TaskRow({"none", "waiting", "sent", "applied", "retryable"})
  BY DEF NoTask, TaskRow, Drafts
<1>2. << >> \in Seq(Saves)
  OBVIOUS
<1>3. Opened(d, r, c) \in PageRow
  BY <1>1, <1>2 DEF Opened, PageRow, Labels
<1> QED
  BY <1>3 DEF Opened, FreshPage

\* Nothing waits on it.
LEMMA SoundWhenOpened ==
  ASSUME NEW h, NEW g, NEW n \in Nat, NEW p, p \in PageRow, p.queue = << >>,
         p.publish = NoTask, p.apply = NoTask
  PROVE  /\ QueueStands(h, g, n, p) /\ ~Asks(p)
<1>1. Len(p.queue) = 0
  OBVIOUS
<1> QED
  BY <1>1 DEF QueueStands, NoTask, Asks

\* The page goes away, and its request may be carried out.
LEMMA Leaves == ASSUME EditorIInv, Leave PROVE EditorIInv'
<1>1. open /\ open' = FALSE /\ page' = Opened({}, 0, NoCopy)
  BY DEF Leave
<1>2. UNCHANGED << published, recovery, ids, losses, hasty >>
  BY DEF Leave
<1>3. PICK h : h = history'
  OBVIOUS
<1>4. PICK g : g = receipts'
  OBVIOUS
<1>5. Grown(history, receipts, ids, h, g, ids)
  <2>1. CASE UNCHANGED << history, receipts >>
    <3>1. Len(history) \in Nat
      BY <1>1, OpenPage DEF HistoryStands
    <3> QED
      BY <1>1, <1>3, <1>4, <2>1, <3>1, OpenPage DEF Grown
  <2>2. CASE /\ page.queue # << >>
             /\ UpdateQuizDraft(Head(page.queue).id, page.expected, Head(page.queue).draft)
    <3>1. PICK s : s = Head(page.queue)
      OBVIOUS
    <3>2. page \in PageRow /\ page.queue \in Seq(Saves) /\ Len(page.queue) \in Nat
      BY <1>1, OpenPage, PageIsTyped
    <3>3. 1 \in 1..Len(page.queue) /\ s = page.queue[1]
      BY <2>2, <3>1, <3>2
    <3>4. s.id \in 1..ids /\ s.draft \in Drafts
      BY <1>1, <3>2, <3>3, OpenPage, PageIsTyped DEF QueueStands
    <3>5. UpdateQuizDraft(s.id, page.expected, s.draft)
      BY <2>2, <3>1
    <3> QED
      BY <1>1, <1>3, <1>4, <3>4, <3>5, OpenPage, Updates
  <2> QED
    BY <2>1, <2>2 DEF Leave
<1>6. PICK p : p = Opened({}, 0, NoCopy)
  OBVIOUS
<1>7. {} \in Drafts
  BY DEF Drafts
<1>8. p \in PageRow /\ p.queue = << >> /\ p.publish = NoTask /\ p.apply = NoTask
  <2>1. FreshPage(p, {}, 0)
    BY <1>1, <1>6, <1>7, OpenPage, OpenedAs
  <2> QED
    BY <2>1 DEF FreshPage
<1>9. QueueStands(h, g, ids, p)
  BY <1>1, <1>8, OpenPage, SoundWhenOpened
<1>10. PICK here \in BOOLEAN : here = open'
  BY <1>1
<1>11. Sound(h, g, ids, here, p) /\ ~here
  BY <1>1, <1>6, <1>8, <1>9, <1>10 DEF Sound
<1>12. HistoryStands(h, g, ids) /\ VersionsStand(h, published)
  BY <1>1, <1>5, OpenPage, VersionsLater DEF Grown
<1> QED
  BY <1>1, <1>2, <1>3, <1>4, <1>6, <1>10, <1>11, <1>12, OpenPage DEF EditorIInv

\* It is opened again.
LEMMA Enters == ASSUME EditorIInv, Enter PROVE EditorIInv'
<1>1. PICK c :
        /\ c \in {recovery, NoCopy} /\ recovery' = c
        /\ page' = Opened(history[Len(history)], Len(history), c)
  <2>1. CASE recovery.there /\ recovery.draft # history[Len(history)]
    BY <2>1 DEF Enter, Current
  <2>2. CASE ~(recovery.there /\ recovery.draft # history[Len(history)])
    BY <2>2 DEF Enter, Current
  <2> QED
    BY <2>1, <2>2
<1>2. /\ ~open /\ open' = TRUE /\ hasty' = FALSE
      /\ UNCHANGED << history, receipts, published, ids, losses >>
  BY DEF Enter, draftVars, countVars
<1>3. /\ ids \in Nat /\ losses \in Nat /\ recovery \in Copies /\ NoCopy \in Copies
      /\ HistoryStands(history, receipts, ids) /\ VersionsStand(history, published)
  BY DEF EditorIInv, NoCopy, Copies, Drafts
<1>4. PICK d : d = history[Len(history)]
  OBVIOUS
<1>5. /\ Len(history) \in Nat /\ Len(history) \in 1..Len(history) /\ d \in Drafts
      /\ c \in Copies /\ recovery' \in Copies
  BY <1>1, <1>3, <1>4 DEF HistoryStands
<1>6. PICK q : q = page'
  OBVIOUS
<1>7. /\ q \in PageRow /\ q.draft = d /\ q.saved = d /\ q.rev = Len(history)
      /\ q.label = "saved" /\ q.conflict = FALSE /\ q.barrier = FALSE /\ q.busy = FALSE
      /\ q.timer = 0 /\ q.queue = << >> /\ q.publish = NoTask /\ q.apply = NoTask
      /\ q.reloading = FALSE /\ q.latest = 0
  <2>1. FreshPage(q, d, Len(history))
    BY <1>1, <1>4, <1>5, <1>6, OpenedAs
  <2> QED
    BY <2>1 DEF FreshPage
<1>8. QueueStands(history, receipts, ids, q) /\ ~Asks(q) /\ Len(q.queue) = 0
  BY <1>3, <1>7, SoundWhenOpened
<1>9. Sound(history, receipts, ids, TRUE, q)
  BY <1>4, <1>5, <1>7, <1>8 DEF Sound, BaseStands
<1>10. PageIsCalm(q)
  <2>1. TagsStand(q) /\ TimerStands(q) /\ NewestStands(q)
    BY <1>7, <1>8 DEF TagsStand, TimerStands, NewestStands
  <2>2. HeldStands(q) /\ BarrierStands(q) /\ LabelStands(q)
    BY <1>7 DEF HeldStands, BarrierStands, LabelStands, NoTask, Dirty
  <2> QED
    BY <2>1, <2>2 DEF PageIsCalm
<1>11. FearsStand(history, receipts, losses, q) /\ WorkStands(history, recovery', q)
  BY <1>4, <1>5, <1>7 DEF FearsStand, WorkStands, NoTask
<1> QED
  BY <1>2, <1>3, <1>5, <1>6, <1>9, <1>10, <1>11 DEF EditorIInv, Calmly

\* Another person saves the draft.
LEMMA SavedByOthers == ASSUME EditorIInv, OtherSaves PROVE EditorIInv'
<1>1. PICK d \in Drafts : history' = Append(history, d)
  BY DEF OtherSaves
<1>2. UNCHANGED << receipts, published, open, page, recovery, ids, losses, hasty >>
  BY DEF OtherSaves
<1>3. /\ ids \in Nat /\ losses \in Nat /\ recovery \in Copies /\ open \in BOOLEAN
      /\ HistoryStands(history, receipts, ids) /\ VersionsStand(history, published)
      /\ Sound(history, receipts, ids, open, page) /\ page \in PageRow
      /\ QueueStands(history, receipts, ids, page)
  BY DEF EditorIInv, Sound
<1>4. PICK h : h = history'
  OBVIOUS
<1>5. /\ h \in Seq(Drafts) /\ Len(h) = Len(history) + 1 /\ Len(history) \in Nat
      /\ \A r \in 1..Len(history) : h[r] = history[r]
  BY <1>1, <1>3, <1>4, AppendProperties DEF HistoryStands
<1>6. Grown(history, receipts, ids, h, receipts, ids)
  <2>1. HistoryStands(h, receipts, ids)
    BY <1>3, <1>5 DEF HistoryStands
  <2> QED
    BY <1>3, <1>5, <2>1 DEF Grown
<1>7. Sound(h, receipts, ids, open, page)
  <2>1. QueueAgrees(h, receipts, page)
    BY <1>3, <1>6, QueueLater DEF CarriesNone
  <2> QED
    BY <1>3, <1>6, <2>1, SoundLater
<1>8. VersionsStand(h, published) /\ HistoryStands(h, receipts, ids)
  BY <1>3, <1>6, VersionsLater DEF Grown
<1>9. ASSUME open, ~hasty PROVE Calmly(h, receipts, losses, recovery, page)
  <2>1. Calmly(history, receipts, losses, recovery, page) /\ page.rev \in Nat
    BY <1>3, <1>9, PageIsTyped DEF EditorIInv
  <2>2. FearsStand(h, receipts, losses, page)
    BY <1>5, <2>1 DEF Calmly, FearsStand
  <2>3. WorkStands(h, recovery, page)
    BY <1>3, <1>6, <2>1, WorkLater DEF Calmly
  <2> QED
    BY <2>1, <2>2, <2>3 DEF Calmly
<1> QED
  BY <1>2, <1>3, <1>4, <1>7, <1>8, <1>9 DEF EditorIInv

-------------------------------------------------------------------------------
(* The head of the queue is answered, or its request or the reply is lost.    *)

\* The queue p.queue is its head s and then t.
Split(p, s, t) ==
    /\ Len(p.queue) \in Nat /\ Len(t) \in Nat /\ Len(t) = Len(p.queue) - 1
    /\ 1 \in 1..Len(p.queue) /\ s = p.queue[1] /\ s \in Saves /\ t \in Seq(Saves)
    /\ s.id \in Nat /\ s.tag \in Nat /\ s.draft \in Drafts /\ s.kind \in {"autosave", "publish"}
    /\ \A k \in 1..Len(t) : /\ t[k] = p.queue[k + 1] /\ k + 1 \in 2..Len(p.queue)
                            /\ k + 1 \in 1..Len(p.queue) /\ k + 1 # 1 /\ 1 < k + 1
    /\ \A k \in 1..Len(p.queue) : k = 1 \/ (k - 1 \in 1..Len(t) /\ t[k - 1] = p.queue[k])

\* It is always so.
LEMMA TailFacts ==
  ASSUME NEW p \in PageRow, p.queue # << >>, NEW s, s = Head(p.queue), NEW t, t = Tail(p.queue)
  PROVE  Split(p, s, t)
<1>1. p.queue \in Seq(Saves) /\ Len(p.queue) \in Nat
  BY PageIsTyped
<1>2. /\ Len(t) \in Nat /\ Len(t) = Len(p.queue) - 1 /\ t \in Seq(Saves)
      /\ \A k \in 1..Len(t) : t[k] = p.queue[k + 1]
  BY <1>1, HeadTailProperties
<1>3. 1 \in 1..Len(p.queue) /\ s = p.queue[1]
  BY <1>1
<1>4. /\ s \in Saves /\ s.id \in Nat /\ s.tag \in Nat /\ s.draft \in Drafts
      /\ s.kind \in {"autosave", "publish"}
  BY <1>3, PageIsTyped
<1>5. \A k \in 1..Len(p.queue) : k = 1 \/ (k - 1 \in 1..Len(t) /\ t[k - 1] = p.queue[k])
  BY <1>1, <1>2
<1> QED
  BY <1>1, <1>2, <1>3, <1>4, <1>5 DEF Split

\* It is as sound as before, whatever has become of the head.
LEMMA QueueShortens ==
  ASSUME NEW h, NEW g, NEW n \in Nat, NEW g2, NEW h2, NEW p \in PageRow, NEW q, NEW id,
         QueueStands(h, g, n, p), p.queue # << >>, id = Head(p.queue).id,
         DOMAIN g2 \subseteq DOMAIN g \cup {id},
         q.queue = Tail(p.queue), q.apply = p.apply
  PROVE  QueueStands(h2, g2, n, q)
<1>1. PICK t : t = Tail(p.queue)
  OBVIOUS
<1>2. PICK s : s = Head(p.queue)
  OBVIOUS
<1>3. Split(p, s, t)
  BY <1>1, <1>2, TailFacts
<1>4. q.apply.id \in 0..n /\ (q.apply.at # "none" => q.apply.id # 0)
  BY DEF QueueStands
<1>5. \A k \in 1..Len(t) : t[k].id \in 1..n /\ t[k].id # q.apply.id
  <2>1. ASSUME NEW k \in 1..Len(t) PROVE t[k].id \in 1..n /\ t[k].id # q.apply.id
    <3>1. t[k] = p.queue[k + 1] /\ k + 1 \in 1..Len(p.queue)
      BY <1>3 DEF Split
    <3>2. p.queue[k + 1].id \in 1..n /\ p.queue[k + 1].id # p.apply.id
      BY <3>1 DEF QueueStands
    <3> QED
      BY <3>1, <3>2
  <2> QED
    BY <2>1
<1>6. \A j, k \in 1..Len(t) : t[j].id = t[k].id => j = k
  <2>1. ASSUME NEW j \in 1..Len(t), NEW k \in 1..Len(t), t[j].id = t[k].id PROVE j = k
    <3>1. /\ j + 1 \in 1..Len(p.queue) /\ k + 1 \in 1..Len(p.queue)
          /\ p.queue[j + 1].id = p.queue[k + 1].id
      BY <1>3, <2>1 DEF Split
    <3>2. j + 1 = k + 1
      BY <3>1 DEF QueueStands
    <3> QED
      BY <3>2
  <2> QED
    BY <2>1
<1>7. ASSUME NEW k \in 1..Len(t) PROVE t[k].id \notin DOMAIN g2
  <2>1. t[k].id \notin DOMAIN g
    BY <1>3 DEF QueueStands, Split
  <2>2. t[k].id # id
    <3>1. /\ k + 1 \in 1..Len(p.queue) /\ 1 \in 1..Len(p.queue) /\ k + 1 # 1
          /\ t[k] = p.queue[k + 1] /\ id = p.queue[1].id
      BY <1>2, <1>3 DEF Split
    <3> QED
      BY <3>1 DEF QueueStands
  <2> QED
    BY <2>1, <2>2
<1>8. q.queue # << >> => q.queue[1].id \notin DOMAIN g2
  <2>1. t # << >> => 1 \in 1..Len(t)
    BY <1>3 DEF Split
  <2> QED
    BY <1>1, <1>7, <2>1
<1>9. \A k \in 2..Len(t) : t[k].id \notin DOMAIN g2
  <2>1. \A k \in 2..Len(t) : k \in 1..Len(t)
    BY <1>3 DEF Split
  <2> QED
    BY <1>7, <2>1
<1> QED
  BY <1>1, <1>4, <1>5, <1>6, <1>8, <1>9 DEF QueueStands

\* What its request does at the server, if it arrives.
LEMMA HeadIsSent ==
  ASSUME EditorIInv, open, page.queue # << >>, NEW s, s = Head(page.queue), NEW h, NEW g,
         history' = h, receipts' = g, UpdateQuizDraft(s.id, page.expected, s.draft)
  PROVE  /\ Grown(history, receipts, ids, h, g, ids)
         /\ DOMAIN g \subseteq DOMAIN receipts \cup {s.id}
         /\ Sound(h, g, ids, TRUE, page)
         /\ Stale(s.id, page.expected) => h = history /\ g = receipts
         /\ ~Stale(s.id, page.expected) =>
               /\ Resulting(s.id, s.draft) \in 1..Len(h)
               /\ h[Resulting(s.id, s.draft)] = s.draft
         /\ ~hasty /\ page.conflict => Stale(s.id, page.expected)
<1>1. PICK t : t = Tail(page.queue)
  OBVIOUS
<1>2. /\ page \in PageRow /\ ids \in Nat /\ HistoryStands(history, receipts, ids)
      /\ QueueStands(history, receipts, ids, page) /\ Sound(history, receipts, ids, TRUE, page)
  BY OpenPage
<1>3. Split(page, s, t) /\ Len(page.queue) \in Nat /\ 1 \in 1..Len(page.queue)
      /\ s = page.queue[1]
  <2>1. Split(page, s, t)
    BY <1>1, <1>2, TailFacts
  <2> QED
    BY <2>1 DEF Split
<1>4. s.id \in 1..ids /\ s.draft \in Drafts
  BY <1>2, <1>3 DEF QueueStands, Split
<1>5. PICK r : r = Resulting(s.id, s.draft)
  OBVIOUS
<1>6. /\ Grown(history, receipts, ids, h, g, ids) /\ DOMAIN g \subseteq DOMAIN receipts \cup {s.id}
      /\ Stale(s.id, page.expected) => h = history /\ g = receipts
      /\ ~Stale(s.id, page.expected) =>
            /\ s.id \in DOMAIN g /\ g[s.id] = r /\ r \in 1..Len(h)
            /\ ~Replayed(s.id) => h[r] = s.draft
            /\ Replayed(s.id) => h = history /\ g = receipts
  BY <1>2, <1>4, <1>5, Updates
<1>7. Replayed(s.id) => s.id \in DOMAIN receipts /\ history[receipts[s.id]] = s.draft
  BY <1>2, <1>3 DEF Replayed, QueueStands
<1>8. ~Stale(s.id, page.expected) => r \in 1..Len(h) /\ h[r] = s.draft
  BY <1>6, <1>7
<1>9. QueueAgrees(h, g, page)
  <2>1. \A k \in 2..Len(page.queue) : page.queue[k].id \notin DOMAIN g
    <3>1. ASSUME NEW k \in 2..Len(page.queue) PROVE page.queue[k].id # s.id
      <4>1. k \in 1..Len(page.queue) /\ k # 1
        BY <1>3
      <4> QED
        BY <1>2, <1>3, <4>1 DEF QueueStands
    <3> QED
      BY <1>2, <1>6, <3>1 DEF QueueStands
  <2>2. s.id \in DOMAIN g => h[g[s.id]] = s.draft
    <3>1. CASE Stale(s.id, page.expected)
      BY <1>6, <3>1 DEF Stale, Replayed
    <3>2. CASE ~Stale(s.id, page.expected)
      BY <1>6, <1>8, <3>2
    <3> QED
      BY <3>1, <3>2
  <2> QED
    BY <1>3, <2>1, <2>2 DEF QueueAgrees
<1>10. Sound(h, g, ids, TRUE, page)
  BY <1>2, <1>6, <1>9, SoundLater
<1>11. ASSUME ~hasty, page.conflict PROVE Stale(s.id, page.expected)
  <2>1. page.rev < Len(history) /\ s.id \notin DOMAIN receipts /\ page.expected = page.rev
    BY <1>3, <1>11, OpenPage DEF FearsStand, PageIsCalm, HeldStands
  <2>2. page.rev # Len(history)
    BY <1>2, <2>1, PageIsTyped DEF HistoryStands
  <2> QED
    BY <2>1, <2>2 DEF Stale, Replayed, Current
<1> QED
  BY <1>5, <1>6, <1>8, <1>10, <1>11

\* The order of the edits that remain.
OrderLeft(p, s, t) ==
    /\ ~p.busy /\ s.tag \in Nat /\ p.latest \in Nat /\ s.tag <= p.latest
    /\ s.tag = p.latest => t = << >> /\ p.timer = 0
    /\ ~p.conflict /\ s.tag = p.latest => s.draft = p.draft
    /\ Len(t) \in Nat
    /\ \A k \in 1..Len(t) : s.tag < t[k].tag /\ t[k].tag <= p.latest
    /\ \A j, k \in 1..Len(t) : j < k => t[j].tag < t[k].tag
    /\ ~p.conflict => \A k \in 1..Len(t) : t[k].tag = p.latest => t[k].draft = p.draft
    /\ p.timer # 0 => \A k \in 1..Len(t) : t[k].tag < p.latest
    /\ Asks(p) => /\ p.publish.tag < s.tag /\ p.publish.tag # p.latest
                  /\ p.publish.tag <= p.latest
                  /\ \A k \in 1..Len(t) : p.publish.tag < t[k].tag
    /\ (\E k \in 1..Len(p.queue) : p.queue[k].tag = p.latest) =>
          s.tag = p.latest \/ \E k \in 1..Len(t) : t[k].tag = p.latest
    /\ p.label # "saved"

\* The edits of a calm page are left in that order.
LEMMA CalmShortens ==
  ASSUME NEW p \in PageRow, PageIsCalm(p), p.queue # << >>, NEW s, s = Head(p.queue),
         NEW t, t = Tail(p.queue)
  PROVE  OrderLeft(p, s, t)
<1>1. Split(p, s, t) /\ s.tag \in Nat /\ Len(t) \in Nat
  <2>1. Split(p, s, t)
    BY TailFacts
  <2> QED
    BY <2>1 DEF Split
<1>2. /\ p.latest \in Nat /\ p.publish.tag \in Nat
      /\ \A k \in 1..Len(p.queue) : p.queue[k].tag \in Nat
  BY PageIsTyped
<1>3. /\ \A k \in 1..Len(p.queue) : p.queue[k].tag <= p.latest
      /\ \A j, k \in 1..Len(p.queue) : j < k => p.queue[j].tag < p.queue[k].tag
      /\ Asks(p) => \A k \in 1..Len(p.queue) : p.publish.tag < p.queue[k].tag
      /\ p.timer # 0 => \A k \in 1..Len(p.queue) : p.queue[k].tag < p.latest
      /\ ~p.conflict => \A k \in 1..Len(p.queue) :
            p.queue[k].tag = p.latest => p.queue[k].draft = p.draft
      /\ ~p.busy /\ p.label # "saved"
  BY DEF PageIsCalm, TagsStand, TimerStands, NewestStands, HeldStands, LabelStands
<1>4. s.tag <= p.latest /\ s = p.queue[1] /\ 1 \in 1..Len(p.queue)
  BY <1>1, <1>3 DEF Split
<1>5. ASSUME NEW k \in 1..Len(t)
      PROVE  /\ s.tag < t[k].tag /\ t[k].tag <= p.latest /\ t[k].tag \in Nat
             /\ Asks(p) => p.publish.tag < t[k].tag
             /\ p.timer # 0 => t[k].tag < p.latest
             /\ ~p.conflict => (t[k].tag = p.latest => t[k].draft = p.draft)
  <2>1. /\ t[k] = p.queue[k + 1] /\ k + 1 \in 1..Len(p.queue) /\ 1 < k + 1
        /\ 1 \in 1..Len(p.queue) /\ s = p.queue[1]
    BY <1>1 DEF Split
  <2>2. /\ s.tag < t[k].tag /\ t[k].tag <= p.latest /\ t[k].tag \in Nat
    BY <1>2, <1>3, <2>1
  <2>3. /\ Asks(p) => p.publish.tag < t[k].tag
        /\ p.timer # 0 => t[k].tag < p.latest
        /\ ~p.conflict => (t[k].tag = p.latest => t[k].draft = p.draft)
    BY <1>3, <2>1
  <2> QED
    BY <2>2, <2>3
<1>6. ASSUME NEW j \in 1..Len(t), NEW k \in 1..Len(t), j < k PROVE t[j].tag < t[k].tag
  <2>1. /\ j + 1 \in 1..Len(p.queue) /\ t[j] = p.queue[j + 1]
        /\ k + 1 \in 1..Len(p.queue) /\ t[k] = p.queue[k + 1]
    BY <1>1 DEF Split
  <2>2. PICK a \in 1..Len(p.queue) : a = j + 1
    BY <2>1
  <2>3. PICK b \in 1..Len(p.queue) : b = k + 1
    BY <2>1
  <2>4. a < b
    BY <1>6, <2>2, <2>3
  <2>5. p.queue[a].tag < p.queue[b].tag
    BY <1>3, <2>4
  <2> QED
    BY <2>1, <2>2, <2>3, <2>5
<1>7. ASSUME s.tag = p.latest PROVE t = << >> /\ p.timer = 0
  <2>1. ASSUME t # << >> PROVE FALSE
    <3>1. 1 \in 1..Len(t)
      BY <1>1, <2>1 DEF Split
    <3>2. PICK x : x = t[1].tag
      OBVIOUS
    <3>3. s.tag < x /\ x <= p.latest /\ x \in Nat
      BY <1>5, <3>1, <3>2
    <3> QED
      BY <1>1, <1>2, <1>7, <3>3
  <2>2. p.timer = 0
    <3>1. p.timer # 0 => s.tag < p.latest
      BY <1>3, <1>4
    <3> QED
      BY <1>1, <1>2, <1>7, <3>1
  <2> QED
    BY <2>1, <2>2
<1>8. ASSUME Asks(p)
      PROVE  p.publish.tag < s.tag /\ p.publish.tag # p.latest /\ p.publish.tag <= p.latest
  <2>1. p.publish.tag < s.tag
    BY <1>4, <1>3, <1>8
  <2> QED
    BY <1>1, <1>2, <1>4, <2>1
<1>9. ASSUME NEW k \in 1..Len(p.queue), p.queue[k].tag = p.latest
      PROVE  s.tag = p.latest \/ \E j \in 1..Len(t) : t[j].tag = p.latest
  <2>1. k = 1 \/ (k - 1 \in 1..Len(t) /\ t[k - 1] = p.queue[k])
    BY <1>1 DEF Split
  <2> QED
    BY <1>4, <1>9, <2>1
<1>10. ~p.conflict /\ s.tag = p.latest => s.draft = p.draft
  BY <1>3, <1>4
<1> QED
  BY <1>1, <1>2, <1>3, <1>4, <1>5, <1>6, <1>7, <1>8, <1>9, <1>10 DEF OrderLeft

-------------------------------------------------------------------------------
(* The page after the answer.                                                 *)

\* What the next one in turn leaves.
PassedOn(p, q) ==
    /\ q \in PageRow /\ q.queue = Tail(p.queue) /\ q.expected = q.rev /\ q.draft = p.draft
    /\ q.busy = p.busy /\ q.apply = p.apply /\ q.reloading = p.reloading /\ q.timer = p.timer
    /\ q.barrier = p.barrier /\ q.latest = p.latest

\* What a save that succeeded leaves.
SucceededAs(p, s, r, q) ==
    /\ PassedOn(p, q) /\ q.rev = r /\ q.saved = s.draft /\ q.conflict = p.conflict
    /\ s.kind = "publish" =>
          /\ q.label = p.label /\ q.publish.at = "asking" /\ q.publish.from = r
          /\ q.publish.captured = s.draft /\ q.publish.tag = s.tag
    /\ s.kind # "publish" =>
          q.publish = p.publish /\ q.label = IF s.tag = p.latest THEN "saved" ELSE p.label

\* It leaves no more than that.
LEMMA Succeeds ==
  ASSUME NEW p \in PageRow, p.queue # << >>, NEW s, s = Head(p.queue), NEW r \in Nat,
         NEW q, q = Succeeded(p, r)
  PROVE  SucceededAs(p, s, r, q)
<1>1. PICK t : t = Tail(p.queue)
  OBVIOUS
<1>2. s.draft \in Drafts /\ s.tag \in Nat
  BY <1>1, TailFacts DEF Split
<1>3. PICK b : b = [p EXCEPT !.rev = r, !.saved = s.draft]
  OBVIOUS
<1>4. /\ b \in PageRow /\ b.rev = r /\ b.saved = s.draft /\ b.queue = p.queue
      /\ b.draft = p.draft /\ b.busy = p.busy /\ b.apply = p.apply /\ b.publish = p.publish
      /\ b.reloading = p.reloading /\ b.timer = p.timer /\ b.barrier = p.barrier
      /\ b.conflict = p.conflict /\ b.label = p.label /\ b.latest = p.latest
  BY <1>2, <1>3 DEF PageRow
<1>5. PICK x : x = NextInTurn(b)
  OBVIOUS
<1>6. /\ x \in PageRow /\ x.queue = Tail(b.queue) /\ x.expected = b.rev
      /\ x.draft = b.draft /\ x.saved = b.saved /\ x.rev = b.rev /\ x.busy = b.busy
      /\ x.publish = b.publish /\ x.apply = b.apply /\ x.reloading = b.reloading
      /\ x.timer = b.timer /\ x.barrier = b.barrier /\ x.conflict = b.conflict
      /\ x.label = b.label /\ x.latest = b.latest
  BY <1>4, <1>5, Turns
<1>7. CASE s.kind = "publish"
  <2>1. PICK a : a = [at |-> "asking", id |-> 0, from |-> r, captured |-> s.draft, tag |-> s.tag]
    OBVIOUS
  <2>2. a \in TaskRow({"none", "saving", "asking", "publishing"})
    BY <1>2, <2>1 DEF TaskRow
  <2>3. a.at = "asking" /\ a.from = r /\ a.captured = s.draft /\ a.tag = s.tag
    BY <2>1
  <2>4. q = [x EXCEPT !.publish = a]
    BY <1>3, <1>5, <1>7, <2>1 DEF Succeeded
  <2>5. /\ q \in PageRow /\ q.publish = a /\ q.queue = x.queue /\ q.expected = x.expected
        /\ q.draft = x.draft /\ q.saved = x.saved /\ q.rev = x.rev /\ q.busy = x.busy
        /\ q.apply = x.apply /\ q.reloading = x.reloading /\ q.timer = x.timer
        /\ q.barrier = x.barrier /\ q.conflict = x.conflict /\ q.label = x.label
        /\ q.latest = x.latest
    BY <1>6, <2>2, <2>4 DEF PageRow
  <2> QED
    BY <1>4, <1>6, <1>7, <2>3, <2>5 DEF SucceededAs, PassedOn
<1>8. CASE s.kind # "publish" /\ s.tag = p.latest
  <2>1. q = [x EXCEPT !.label = "saved"]
    BY <1>3, <1>5, <1>8 DEF Succeeded
  <2>2. /\ q \in PageRow /\ q.label = "saved" /\ q.queue = x.queue /\ q.expected = x.expected
        /\ q.draft = x.draft /\ q.saved = x.saved /\ q.rev = x.rev /\ q.busy = x.busy
        /\ q.apply = x.apply /\ q.reloading = x.reloading /\ q.timer = x.timer
        /\ q.barrier = x.barrier /\ q.conflict = x.conflict /\ q.publish = x.publish
        /\ q.latest = x.latest
    BY <1>6, <2>1 DEF PageRow, Labels
  <2> QED
    BY <1>4, <1>6, <1>8, <2>2 DEF SucceededAs, PassedOn
<1>9. CASE s.kind # "publish" /\ s.tag # p.latest
  <2>1. q = x
    BY <1>3, <1>5, <1>9 DEF Succeeded
  <2> QED
    BY <1>4, <1>6, <1>9, <2>1 DEF SucceededAs, PassedOn
<1> QED
  BY <1>7, <1>8, <1>9

\* A save that failed, before the page is rendered.
Forsaken(p, stale) ==
    LET s == Head(p.queue)
        q == IF s.kind = "publish" THEN [NextInTurn(p) EXCEPT !.publish = NoTask]
                                   ELSE NextInTurn(p)
    IN  IF stale /\ (s.kind = "publish" \/ s.tag = p.latest)
        THEN [q EXCEPT !.conflict = TRUE, !.label = "conflict"]
        ELSE IF ~stale /\ s.tag = p.latest THEN [q EXCEPT !.label = "error"] ELSE q

\* What a save that failed leaves.
ForsakenAs(p, s, stale, q) ==
    /\ PassedOn(p, q) /\ q.rev = p.rev /\ q.saved = p.saved
    /\ IF s.kind = "publish" THEN q.publish = NoTask ELSE q.publish = p.publish
    /\ IF stale /\ (s.kind = "publish" \/ s.tag = p.latest)
       THEN q.conflict = TRUE /\ q.label = "conflict"
       ELSE /\ q.conflict = p.conflict
            /\ q.label = IF ~stale /\ s.tag = p.latest THEN "error" ELSE p.label

\* It leaves no more than that.
LEMMA FailsToSave ==
  ASSUME NEW p \in PageRow, p.queue # << >>, NEW s, s = Head(p.queue), NEW stale \in BOOLEAN,
         NEW q, q = Forsaken(p, stale)
  PROVE  ForsakenAs(p, s, stale, q)
<1>1. PICK x : x = NextInTurn(p)
  OBVIOUS
<1>2. /\ x \in PageRow /\ x.queue = Tail(p.queue) /\ x.expected = p.rev
      /\ x.draft = p.draft /\ x.saved = p.saved /\ x.rev = p.rev /\ x.busy = p.busy
      /\ x.publish = p.publish /\ x.apply = p.apply /\ x.reloading = p.reloading
      /\ x.timer = p.timer /\ x.barrier = p.barrier /\ x.conflict = p.conflict
      /\ x.label = p.label /\ x.latest = p.latest
  BY <1>1, Turns
<1>3. PICK b : b = IF s.kind = "publish" THEN [x EXCEPT !.publish = NoTask] ELSE x
  OBVIOUS
<1>4. NoTask \in TaskRow({"none", "saving", "asking", "publishing"})
  BY DEF NoTask, TaskRow, Drafts
<1>5. /\ b \in PageRow /\ b.queue = x.queue /\ b.expected = x.expected
      /\ b.draft = x.draft /\ b.saved = x.saved /\ b.rev = x.rev /\ b.busy = x.busy
      /\ IF s.kind = "publish" THEN b.publish = NoTask ELSE b.publish = x.publish
      /\ b.apply = x.apply /\ b.reloading = x.reloading /\ b.timer = x.timer
      /\ b.barrier = x.barrier /\ b.conflict = x.conflict /\ b.label = x.label
      /\ b.latest = x.latest
  <2>1. CASE s.kind = "publish"
    BY <1>2, <1>3, <1>4, <2>1 DEF PageRow
  <2>2. CASE s.kind # "publish"
    BY <1>2, <1>3, <2>2
  <2> QED
    BY <2>1, <2>2
<1>6. PassedOn(p, b) /\ b.rev = p.rev /\ b.saved = p.saved /\ b.conflict = p.conflict
      /\ b.label = p.label
      /\ IF s.kind = "publish" THEN b.publish = NoTask ELSE b.publish = p.publish
  BY <1>2, <1>5 DEF PassedOn
<1>7. CASE stale /\ (s.kind = "publish" \/ s.tag = p.latest)
  <2>1. q = [b EXCEPT !.conflict = TRUE, !.label = "conflict"]
    BY <1>1, <1>3, <1>7 DEF Forsaken
  <2>2. /\ q \in PageRow /\ q.conflict = TRUE /\ q.label = "conflict" /\ q.rev = b.rev
        /\ q.saved = b.saved /\ q.publish = b.publish /\ q.queue = b.queue
        /\ q.expected = b.expected /\ q.draft = b.draft /\ q.busy = b.busy
        /\ q.apply = b.apply /\ q.reloading = b.reloading /\ q.timer = b.timer
        /\ q.barrier = b.barrier /\ q.latest = b.latest
    BY <1>5, <2>1 DEF PageRow, Labels
  <2>3. PassedOn(p, q)
    BY <1>6, <2>2 DEF PassedOn
  <2> QED
    BY <1>6, <1>7, <2>2, <2>3 DEF ForsakenAs
<1>8. CASE ~(stale /\ (s.kind = "publish" \/ s.tag = p.latest)) /\ ~stale /\ s.tag = p.latest
  <2>1. q = [b EXCEPT !.label = "error"]
    BY <1>1, <1>3, <1>8 DEF Forsaken
  <2>2. /\ q \in PageRow /\ q.conflict = b.conflict /\ q.label = "error" /\ q.rev = b.rev
        /\ q.saved = b.saved /\ q.publish = b.publish /\ q.queue = b.queue
        /\ q.expected = b.expected /\ q.draft = b.draft /\ q.busy = b.busy
        /\ q.apply = b.apply /\ q.reloading = b.reloading /\ q.timer = b.timer
        /\ q.barrier = b.barrier /\ q.latest = b.latest
    BY <1>5, <2>1 DEF PageRow, Labels
  <2>3. PassedOn(p, q)
    BY <1>6, <2>2 DEF PassedOn
  <2> QED
    BY <1>6, <1>8, <2>2, <2>3 DEF ForsakenAs
<1>9. CASE ~(stale /\ (s.kind = "publish" \/ s.tag = p.latest)) /\ ~(~stale /\ s.tag = p.latest)
  <2>1. q = b
    BY <1>1, <1>3, <1>9 DEF Forsaken
  <2> QED
    BY <1>6, <1>9, <2>1 DEF ForsakenAs
<1> QED
  BY <1>7, <1>8, <1>9

-------------------------------------------------------------------------------
(* A page whose head was answered is as sound and as calm as before.          *)

\* The base is that of the answer.
LEMMA SoundPassed ==
  ASSUME NEW h, NEW g, NEW n \in Nat, NEW p, Sound(h, g, n, TRUE, p), p.queue # << >>,
         NEW q, PassedOn(p, q), q.rev \in 1..Len(h), q.saved = h[q.rev],
         Asks(q) => q.publish.from \in 1..Len(h) /\ q.publish.captured = h[q.publish.from]
  PROVE  Sound(h, g, n, TRUE, q)
<1>1. p \in PageRow /\ QueueStands(h, g, n, p)
  BY DEF Sound
<1>2. PICK id : id = Head(p.queue).id
  OBVIOUS
<1>3. QueueStands(h, g, n, q)
  BY <1>1, <1>2, QueueShortens DEF PassedOn
<1>4. BaseStands(h, q)
  BY DEF BaseStands
<1> QED
  BY <1>3, <1>4 DEF Sound, PassedOn

\* A save that succeeded gives the page its draft as the base.
LEMMA SoundSucceeded ==
  ASSUME NEW h, NEW g, NEW n \in Nat, NEW p, Sound(h, g, n, TRUE, p), p.queue # << >>, NEW s,
         NEW r \in 1..Len(h), h[r] = s.draft, NEW q, SucceededAs(p, s, r, q)
  PROVE  Sound(h, g, n, TRUE, q)
<1>1. BaseStands(h, p)
  BY DEF Sound
<1>2. PassedOn(p, q) /\ q.rev = r /\ q.saved = h[q.rev]
  BY DEF SucceededAs
<1>3. ASSUME Asks(q)
      PROVE  q.publish.from \in 1..Len(h) /\ q.publish.captured = h[q.publish.from]
  <2>1. CASE s.kind = "publish"
    BY <2>1 DEF SucceededAs
  <2>2. CASE s.kind # "publish"
    BY <1>1, <1>3, <2>2 DEF SucceededAs, BaseStands, Asks
  <2> QED
    BY <2>1, <2>2
<1> QED
  BY <1>2, <1>3, SoundPassed

\* One that failed leaves the base as it was.
LEMMA SoundForsaken ==
  ASSUME NEW h, NEW g, NEW n \in Nat, NEW p, Sound(h, g, n, TRUE, p), p.queue # << >>, NEW s,
         NEW stale, NEW q, ForsakenAs(p, s, stale, q)
  PROVE  Sound(h, g, n, TRUE, q)
<1>1. BaseStands(h, p)
  BY DEF Sound
<1>2. PassedOn(p, q) /\ q.rev = p.rev /\ q.saved = p.saved
  BY DEF ForsakenAs
<1>3. Asks(q) => Asks(p) /\ q.publish = p.publish
  BY DEF ForsakenAs, Asks, NoTask
<1> QED
  BY <1>1, <1>2, <1>3, SoundPassed DEF BaseStands

\* The page says "Saved" for the newest save only.
LEMMA CalmSucceeded ==
  ASSUME NEW p \in PageRow, PageIsCalm(p), ~p.conflict, p.queue # << >>,
         NEW s, s = Head(p.queue), NEW r, NEW q, SucceededAs(p, s, r, q)
  PROVE  PageIsCalm(q)
<1>1. PICK t : t = Tail(p.queue)
  OBVIOUS
<1>2. OrderLeft(p, s, t) /\ Split(p, s, t)
  BY <1>1, CalmShortens, TailFacts
<1>3. PassedOn(p, q) /\ q.queue = t /\ q.conflict = p.conflict /\ q.saved = s.draft
  BY <1>1 DEF SucceededAs, PassedOn
<1>4. Asks(q) => \/ s.kind = "publish" /\ q.publish.tag = s.tag /\ q.label = p.label
                 \/ s.kind # "publish" /\ Asks(p) /\ q.publish = p.publish
  BY DEF SucceededAs, Asks
<1>5. \/ q.label = "saved" /\ s.kind # "publish" /\ s.tag = p.latest
      \/ q.label = p.label /\ (s.kind = "publish" \/ s.tag # p.latest)
  BY DEF SucceededAs
<1>6. s.kind = "publish" => Asks(q) /\ q.publish.tag = s.tag
  BY DEF SucceededAs, Asks
<1>7. TagsStand(q)
  <2>1. Asks(q) => /\ q.publish.tag <= q.latest
                   /\ \A k \in 1..Len(q.queue) : q.publish.tag < q.queue[k].tag
    BY <1>2, <1>3, <1>4 DEF OrderLeft, PassedOn
  <2> QED
    BY <1>2, <1>3, <2>1 DEF OrderLeft, PassedOn, TagsStand
<1>8. TimerStands(q)
  <2>1. ASSUME q.timer # 0 PROVE s.tag < p.latest /\ q.label = p.label
    BY <1>2, <1>3, <1>5, <2>1 DEF OrderLeft, PassedOn
  <2>2. ASSUME q.timer # 0 PROVE Asks(q) => q.publish.tag < q.latest
    <3>1. Asks(p) => p.publish.tag < p.latest
      BY <1>3, <2>2 DEF PageIsCalm, TimerStands, PassedOn
    <3> QED
      BY <1>3, <1>4, <2>1, <2>2, <3>1 DEF PassedOn
  <2>3. ASSUME q.timer # 0
        PROVE  /\ p.label = "saving" /\ ~p.conflict /\ ~p.barrier
               /\ \A k \in 1..Len(t) : t[k].tag < p.latest
    BY <1>2, <1>3, <2>3 DEF PageIsCalm, TimerStands, PassedOn, OrderLeft
  <2> QED
    BY <1>3, <2>1, <2>2, <2>3 DEF TimerStands, PassedOn
<1>9. NewestStands(q)
  <2>1. \A k \in 1..Len(q.queue) : q.queue[k].tag = q.latest => q.queue[k].draft = q.draft
    BY <1>2, <1>3 DEF OrderLeft, PassedOn
  <2>2. ASSUME Asks(q), q.publish.tag = q.latest
        PROVE  ~q.conflict /\ ~q.busy /\ q.label # "saved" /\ ~Dirty(q)
    <3>1. s.kind = "publish" /\ s.tag = p.latest
      BY <1>2, <1>3, <1>4, <2>2 DEF OrderLeft, PassedOn
    <3> QED
      BY <1>2, <1>3, <1>5, <3>1 DEF OrderLeft, PassedOn, Dirty
  <2> QED
    BY <2>1, <2>2 DEF NewestStands
<1>10. HeldStands(q) /\ BarrierStands(q)
  BY <1>2, <1>3 DEF PageIsCalm, HeldStands, BarrierStands, PassedOn, OrderLeft
<1>11. LabelStands(q)
  <2>1. ASSUME q.label = "saved" PROVE ~Dirty(q) /\ q.queue = << >> /\ ~q.conflict /\ ~q.busy
    <3>1. s.tag = p.latest
      BY <1>2, <1>5, <2>1 DEF OrderLeft
    <3> QED
      BY <1>2, <1>3, <3>1 DEF OrderLeft, PassedOn, Dirty
  <2>2. ASSUME q.label = "saving"
        PROVE  \/ q.timer # 0 \/ q.busy \/ q.reloading
               \/ \E k \in 1..Len(q.queue) : q.queue[k].tag = q.latest
               \/ Asks(q) /\ q.publish.tag = q.latest
    <3>1. p.label = "saving" /\ (s.kind = "publish" \/ s.tag # p.latest)
      BY <1>5, <2>2
    <3>2. \/ p.timer # 0 \/ p.reloading
          \/ \E k \in 1..Len(p.queue) : p.queue[k].tag = p.latest
      BY <1>2, <3>1 DEF PageIsCalm, LabelStands, OrderLeft
    <3>3. \/ p.timer # 0 \/ p.reloading \/ s.tag = p.latest
          \/ \E k \in 1..Len(t) : t[k].tag = p.latest
      BY <1>2, <3>2 DEF OrderLeft
    <3> QED
      BY <1>3, <1>6, <3>1, <3>3 DEF PassedOn
  <2> QED
    BY <2>1, <2>2 DEF LabelStands
<1> QED
  BY <1>7, <1>8, <1>9, <1>10, <1>11 DEF PageIsCalm

\* A save is forsaken without a conflict when a newer one follows, or with an error.
LEMMA CalmForsaken ==
  ASSUME NEW p \in PageRow, PageIsCalm(p), p.queue # << >>, NEW s, s = Head(p.queue),
         NEW stale \in BOOLEAN, ~(stale /\ (s.kind = "publish" \/ s.tag = p.latest)),
         NEW q, ForsakenAs(p, s, stale, q)
  PROVE  PageIsCalm(q)
<1>1. PICK t : t = Tail(p.queue)
  OBVIOUS
<1>2. OrderLeft(p, s, t) /\ Split(p, s, t)
  BY <1>1, CalmShortens, TailFacts
<1>3. /\ PassedOn(p, q) /\ q.queue = t /\ q.conflict = p.conflict /\ q.saved = p.saved
      /\ s.tag = p.latest => q.label = "error"
      /\ s.tag # p.latest => q.label = p.label
      /\ Asks(q) => Asks(p) /\ q.publish = p.publish
  BY <1>1 DEF ForsakenAs, PassedOn, Asks, NoTask
<1>4. TagsStand(q)
  BY <1>2, <1>3 DEF OrderLeft, PassedOn, TagsStand
<1>5. TimerStands(q)
  <2>1. ASSUME q.timer # 0
        PROVE  /\ p.label = "saving" /\ ~p.conflict /\ ~p.barrier
               /\ \A k \in 1..Len(t) : t[k].tag < p.latest
               /\ Asks(p) => p.publish.tag < p.latest
               /\ q.label = p.label
    BY <1>2, <1>3, <2>1 DEF PageIsCalm, TimerStands, PassedOn, OrderLeft
  <2> QED
    BY <1>3, <2>1 DEF TimerStands, PassedOn
<1>6. NewestStands(q)
  BY <1>2, <1>3 DEF OrderLeft, PassedOn, NewestStands
<1>7. HeldStands(q) /\ BarrierStands(q)
  <2>1. q.rev = p.rev
    BY DEF ForsakenAs
  <2> QED
    BY <1>2, <1>3, <2>1 DEF PageIsCalm, HeldStands, BarrierStands, PassedOn, OrderLeft
<1>8. LabelStands(q)
  <2>1. q.label # "saved"
    BY <1>2, <1>3 DEF OrderLeft
  <2>2. ASSUME q.label = "saving"
        PROVE  q.timer # 0 \/ q.reloading \/ \E k \in 1..Len(q.queue) : q.queue[k].tag = q.latest
    <3>1. p.label = "saving" /\ s.tag # p.latest
      BY <1>3, <2>2
    <3>2. \/ p.timer # 0 \/ p.reloading
          \/ \E k \in 1..Len(p.queue) : p.queue[k].tag = p.latest
      BY <1>2, <3>1 DEF PageIsCalm, LabelStands, OrderLeft
    <3>3. p.timer # 0 \/ p.reloading \/ \E k \in 1..Len(t) : t[k].tag = p.latest
      BY <1>2, <3>1, <3>2 DEF OrderLeft
    <3> QED
      BY <1>3, <3>3 DEF PassedOn
  <2> QED
    BY <2>1, <2>2 DEF LabelStands
<1> QED
  BY <1>4, <1>5, <1>6, <1>7, <1>8 DEF PageIsCalm

\* With a conflict, the page is rendered.
LEMMA ReadyForsaken ==
  ASSUME NEW p \in PageRow, PageIsCalm(p), p.queue # << >>, NEW s, s = Head(p.queue),
         NEW stale \in BOOLEAN, stale /\ (s.kind = "publish" \/ s.tag = p.latest),
         NEW q, ForsakenAs(p, s, stale, q)
  PROVE  Ready(q)
<1>1. PICK t : t = Tail(p.queue)
  OBVIOUS
<1>2. OrderLeft(p, s, t) /\ Split(p, s, t)
  BY <1>1, CalmShortens, TailFacts
<1>3. /\ PassedOn(p, q) /\ q.queue = t /\ q.conflict = TRUE /\ q.label = "conflict"
      /\ Asks(q) => Asks(p) /\ q.publish = p.publish
  BY <1>1 DEF ForsakenAs, PassedOn, Asks, NoTask
<1>4. TagsStand(q) /\ NewestStands(q)
  BY <1>2, <1>3 DEF OrderLeft, PassedOn, TagsStand, NewestStands
<1>5. HeldStands(q) /\ BarrierStands(q)
  <2>1. q.rev = p.rev
    BY DEF ForsakenAs
  <2> QED
    BY <1>2, <1>3, <2>1 DEF PageIsCalm, HeldStands, BarrierStands, PassedOn, OrderLeft
<1> QED
  BY <1>3, <1>4, <1>5 DEF Ready

\* What the page fears, after what was sent and after the answer.
LEMMA FearsLater ==
  ASSUME NEW h, NEW g, NEW lost, NEW p \in PageRow, PageIsCalm(p), p.queue # << >>,
         FearsStand(h, g, lost, p), NEW h2, NEW g2, p.conflict => h2 = h /\ g2 = g
  PROVE  FearsStand(h2, g2, lost, p)
<1>1. CASE p.conflict
  BY <1>1
<1>2. CASE ~p.conflict
  <2>1. p.apply.at = "none"
    BY <1>2, PageIsTyped DEF PageIsCalm, HeldStands
  <2> QED
    BY <1>2, <2>1 DEF FearsStand
<1> QED
  BY <1>1, <1>2, PageIsTyped

\* It fears no more than that once the head is gone.
LEMMA FearsPassed ==
  ASSUME NEW h, NEW g, NEW n \in Nat, NEW lost, NEW p \in PageRow, PageIsCalm(p),
         p.queue # << >>, QueueStands(h, g, n, p), FearsStand(h, g, lost, p),
         NEW q, PassedOn(p, q), q.rev = p.rev, NEW more, more = 0 => lost = 0,
         q.conflict => p.rev < Len(h)
  PROVE  FearsStand(h, g, more, q)
<1>1. PICK t : t = Tail(p.queue)
  OBVIOUS
<1>2. PICK s : s = Head(p.queue)
  OBVIOUS
<1>3. OrderLeft(p, s, t) /\ Split(p, s, t) /\ q.queue = t /\ q.apply = p.apply
  BY <1>1, <1>2, CalmShortens, TailFacts DEF PassedOn
<1>4. ASSUME t # << >> PROVE t[1].id \notin DOMAIN g
  <2>1. 1 \in 1..Len(t)
    BY <1>3, <1>4 DEF Split
  <2>2. t[1] = p.queue[1 + 1] /\ 1 + 1 \in 2..Len(p.queue)
    BY <1>3, <2>1 DEF Split
  <2> QED
    BY <2>2 DEF QueueStands
<1>5. p.apply.at # "applied"
  BY <1>3 DEF PageIsCalm, HeldStands, OrderLeft
<1> QED
  BY <1>3, <1>4, <1>5 DEF FearsStand

-------------------------------------------------------------------------------
(* The answer, and its loss.                                                  *)

\* What the request did, if it arrived.
Sent(h, g) ==
    /\ Grown(history, receipts, ids, h, g, ids) /\ Sound(h, g, ids, TRUE, page)
    /\ ~hasty /\ page.conflict => h = history /\ g = receipts

\* A save is answered with a revision of its draft.
LEMMA SaveSucceeds ==
  ASSUME EditorIInv, SaveReturns, ~Stale(Head(page.queue).id, page.expected)
  PROVE  EditorIInv'
<1>1. PICK s : s = Head(page.queue)
  OBVIOUS
<1>2. PICK h : h = history'
  OBVIOUS
<1>3. PICK g : g = receipts'
  OBVIOUS
<1>4. PICK r : r = Resulting(s.id, s.draft)
  OBVIOUS
<1>5. PICK q : q = page'
  OBVIOUS
<1>6. /\ open /\ page.queue # << >> /\ ~Stale(s.id, page.expected)
      /\ UpdateQuizDraft(s.id, page.expected, s.draft) /\ q = Succeeded(page, r)
      /\ recovery' = IF s.kind = "autosave" /\ s.tag = page.latest THEN NoCopy ELSE recovery
      /\ UNCHANGED << published, open, ids, losses, hasty >>
  BY <1>1, <1>4, <1>5 DEF SaveReturns, countVars
<1>7. /\ Grown(history, receipts, ids, h, g, ids) /\ Sound(h, g, ids, TRUE, page)
      /\ r \in 1..Len(h) /\ h[r] = s.draft
      /\ ~(~hasty /\ page.conflict)
  BY <1>1, <1>2, <1>3, <1>4, <1>6, HeadIsSent
<1>8. page \in PageRow /\ ids \in Nat /\ r \in Nat /\ Len(h) \in Nat
  BY <1>6, <1>7, OpenPage DEF Grown, HistoryStands
<1>9. SucceededAs(page, s, r, q)
  BY <1>1, <1>6, <1>8, Succeeds
<1>10. Sound(h, g, ids, TRUE, q)
  BY <1>6, <1>7, <1>8, <1>9, SoundSucceeded
<1>11. HistoryStands(h, g, ids) /\ VersionsStand(h, published)
  BY <1>6, <1>7, <1>8, OpenPage, VersionsLater DEF Grown
<1>12. recovery' \in Copies
  BY <1>6, OpenPage
<1>13. ASSUME ~hasty PROVE Calmly(h, g, losses, recovery', q)
  <2>1. /\ PageIsCalm(page) /\ ~page.conflict /\ WorkStands(history, recovery, page)
        /\ FearsStand(history, receipts, losses, page)
    BY <1>6, <1>7, <1>13, OpenPage
  <2>2. PageIsCalm(q)
    BY <1>1, <1>6, <1>8, <1>9, <2>1, CalmSucceeded
  <2>3. q.draft = page.draft /\ q.apply = page.apply /\ ~q.conflict
    BY <1>9, <2>1 DEF SucceededAs, PassedOn
  <2>4. FearsStand(h, g, losses, q)
    <3>1. page.apply.at = "none"
      BY <1>6, <1>8, <2>1, PageIsTyped DEF PageIsCalm, HeldStands
    <3> QED
      BY <2>3, <3>1 DEF FearsStand
  <2>5. WorkStands(h, recovery', q)
    <3>1. CASE s.tag = page.latest
      <4>1. PICK t : t = Tail(page.queue)
        OBVIOUS
      <4>2. OrderLeft(page, s, t)
        BY <1>1, <1>6, <1>8, <2>1, <4>1, CalmShortens
      <4>3. q.draft = h[r]
        BY <1>7, <2>1, <2>3, <3>1, <4>2 DEF OrderLeft
      <4> QED
        BY <1>7, <4>3 DEF WorkStands
    <3>2. CASE s.tag # page.latest
      <4>1. WorkStands(h, recovery, page)
        BY <1>6, <1>7, <2>1, OpenPage, WorkLater
      <4> QED
        BY <1>6, <2>3, <3>2, <4>1 DEF WorkStands
    <3> QED
      BY <3>1, <3>2
  <2> QED
    BY <2>2, <2>4, <2>5 DEF Calmly
<1> QED
  BY <1>2, <1>3, <1>5, <1>6, <1>10, <1>11, <1>12, <1>13, OpenPage, Moves

\* A save that was refused: it is a conflict, unless a newer one follows.
LEMMA SaveIsRefused ==
  ASSUME EditorIInv, SaveReturns, Stale(Head(page.queue).id, page.expected)
  PROVE  EditorIInv'
<1>1. PICK s : s = Head(page.queue)
  OBVIOUS
<1>2. PICK stale \in BOOLEAN : stale = TRUE
  OBVIOUS
<1>3. PICK q : q = Forsaken(page, stale)
  OBVIOUS
<1>4. /\ open /\ page.queue # << >> /\ Stale(s.id, page.expected)
      /\ UpdateQuizDraft(s.id, page.expected, s.draft) /\ page' = Failed(page, TRUE)
      /\ UNCHANGED << published, open, recovery, ids, losses, hasty >>
  BY <1>1 DEF SaveReturns, countVars
<1>5. UNCHANGED << history, receipts >>
  BY <1>4 DEF UpdateQuizDraft
<1>6. /\ page \in PageRow /\ ids \in Nat /\ Sound(history, receipts, ids, TRUE, page)
      /\ QueueStands(history, receipts, ids, page)
  BY <1>4, OpenPage
<1>7. ForsakenAs(page, s, stale, q)
  BY <1>1, <1>3, <1>4, <1>6, FailsToSave
<1>8. Sound(history, receipts, ids, TRUE, q)
  BY <1>4, <1>6, <1>7, SoundForsaken
<1>9. ASSUME ~hasty
      PROVE  /\ PageIsCalm(page) /\ FearsStand(history, receipts, losses, q)
             /\ WorkStands(history, recovery, q)
  <2>1. /\ PageIsCalm(page) /\ WorkStands(history, recovery, page)
        /\ FearsStand(history, receipts, losses, page)
    BY <1>4, <1>9, OpenPage
  <2>2. page.rev < Len(history)
    <3>1. page.rev # Len(history)
      BY <1>4, <2>1 DEF PageIsCalm, HeldStands, Stale, Current
    <3> QED
      BY <1>4, <3>1, OpenPage DEF BaseStands, HistoryStands
  <2>3. PassedOn(page, q) /\ q.rev = page.rev /\ q.draft = page.draft
    BY <1>7 DEF ForsakenAs, PassedOn
  <2>4. FearsStand(history, receipts, losses, q)
    BY <1>4, <1>6, <2>1, <2>2, <2>3, FearsPassed
  <2>5. WorkStands(history, recovery, q)
    BY <2>1, <2>3 DEF WorkStands
  <2> QED
    BY <2>1, <2>4, <2>5
<1>10. CASE s.kind = "publish" \/ s.tag = page.latest
  <2>1. page' = Rendered(q)
    BY <1>1, <1>2, <1>3, <1>4, <1>10 DEF Failed, Forsaken
  <2>2. ASSUME ~hasty PROVE Ready(q)
    BY <1>1, <1>2, <1>4, <1>6, <1>7, <1>9, <1>10, <2>2, ReadyForsaken
  <2> QED
    BY <1>4, <1>5, <1>8, <1>9, <2>1, <2>2, OpenPage, IsShown
<1>11. CASE ~(s.kind = "publish" \/ s.tag = page.latest)
  <2>1. page' = q
    BY <1>1, <1>2, <1>3, <1>4, <1>11 DEF Failed, Forsaken
  <2>2. ASSUME ~hasty PROVE PageIsCalm(q)
    BY <1>1, <1>4, <1>6, <1>7, <1>9, <1>11, <2>2, CalmForsaken
  <2> QED
    BY <1>4, <1>5, <1>8, <1>9, <2>1, <2>2, OpenPage, PageMoves DEF Calmly
<1> QED
  BY <1>10, <1>11

\* The request or its reply is lost.
LEMMA MayBeSent ==
  ASSUME EditorIInv, SaveIsLost, NEW h, h = history', NEW g, g = receipts'
  PROVE  Sent(h, g)
<1>1. PICK s : s = Head(page.queue)
  OBVIOUS
<1>2. open /\ page.queue # << >>
  BY DEF SaveIsLost
<1>3. CASE UNCHANGED << history, receipts >>
  <2>1. h = history /\ g = receipts
    BY <1>3
  <2>2. /\ HistoryStands(history, receipts, ids) /\ ids \in Nat
        /\ Sound(history, receipts, ids, TRUE, page)
    BY <1>2, OpenPage
  <2>3. Grown(history, receipts, ids, history, receipts, ids)
    <3>1. Len(history) \in Nat
      BY <2>2 DEF HistoryStands
    <3> QED
      BY <2>2, <3>1 DEF Grown
  <2> QED
    BY <2>1, <2>2, <2>3 DEF Sent
<1>4. CASE UpdateQuizDraft(s.id, page.expected, s.draft)
  <2>1. /\ Grown(history, receipts, ids, h, g, ids) /\ Sound(h, g, ids, TRUE, page)
        /\ Stale(s.id, page.expected) => h = history /\ g = receipts
        /\ ~hasty /\ page.conflict => Stale(s.id, page.expected)
    BY <1>1, <1>2, <1>4, HeadIsSent
  <2> QED
    BY <2>1 DEF Sent
<1> QED
  BY <1>1, <1>3, <1>4 DEF SaveIsLost

\* The save is tried again, or its last attempt has failed.
LEMMA SaveLost == ASSUME EditorIInv, SaveIsLost PROVE EditorIInv'
<1>1. PICK s : s = Head(page.queue)
  OBVIOUS
<1>2. PICK h : h = history'
  OBVIOUS
<1>3. PICK g : g = receipts'
  OBVIOUS
<1>4. PICK q : q = page'
  OBVIOUS
<1>5. PICK stale \in BOOLEAN : stale = FALSE
  OBVIOUS
<1>6. PICK more : more = losses + 1
  OBVIOUS
<1>7. /\ open /\ page.queue # << >> /\ losses' = more
      /\ UNCHANGED << published, open, recovery, ids, hasty >>
  BY <1>6 DEF SaveIsLost
<1>8. /\ Grown(history, receipts, ids, h, g, ids) /\ Sound(h, g, ids, TRUE, page)
      /\ ~hasty /\ page.conflict => h = history /\ g = receipts
  <2>1. Sent(h, g)
    BY <1>2, <1>3, MayBeSent
  <2> QED
    BY <2>1 DEF Sent
<1>9. page \in PageRow /\ ids \in Nat /\ more # 0 /\ more \in Nat
  BY <1>6, <1>7, OpenPage
<1>10. HistoryStands(h, g, ids) /\ VersionsStand(h, published)
  BY <1>7, <1>8, <1>9, OpenPage, VersionsLater DEF Grown
<1>11. ASSUME ~hasty
       PROVE  /\ PageIsCalm(page) /\ FearsStand(h, g, losses, page)
              /\ WorkStands(h, recovery, page) /\ QueueStands(h, g, ids, page)
              /\ page.apply.at # "applied"
              /\ page.conflict => page.rev < Len(h)
  <2>1. /\ PageIsCalm(page) /\ WorkStands(history, recovery, page)
        /\ FearsStand(history, receipts, losses, page)
    BY <1>7, <1>11, OpenPage
  <2>2. FearsStand(h, g, losses, page)
    BY <1>7, <1>8, <1>9, <1>11, <2>1, FearsLater
  <2>3. WorkStands(h, recovery, page)
    BY <1>7, <1>8, <2>1, OpenPage, WorkLater
  <2>4. page.apply.at # "applied"
    BY <1>7, <2>1 DEF PageIsCalm, HeldStands
  <2>5. page.conflict => page.rev < Len(h)
    BY <1>7, <2>2 DEF FearsStand
  <2> QED
    BY <1>8, <2>1, <2>2, <2>3, <2>4, <2>5 DEF Sound
<1>12. CASE page.tries + 1 = Attempts
  <2>1. q = Forsaken(page, stale)
    BY <1>4, <1>5, <1>12 DEF SaveIsLost, Failed, Forsaken
  <2>2. ForsakenAs(page, s, stale, q)
    BY <1>1, <1>7, <1>9, <2>1, FailsToSave
  <2>3. Sound(h, g, ids, TRUE, q)
    BY <1>7, <1>8, <1>9, <2>2, SoundForsaken
  <2>4. ASSUME ~hasty PROVE Calmly(h, g, more, recovery, q)
    <3>1. PageIsCalm(q)
      BY <1>1, <1>5, <1>7, <1>9, <1>11, <2>2, <2>4, CalmForsaken
    <3>2. PassedOn(page, q) /\ q.rev = page.rev /\ q.draft = page.draft
          /\ q.conflict = page.conflict
      BY <1>5, <2>2 DEF ForsakenAs, PassedOn
    <3>3. FearsStand(h, g, more, q)
      BY <1>7, <1>9, <1>11, <2>4, <3>2, FearsPassed
    <3>4. WorkStands(h, recovery, q)
      BY <1>11, <2>4, <3>2 DEF WorkStands
    <3> QED
      BY <3>1, <3>3, <3>4 DEF Calmly
  <2> QED
    BY <1>2, <1>3, <1>4, <1>7, <1>9, <1>10, <2>3, <2>4, OpenPage, Moves
<1>13. CASE page.tries + 1 # Attempts
  <2>1. q = [page EXCEPT !.tries = @ + 1]
    BY <1>4, <1>13 DEF SaveIsLost
  <2>2. page.tries + 1 \in Nat
    BY <1>9, PageIsTyped
  <2>3. /\ q \in PageRow /\ q.queue = page.queue /\ q.expected = page.expected
        /\ q.draft = page.draft /\ q.saved = page.saved /\ q.rev = page.rev
        /\ q.busy = page.busy /\ q.publish = page.publish /\ q.apply = page.apply
        /\ q.reloading = page.reloading /\ q.timer = page.timer /\ q.barrier = page.barrier
        /\ q.conflict = page.conflict /\ q.label = page.label /\ q.latest = page.latest
    BY <1>9, <2>1, <2>2 DEF PageRow
  <2>4. Sound(h, g, ids, TRUE, q)
    BY <1>8, <1>9, <2>3, SoundStill DEF KeepsBase, Asks
  <2>5. ASSUME ~hasty PROVE Calmly(h, g, more, recovery, q)
    <3>1. (Asks(q) <=> Asks(page)) /\ (Dirty(q) <=> Dirty(page))
      BY <2>3 DEF Asks, Dirty
    <3>2. PageIsCalm(page)
      BY <1>11, <2>5
    <3>3. TagsStand(q) /\ TimerStands(q) /\ NewestStands(q)
      BY <2>3, <3>1, <3>2 DEF PageIsCalm, TagsStand, TimerStands, NewestStands
    <3>4. HeldStands(q) /\ BarrierStands(q) /\ LabelStands(q)
      BY <2>3, <3>1, <3>2 DEF PageIsCalm, HeldStands, BarrierStands, LabelStands
    <3>5. FearsStand(h, g, more, q)
      BY <1>9, <1>11, <2>3, <2>5 DEF FearsStand
    <3>6. WorkStands(h, recovery, q)
      BY <1>11, <2>3, <2>5 DEF WorkStands
    <3> QED
      BY <3>3, <3>4, <3>5, <3>6 DEF Calmly, PageIsCalm
  <2> QED
    BY <1>2, <1>3, <1>4, <1>7, <1>9, <1>10, <2>4, <2>5, OpenPage, Moves
<1> QED
  BY <1>12, <1>13

-------------------------------------------------------------------------------
(* The editor's invariant.                                                    *)

\* It holds of the page that is opened first ...
LEMMA EditorStarts == ASSUME EditorInit PROVE EditorIInv
<1>1. PICK h : h = history
  OBVIOUS
<1>2. PICK q : q = page
  OBVIOUS
<1>3. PICK d : d = {}
  OBVIOUS
<1>4. /\ h = << d >> /\ receipts = << >> /\ published = {} /\ recovery = NoCopy /\ open = TRUE
      /\ q = Opened(d, 1, NoCopy) /\ ids = 0 /\ losses = 0 /\ hasty = FALSE
  BY <1>1, <1>2, <1>3 DEF EditorInit
<1>5. d \in Drafts /\ NoCopy \in Copies
  BY <1>3 DEF Drafts, NoCopy, Copies
<1>6. h \in Seq(Drafts) /\ Len(h) = 1 /\ h[1] = d
  BY <1>4, <1>5
<1>7. FreshPage(q, d, 1)
  BY <1>4, <1>5, OpenedAs
<1>8. /\ q \in PageRow /\ q.draft = d /\ q.saved = d /\ q.rev = 1
      /\ q.label = "saved" /\ q.conflict = FALSE /\ q.barrier = FALSE /\ q.busy = FALSE
      /\ q.timer = 0 /\ q.queue = << >> /\ q.publish = NoTask /\ q.apply = NoTask
      /\ q.reloading = FALSE /\ q.latest = 0
  BY <1>7 DEF FreshPage
<1>9. HistoryStands(h, receipts, ids) /\ VersionsStand(h, published)
  BY <1>4, <1>6 DEF HistoryStands, VersionsStand
<1>10. QueueStands(h, receipts, ids, q) /\ ~Asks(q) /\ Len(q.queue) = 0
  BY <1>4, <1>8, SoundWhenOpened
<1>11. Sound(h, receipts, ids, open, q)
  BY <1>4, <1>6, <1>8, <1>10 DEF Sound, BaseStands
<1>12. PageIsCalm(q)
  <2>1. TagsStand(q) /\ TimerStands(q) /\ NewestStands(q)
    BY <1>8, <1>10 DEF TagsStand, TimerStands, NewestStands
  <2>2. HeldStands(q) /\ BarrierStands(q) /\ LabelStands(q)
    BY <1>8 DEF HeldStands, BarrierStands, LabelStands, NoTask, Dirty
  <2> QED
    BY <2>1, <2>2 DEF PageIsCalm
<1>13. FearsStand(h, receipts, losses, q) /\ WorkStands(h, recovery, q)
  BY <1>6, <1>8 DEF FearsStand, WorkStands, NoTask
<1> QED
  BY <1>1, <1>2, <1>4, <1>5, <1>9, <1>11, <1>12, <1>13 DEF EditorIInv, Calmly

\* ... and every step keeps it.
LEMMA EditorGoesOn ==
  ASSUME EditorIInv, [EditorNext]_editorVars PROVE EditorIInv'
<1>1. CASE UNCHANGED editorVars
  BY <1>1 DEF EditorIInv, editorVars, draftVars, countVars
<1>2. CASE EditorNext
  <2>1. CASE OtherSaves
    BY <2>1, SavedByOthers
  <2>2. CASE Edit
    BY <2>2, Edits
  <2>3. CASE AutosaveDue
    BY <2>3, Autosaves
  <2>4. CASE Publish
    BY <2>4, Publishes
  <2>5. CASE SaveReturns
    <3>1. CASE Stale(Head(page.queue).id, page.expected)
      BY <2>5, <3>1, SaveIsRefused
    <3>2. CASE ~Stale(Head(page.queue).id, page.expected)
      BY <2>5, <3>2, SaveSucceeds
    <3> QED
      BY <3>1, <3>2
  <2>6. CASE SaveIsLost
    BY <2>6, SaveLost
  <2>7. CASE PublishReads
    BY <2>7, ReadsToPublish
  <2>8. CASE PublishCommits
    BY <2>8, Committed
  <2>9. CASE PublishIsStale
    BY <2>9, PublishStale
  <2>10. CASE PublishIsLost
    BY <2>10, PublishLost
  <2>11. CASE BeginApply
    BY <2>11, BeginsApply
  <2>12. CASE SendApply
    BY <2>12, SendsApply
  <2>13. CASE Applies
    BY <2>13, Carried
  <2>14. CASE ApplyIsLost
    BY <2>14, ApplyLost
  <2>15. CASE Adopt
    BY <2>15, Adopts
  <2>16. CASE ReloadLatestDraft
    BY <2>16, Reloads
  <2>17. CASE Reloaded
    BY <2>17, ReloadEnds
  <2>18. CASE ReloadFails
    BY <2>18, ReloadFailed
  <2>19. CASE Leave
    BY <2>19, Leaves
  <2>20. CASE Enter
    BY <2>20, Enters
  <2>21. CASE RestoreRecoverySnapshot
    BY <2>21, Restores
  <2>22. CASE DismissRecoverySnapshot
    BY <2>22, Dismisses
  <2> QED
    BY <1>2, <2>1, <2>2, <2>3, <2>4, <2>5, <2>6, <2>7, <2>8, <2>9, <2>10, <2>11, <2>12, <2>13,
       <2>14, <2>15, <2>16, <2>17, <2>18, <2>19, <2>20, <2>21, <2>22 DEF EditorNext
<1> QED
  BY <1>1, <1>2

\* It says that no work is lost.
LEMMA EditorIsKept == ASSUME EditorIInv PROVE EditorInv
<1>1. HistoryStands(history, receipts, ids) /\ VersionsStand(history, published)
  BY DEF EditorIInv
<1>2. history \in Seq(Drafts) /\ Len(history) \in Nat /\ Len(history) >= 1
  BY <1>1 DEF HistoryStands
<1>3. page \in PageRow
  BY DEF EditorIInv, Sound
<1>4. open => BaseStands(history, page)
  BY DEF EditorIInv, Sound
<1>5. EditorTypeOK
  <2>1. \A r \in 1..Current : history[r] \in Drafts
    BY <1>2 DEF Current
  <2>2. open \in BOOLEAN /\ hasty \in BOOLEAN /\ recovery.draft \in Drafts
    BY DEF EditorIInv, Copies
  <2>3. page.rev \in 0..Current
    <3>1. CASE open
      BY <1>2, <1>4, <3>1 DEF BaseStands, Current
    <3>2. CASE ~open
      BY <1>2, <3>2 DEF EditorIInv, Sound, Opened, Current
    <3> QED
      BY <3>1, <3>2
  <2> QED
    BY <1>3, <2>1, <2>2, <2>3, PageIsTyped DEF EditorTypeOK, Labels
<1>6. BaseIsTrue
  BY <1>4 DEF BaseIsTrue, BaseStands
<1>7. PublishedAsSeen
  BY <1>1 DEF PublishedAsSeen, VersionsStand
<1>8. CASE ~open \/ hasty
  BY <1>5, <1>6, <1>7, <1>8
     DEF EditorInv, LocalWorkIsKept, PatientlySaved, SavedIsSaved, SavingEnds, ConflictsAreReal
<1>9. CASE open /\ ~hasty
  <2>1. /\ PageIsCalm(page) /\ FearsStand(history, receipts, losses, page)
        /\ WorkStands(history, recovery, page)
    BY <1>9, OpenPage
  <2>2. LocalWorkIsKept
    BY <2>1 DEF LocalWorkIsKept, WorkStands, Current
  <2>3. PatientlySaved
    BY <1>4, <2>1 DEF PatientlySaved, SavedIsSaved, PageIsCalm, LabelStands, Dirty, BaseStands
  <2>4. SavingEnds
    <3>1. ASSUME page.label = "saving"
          PROVE  \/ page.timer # 0 \/ page.queue # << >> \/ page.busy \/ page.reloading
                 \/ page.publish.at # "none"
      <4>1. Asks(page) => page.publish.at # "none"
        BY DEF Asks
      <4>2. (\E k \in 1..Len(page.queue) : page.queue[k].tag = page.latest) => page.queue # << >>
        OBVIOUS
      <4> QED
        BY <2>1, <3>1, <4>1, <4>2 DEF PageIsCalm, LabelStands
    <3> QED
      BY <3>1 DEF SavingEnds
  <2>5. ConflictsAreReal
    BY <2>1 DEF ConflictsAreReal, FearsStand, Current
  <2> QED
    BY <1>5, <1>6, <1>7, <2>2, <2>3, <2>4, <2>5 DEF EditorInv
<1> QED
  BY <1>8, <1>9, OpenPage DEF EditorIInv

\* Whatever other people save, and whichever requests and replies are lost, the page's base is
\* the server's draft, no work is lost, "Saved" is true and what is published is what its
\* author saw.
THEOREM EditorKeepsWork == EditorSpec => []EditorInv
<1>1. EditorInit => EditorIInv
  BY EditorStarts
<1>2. EditorIInv /\ [EditorNext]_editorVars => EditorIInv'
  BY EditorGoesOn
<1>3. EditorIInv => EditorInv
  BY EditorIsKept
<1> QED
  BY <1>1, <1>2, <1>3, PTL DEF EditorSpec

-------------------------------------------------------------------------------
\* Whichever part of the audience's data a behaviour follows, the panel shows the room's chat
\* once nothing is on its way (audience-panel.tsx), and the editor's page keeps its author's
\* work and publishes what was seen (app/quiz/[id]/page.tsx).
THEOREM PagesAreTrue == MCSpec => []PagesInv
<1>1. MCInit => PanelIInv /\ EditorIInv
  BY PanelStarts, EditorStarts DEF MCInit
<1>2. ASSUME PanelIInv, EditorIInv, [MCNext]_<<storeVars, panelVars, editorVars, side>>
      PROVE  PanelIInv' /\ EditorIInv'
  <2>1. [PanelNext]_panelVars /\ [EditorNext]_editorVars
    BY <1>2 DEF MCNext
  <2> QED
    BY <1>2, <2>1, PanelGoesOn, EditorGoesOn
<1>3. PanelIInv /\ EditorIInv => PagesInv
  BY PanelIsKept, EditorIsKept DEF PagesInv
<1> QED
  BY <1>1, <1>2, <1>3, PTL DEF MCSpec
===============================================================================
