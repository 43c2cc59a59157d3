----------------------------- MODULE JoinBatches -----------------------------
(* Guests join a session through one server process, which gathers their     *)
(* requests into batches and commits each batch at once                      *)
(* (apps/server/src/session-service.ts), while other processes change the    *)
(* same session.  Nicknames, avatars and tokens are left out.                *)
EXTENDS Naturals, Sequences, FiniteSets

CONSTANTS
    Guests,             \* requests to join; one that is sent again is another guest
    AudienceLimit,
    MaxJoinBatch,       \* maximumJoinBatchSize
    MaxElsewhere,       \* bound on the changes other processes commit
    MaxJoinFaults       \* bound on leases not granted and commits that fail

ASSUME JoinsAssumption ==
    /\ AudienceLimit \in Nat /\ MaxJoinBatch \in Nat \ {0}
    /\ MaxElsewhere \in Nat /\ MaxJoinFaults \in Nat

VARIABLES
    room,       \* the session in the database: its version, members, kicked members,
                \* and whether it accepts participants
    reply,      \* guest -> what it was told
    batch,      \* joinBatches: the requests waiting for the batch's timer
    dispatched, \* the batches in the mutation queue
    work,       \* the mutation of the first of them: the session it loaded, whom it accepted
    elsewhere, joinFaults,
    intruders   \* history: who became a member while the session accepted nobody

joinVars == << room, reply, batch, dispatched, work, elsewhere, joinFaults, intruders >>

NoWork == [on |-> FALSE, version |-> 0, accepted |-> <<>>]

JoinsInit ==
    /\ room = [version |-> 1, members |-> {}, kicked |-> {}, open |-> TRUE]
    /\ reply = [g \in Guests |-> "none"]
    /\ batch = <<>> /\ dispatched = <<>> /\ work = NoWork
    /\ elsewhere = 0 /\ joinFaults = 0 /\ intruders = {}

Present(r) == r.members \ r.kicked
Those(items) == {items[i] : i \in DOMAIN items}
Told(who, what) == [g \in Guests |-> IF g \in who THEN what ELSE reply[g]]

\* queueJoin: the first request opens a batch and its timer; a full one is dispatched at once.
QueueJoin(g) ==
    /\ reply[g] = "none" /\ reply' = Told({g}, "asked")
    /\ LET items == Append(batch, g)
       IN  IF Len(items) >= MaxJoinBatch
           THEN batch' = <<>> /\ dispatched' = Append(dispatched, items)
           ELSE batch' = items /\ UNCHANGED dispatched
    /\ UNCHANGED << room, work, elsewhere, joinFaults, intruders >>

\* dispatchJoinBatch, by the timer.
JoinTimer ==
    /\ batch # <<>> /\ batch' = <<>> /\ dispatched' = Append(dispatched, batch)
    /\ UNCHANGED << room, reply, work, elsewhere, joinFaults, intruders >>

\* participantCount against the audience limit.
RoomLeft == IF Cardinality(Present(room)) >= AudienceLimit THEN 0
            ELSE AudienceLimit - Cardinality(Present(room))

\* processJoinBatch, to its commit: a closed session refuses the batch, and one that has
\* room for some accepts them in order and refuses the rest at once.
LoadForJoin ==
    /\ dispatched # <<>> /\ ~work.on
    /\ LET items == Head(dispatched)
           n == IF room.open THEN IF RoomLeft < Len(items) THEN RoomLeft ELSE Len(items) ELSE 0
       IN  /\ reply' = Told(Those(SubSeq(items, n + 1, Len(items))), "refused")
           /\ IF n = 0
              THEN dispatched' = Tail(dispatched) /\ UNCHANGED work
              ELSE /\ work' = [on |-> TRUE, version |-> room.version,
                               accepted |-> SubSeq(items, 1, n)]
                   /\ UNCHANGED dispatched
    /\ UNCHANGED << room, batch, elsewhere, joinFaults, intruders >>

\* The batch's mutation ends, and the next one of the session may begin.
Ended == work' = NoWork /\ dispatched' = Tail(dispatched)

Joined(who) == [room EXCEPT !.version = @ + 1, !.members = @ \cup who]

\* The compare-and-swap of commitParticipants.
Wins == work.version = room.version

\* commitParticipants succeeds; all who were accepted are told so.
CommitJoins ==
    /\ work.on /\ Wins
    /\ room' = Joined(Those(work.accepted))
    /\ intruders' = intruders \cup {g \in Those(work.accepted) : ~room.open}
    /\ reply' = Told(Those(work.accepted), "joined") /\ Ended
    /\ UNCHANGED << batch, elsewhere, joinFaults >>

\* A conflict is not retried for a join.
JoinConflict ==
    /\ work.on /\ ~Wins
    /\ reply' = Told(Those(work.accepted), "error") /\ Ended
    /\ UNCHANGED << room, batch, elsewhere, joinFaults, intruders >>

\* The commit fails, or it does not and its reply is lost.
CommitJoinsFails ==
    /\ work.on /\ joinFaults < MaxJoinFaults /\ joinFaults' = joinFaults + 1
    /\ \/ UNCHANGED << room, intruders >>
       \/ /\ Wins /\ room' = Joined(Those(work.accepted))
          /\ intruders' = intruders \cup {g \in Those(work.accepted) : ~room.open}
    /\ reply' = Told(Those(work.accepted), "error") /\ Ended
    /\ UNCHANGED << batch, elsewhere >>

\* The mutation gets no lease, or cannot load the session: nobody of the batch joins.
JoinMutationFails ==
    /\ dispatched # <<>> /\ ~work.on
    /\ joinFaults < MaxJoinFaults /\ joinFaults' = joinFaults + 1
    /\ reply' = Told(Those(Head(dispatched)), "error") /\ dispatched' = Tail(dispatched)
    /\ UNCHANGED << room, batch, work, elsewhere, intruders >>

\* Another process commits: a lock or unlock of the lobby, the start, the end, a kick, or
\* any other mutation.
CommitElsewhere ==
    /\ elsewhere < MaxElsewhere /\ elsewhere' = elsewhere + 1
    /\ \E open \in BOOLEAN, kicked \in SUBSET Present(room) :
          /\ Cardinality(kicked) <= 1
          /\ room' = [room EXCEPT !.version = @ + 1, !.open = open, !.kicked = @ \cup kicked]
    /\ UNCHANGED << reply, batch, dispatched, work, joinFaults, intruders >>

\* It takes a guest of another process under the same rules.
JoinElsewhere(g) ==
    /\ elsewhere < MaxElsewhere /\ elsewhere' = elsewhere + 1
    /\ reply[g] = "none" /\ room.open /\ RoomLeft > 0
    /\ room' = Joined({g}) /\ reply' = Told({g}, "joined")
    /\ UNCHANGED << batch, dispatched, work, joinFaults, intruders >>

JoinsNext ==
    \/ \E g \in Guests : QueueJoin(g) \/ JoinElsewhere(g)
    \/ JoinTimer \/ LoadForJoin \/ CommitJoins \/ JoinConflict
    \/ CommitJoinsFails \/ JoinMutationFails \/ CommitElsewhere

JoinsSpec == JoinsInit /\ [][JoinsNext]_joinVars
-----------------------------------------------------------------------------
JoinsTypeOK ==
    /\ room.members \subseteq Guests /\ room.kicked \subseteq room.members
    /\ room.version \in Nat /\ room.open \in BOOLEAN
    /\ \A g \in Guests : reply[g] \in {"none", "asked", "joined", "refused", "error"}
    /\ Those(batch) \subseteq Guests /\ Len(batch) < MaxJoinBatch

\* Batches that overlap with other processes' joins, kicks and locks never bring a session
\* over its audience limit, nor anybody into it while it accepts nobody.
LimitIsKept == Cardinality(Present(room)) <= AudienceLimit /\ intruders = {}

\* Whoever is told of a join is a member for good, and a refused guest is none, although one
\* batch is accepted in part and its commit may lose to another process.
RepliesAreTrue ==
    \A g \in Guests : /\ reply[g] = "joined" => g \in room.members
                      /\ reply[g] = "refused" => g \notin room.members

\* Every request that has no reply yet is in exactly one batch that is still to be answered.
NoJoinIsForgotten ==
    \A g \in Guests : reply[g] = "asked" <=>
        \/ g \in Those(batch)
        \/ work.on /\ g \in Those(work.accepted)
        \/ \E i \in DOMAIN dispatched : (i > 1 \/ ~work.on) /\ g \in Those(dispatched[i])

JoinsInv == JoinsTypeOK /\ LimitIsKept /\ RepliesAreTrue /\ NoJoinIsForgotten
==============================================================================
