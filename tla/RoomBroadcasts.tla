--------------------------- MODULE RoomBroadcasts ---------------------------
(* How the sockets of a Presentation's room get to see its changes: the      *)
(* throttled broadcasts of every server process, each with one broadcast in  *)
(* flight and at most one queued behind it                                   *)
(* (apps/server/src/presentation-realtime.ts).                               *)
EXTENDS Naturals, FiniteSets

CONSTANTS
    Servers, Sockets,
    Home,               \* socket -> the server process it is connected to
    MaxChanges,         \* bound on the changes of the room
    MaxMishaps          \* bound on failed broadcasts, lost sockets and closed servers

ASSUME BroadcastsAssumption ==
    Home \in [Sockets -> Servers] /\ MaxChanges \in Nat /\ MaxMishaps \in Nat

VARIABLES
    version,    \* how many changes a reader of the room sees
    socket,     \* per socket: "out", "binding", "joined" or "in", and what it shows
    server,     \* per process: its timers and its broadcast in flight
    skipped,    \* processes whose last broadcast failed or was dropped
    mishaps

broadcastVars == << version, socket, server, skipped, mishaps >>

Idle == [stage |-> "none", to |-> {}, read |-> 0]

BroadcastsInit ==
    /\ version = 0 /\ skipped = {} /\ mishaps = 0
    /\ socket = [s \in Sockets |-> [is |-> "out", shows |-> 0]]
    /\ server = [p \in Servers |-> [open |-> TRUE, timer |-> FALSE, recent |-> FALSE,
                                    queued |-> FALSE, flight |-> Idle]]

InRoom == {s \in Sockets : socket[s].is \in {"joined", "in"}}

\* fetchSockets has the process's own sockets at once, the others' when they answer.
Begun(p) == [stage |-> "begun", to |-> {s \in InRoom : Home[s] = p}, read |-> 0]

\* broadcastSession.
Broadcast(p, sv) ==
    IF sv.flight # Idle THEN [sv EXCEPT !.queued = TRUE] ELSE [sv EXCEPT !.flight = Begun(p)]

\* scheduleBroadcast.
Scheduled(p, immediate) ==
    LET sv == IF immediate THEN [server[p] EXCEPT !.timer = FALSE] ELSE server[p]
    IN IF ~sv.open THEN server[p]
       ELSE IF immediate \/ ~sv.recent THEN Broadcast(p, [sv EXCEPT !.recent = TRUE])
       ELSE [sv EXCEPT !.timer = TRUE]

\* A command, an answer or a join by HTTP commits; its process broadcasts it.
Change(p, immediate) ==
    /\ version < MaxChanges /\ server[p].open
    /\ version' = version + 1
    /\ server' = [server EXCEPT ![p] = Scheduled(p, immediate)]
    /\ UNCHANGED << socket, skipped, mishaps >>

\* presentation.sync.request reads the room before the socket is in it.
Sync(s) ==
    /\ socket[s].is = "out" /\ server[Home[s]].open
    /\ socket' = [socket EXCEPT ![s] = [is |-> "binding", shows |-> version]]
    /\ UNCHANGED << version, server, skipped, mishaps >>

\* bindPresentationIdentity.
Bind(s) ==
    /\ socket[s].is = "binding" /\ socket' = [socket EXCEPT ![s].is = "joined"]
    /\ UNCHANGED << version, server, skipped, mishaps >>

\* The acknowledgement, and the broadcast of the presence.
Acknowledge(s) ==
    /\ socket[s].is = "joined" /\ socket' = [socket EXCEPT ![s].is = "in"]
    /\ server' = [server EXCEPT ![Home[s]] = Scheduled(Home[s], FALSE)]
    /\ UNCHANGED << version, skipped, mishaps >>

\* The socket disconnects; so does one that is refused.
Leave(s) ==
    /\ socket[s].is # "out" /\ mishaps < MaxMishaps /\ mishaps' = mishaps + 1
    /\ socket' = [socket EXCEPT ![s].is = "out"]
    /\ server' = [server EXCEPT ![Home[s]] = Scheduled(Home[s], FALSE)]
    /\ UNCHANGED << version, skipped >>

IntervalPasses(p) ==
    /\ server[p].recent /\ server' = [server EXCEPT ![p].recent = FALSE]
    /\ UNCHANGED << version, socket, skipped, mishaps >>

\* The timer of scheduleBroadcast or scheduleBroadcastRetry.
TimerFires(p) ==
    /\ server[p].timer
    /\ server' = [server EXCEPT ![p] =
                     Broadcast(p, [@ EXCEPT !.timer = FALSE, !.recent = TRUE])]
    /\ UNCHANGED << version, socket, skipped, mishaps >>

\* The other processes answer fetchSockets.
Fetch(p) ==
    /\ server[p].flight.stage = "begun"
    /\ server' = [server EXCEPT ![p].flight.stage = "fetched",
                                ![p].flight.to = @ \cup {s \in InRoom : Home[s] # p}]
    /\ skipped' = IF server[p].open THEN skipped \ {p} ELSE skipped
    /\ UNCHANGED << version, socket, mishaps >>

\* syncManyByCredentialHash reads the room once for all of them.
Read(p) ==
    /\ server[p].flight.stage = "fetched" /\ server[p].flight.to # {}
    /\ server' = [server EXCEPT ![p].flight.stage = "read", ![p].flight.read = version]
    /\ UNCHANGED << version, socket, skipped, mishaps >>

\* Mistaken: the broadcast queued behind this one is forgotten.
NextForgotten(p, sv) == [sv EXCEPT !.flight = Idle, !.queued = FALSE]

\* The loop of broadcastSession.
NextBroadcast(p, sv) ==
    IF sv.queued /\ sv.open THEN [sv EXCEPT !.flight = Begun(p), !.queued = FALSE]
    ELSE [sv EXCEPT !.flight = Idle, !.queued = FALSE]

\* A socket shows the newest snapshot it has received.
Emit(p) ==
    /\ server[p].flight.stage = "read"
    /\ LET f == server[p].flight
       IN socket' = [s \in Sockets |->
              IF s \in f.to \cap InRoom /\ f.read > socket[s].shows
              THEN [socket[s] EXCEPT !.shows = f.read] ELSE socket[s]]
    /\ server' = [server EXCEPT ![p] = NextBroadcast(p, @)]
    /\ UNCHANGED << version, skipped, mishaps >>

\* clearRoomBroadcasts drops what has been scheduled since, too.
Cleared(sv) == [sv EXCEPT !.timer = FALSE, !.recent = FALSE, !.queued = FALSE]

\* The broadcast finds nobody.
NobodyThere(p) ==
    /\ server[p].flight.stage = "fetched" /\ server[p].flight.to = {}
    /\ server' = [server EXCEPT ![p] = NextBroadcast(p, Cleared(@))]
    /\ skipped' = IF server[p].timer \/ server[p].queued THEN skipped \cup {p} ELSE skipped
    /\ UNCHANGED << version, socket, mishaps >>

\* The reading was not consistent (PresentationBroadcastConsistencyError): once more.
Inconsistent(p) ==
    /\ server[p].flight.stage = "fetched" /\ server[p].flight.to # {}
    /\ mishaps < MaxMishaps /\ mishaps' = mishaps + 1
    /\ server' = [server EXCEPT ![p] = NextBroadcast(p, [@ EXCEPT !.timer = server[p].open])]
    /\ UNCHANGED << version, socket, skipped >>

\* Any other failure is only counted.
BroadcastFails(p) ==
    /\ server[p].flight # Idle /\ mishaps < MaxMishaps /\ mishaps' = mishaps + 1
    /\ server' = [server EXCEPT ![p] = NextBroadcast(p, @)]
    /\ skipped' = skipped \cup {p}
    /\ UNCHANGED << version, socket >>

\* close, and with it the process's sockets.
Close(p) ==
    /\ server[p].open /\ mishaps < MaxMishaps /\ mishaps' = mishaps + 1
    /\ server' = [server EXCEPT ![p] = [Cleared(@) EXCEPT !.open = FALSE]]
    /\ socket' = [s \in Sockets |-> IF Home[s] = p THEN [socket[s] EXCEPT !.is = "out"]
                                    ELSE socket[s]]
    /\ skipped' = skipped \cup {p}
    /\ UNCHANGED version

Steps(p) ==
    TimerFires(p) \/ Fetch(p) \/ Read(p) \/ Emit(p) \/ NobodyThere(p)

BroadcastsNext ==
    \/ \E p \in Servers :
          \/ Steps(p) \/ IntervalPasses(p) \/ Inconsistent(p) \/ BroadcastFails(p) \/ Close(p)
          \/ \E immediate \in BOOLEAN : Change(p, immediate)
    \/ \E s \in Sockets : Sync(s) \/ Bind(s) \/ Acknowledge(s) \/ Leave(s)

\* What the event loop and the other processes give; nobody has to change the room.
BroadcastsFairness ==
    /\ \A p \in Servers : WF_broadcastVars(Steps(p))
    /\ \A s \in Sockets : WF_broadcastVars(Bind(s) \/ Acknowledge(s))

BroadcastsSpec == BroadcastsInit /\ [][BroadcastsNext]_broadcastVars /\ BroadcastsFairness

-------------------------------------------------------------------------------

BroadcastsTypeOK ==
    /\ version \in 0..MaxChanges /\ mishaps \in 0..MaxMishaps /\ skipped \subseteq Servers
    /\ socket \in [Sockets -> [is : {"out", "binding", "joined", "in"}, shows : 0..MaxChanges]]
    /\ server \in [Servers ->
          [open : BOOLEAN, timer : BOOLEAN, recent : BOOLEAN, queued : BOOLEAN,
           flight : [stage : {"none", "begun", "fetched", "read"}, to : SUBSET Sockets,
                     read : 0..MaxChanges]]]

Quiet(p) == server[p].flight = Idle /\ ~server[p].timer

\* When no broadcast is in flight or due, and none failed or was dropped, every socket
\* in the room shows its latest change: coalescing loses nothing.
QuietRoomIsCurrent ==
    skipped = {} /\ (\A p \in Servers : Quiet(p)) =>
        \A s \in Sockets : socket[s].is = "in" => socket[s].shows = version

BroadcastsInv == BroadcastsTypeOK /\ QuietRoomIsCurrent

\* A socket that is behind gets the latest change, leaves, or a broadcast has failed.
SocketsCatchUp ==
    \A s \in Sockets :
        socket[s].is = "in" /\ socket[s].shows < version ~>
            socket[s].is = "out" \/ socket[s].shows = version \/ skipped # {}
===============================================================================
