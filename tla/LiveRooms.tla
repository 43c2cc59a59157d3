------------------------------ MODULE LiveRooms ------------------------------
(***************************************************************************)
(* The codes of live rooms, and the end of the rooms that hold them: the   *)
(* creation of Rounds (reservation in Redis, checks, claim in PostgreSQL)  *)
(* and of Presentations, expiry, finishing, deletion, the deletion of the  *)
(* workspace, and the mutations and loads that meet them on any of several *)
(* server processes (apps/server/src/session-service.ts,                   *)
(* presentation-session-service.ts, routes.ts, retention.ts,               *)
(* packages/db/src/postgres.ts, migrations/034_live_room_code_registry.sql). *)
(*                                                                         *)
(* Versions of a session are the subject of SessionWriters: here a Redis   *)
(* entry may be used by a process, or be behind the process's own.  A      *)
(* mutation keeps its lease until it ends or its process dies.             *)
(***************************************************************************)
EXTENDS Integers

CONSTANTS Rounds, Presentations, Codes,
          Processes,   \* server processes
          Nobody, NoCode,
          MaxTries,    \* codes one creation tries (12 and 20 in the code)
          MaxFaults    \* bound on crashes, failed calls and lost replies

ASSUME LiveRoomsAssumption ==
    /\ Rounds \cap Presentations = {}
    /\ Nobody \notin Rounds \cup Presentations
    /\ NoCode \notin Codes
    /\ MaxTries \in Nat /\ MaxFaults \in Nat

VARIABLES
    rooms,        \* game_sessions and presentation_live_sessions
    registry,     \* live_room_codes: per code, whose it is and whether it was released
    reservation,  \* Redis: who reserved a code
    cached,       \* Rounds whose state is in Redis
    active,       \* per process: the Rounds in its memory
    creation,     \* per room: where its creation is, on which process, with which code
    mutation,     \* per Round: where the mutation that holds its lease is
    loader,       \* per process: a load outside the mutation queue
    fenced,       \* the workspace's deletion_started_at is set
    account,      \* the deletion of the account
    unloaded,     \* Rounds deleted by a mutation that could not load them
    faults

room_vars == << rooms, registry >>
redis == << reservation, cached >>
work == << creation, mutation, loader, account >>

liveRoomsVars == << room_vars, redis, active, work, fenced, unloaded, faults >>

Rooms == Rounds \cup Presentations

NoEntry == [room |-> Nobody, released |-> FALSE]

Exists(r) == rooms[r].status \in {"active", "ended"}

Live(r) == rooms[r].status = "active" /\ ~rooms[r].expired

InUse(kind, c) == \E r \in kind : Live(r) /\ rooms[r].code = c

Fault == faults < MaxFaults /\ faults' = faults + 1

\* A call that may fail.
MayFail(ok) == IF ok THEN UNCHANGED faults ELSE Fault

-----------------------------------------------------------------------------
(* The database *)

\* getLiveRoomCode: the registry's entry of the code is in force.
InForce(c) ==
    registry[c].room # Nobody /\ ~registry[c].released /\ ~rooms[registry[c].room].expired

\* Mistaken: a code is only compared with the rooms of its own kind.
ClaimableByKind(r, c) ==
    /\ InForce(c) => (r \in Rounds) # (registry[c].room \in Rounds)
    /\ r \in Rounds => \A q \in Rounds : rooms[q].status = "active" => rooms[q].code # c

\* claim_live_room_code and game_sessions_active_code_uq: the registry has no entry of the code
\* that is in force, and no Round that has not ended, expired or not, has it.
Claimable(r, c) ==
    /\ ~InForce(c)
    /\ r \in Rounds => \A q \in Rounds : rooms[q].status = "active" => rooms[q].code # c

\* The insertion of a room, with its trigger.
Inserted(r, c) ==
    /\ rooms' = [rooms EXCEPT ![r] = [status |-> "active", code |-> c, expired |-> FALSE]]
    /\ registry' = [registry EXCEPT ![c] = [room |-> r, released |-> FALSE]]

OwnEntry(r) == registry[rooms[r].code].room = r

\* update_round_room_code, update_presentation_room_code
Ended(r) ==
    /\ rooms' = [rooms EXCEPT ![r].status = "ended"]
    /\ registry' = IF OwnEntry(r) THEN [registry EXCEPT ![rooms[r].code].released = TRUE]
                   ELSE registry

\* The deletion of rooms, with delete_round_room_code, delete_presentation_room_code or the
\* workspace's cascade.
Deleted(gone) ==
    /\ rooms' = [r \in Rooms |-> IF r \in gone /\ Exists(r)
                                 THEN [rooms[r] EXCEPT !.status = "deleted", !.code = NoCode]
                                 ELSE rooms[r]]
    /\ registry' = [c \in Codes |-> IF registry[c].room \in gone THEN NoEntry ELSE registry[c]]

\* releaseSessionCode: by its owner only.
ReservationsWithout(r) ==
    [c \in Codes |-> IF reservation[c] = r THEN Nobody ELSE reservation[c]]

Forget(p, r) == active' = [active EXCEPT ![p] = @ \ {r}]
Remember(p, r) == active' = [active EXCEPT ![p] = @ \cup {r}]

-----------------------------------------------------------------------------
(* Creation *)

NoCreation == [pc |-> "idle", code |-> NoCode, tries |-> 0, p |-> Nobody]

CreationAt(r, pc) == creation[r].pc = pc
CreationGoes(r, pc) ==
    creation' = [creation EXCEPT ![r] = IF pc \in {"done", "failed"}
                                        THEN [NoCreation EXCEPT !.pc = pc]
                                        ELSE [@ EXCEPT !.pc = pc]]

\* The next of the codes it tries.
TryAnother(r) ==
    creation' = [creation EXCEPT ![r] = [NoCreation EXCEPT !.tries = creation[r].tries + 1]]

MayTry(r) == CreationAt(r, "idle") /\ creation[r].tries < MaxTries

\* createSession: reserveSessionCode
ReserveSessionCode(p, r, c) ==
    /\ MayTry(r)
    /\ IF reservation[c] = Nobody
       THEN /\ reservation' = [reservation EXCEPT ![c] = r]
            /\ creation' = [creation EXCEPT ![r].pc = "reserved", ![r].p = p, ![r].code = c]
       ELSE TryAnother(r) /\ UNCHANGED reservation
    /\ UNCHANGED << room_vars, cached, active, mutation, loader, account, fenced, unloaded,
                    faults >>

\* The reservation's reply is lost, whether or not it was made.
ReserveUnknown(r, c) ==
    /\ MayTry(r) /\ CreationGoes(r, "failed")
    /\ reservation' = [reservation EXCEPT ![c] = IF @ = Nobody THEN r ELSE @]
    /\ Fault
    /\ UNCHANGED << room_vars, cached, active, mutation, loader, account, fenced, unloaded >>

\* getSessionByCode, then otherLiveRoomCodeInUse
CheckCode(r) ==
    /\ \/ /\ CreationAt(r, "reserved")
          /\ CreationGoes(r, IF InUse(Rounds, creation[r].code) THEN "again" ELSE "checked")
       \/ /\ CreationAt(r, "checked")
          /\ CreationGoes(r, IF InUse(Presentations, creation[r].code) THEN "again"
                             ELSE "create")
    /\ UNCHANGED << room_vars, redis, active, mutation, loader, account, fenced, unloaded, faults >>

\* repository.createSession, under the lease "create"
CreateSession(r) ==
    LET c == creation[r].code
    IN  /\ CreationAt(r, "create")
        /\ IF ~fenced /\ Claimable(r, c)
           THEN Inserted(r, c) /\ CreationGoes(r, "publish")
           ELSE UNCHANGED room_vars /\ CreationGoes(r, IF fenced THEN "undo" ELSE "again")
        /\ UNCHANGED << redis, active, mutation, loader, account, fenced, unloaded, faults >>

\* A call before the session is retained fails; the insertion may have been made.
CreateFails(r) ==
    /\ creation[r].pc \in {"reserved", "checked", "create"}
    /\ \/ UNCHANGED room_vars
       \/ /\ CreationAt(r, "create") /\ ~fenced /\ Claimable(r, creation[r].code)
          /\ Inserted(r, creation[r].code)
    /\ CreationGoes(r, "undo")
    /\ Fault
    /\ UNCHANGED << redis, active, mutation, loader, account, fenced, unloaded >>

\* The session's state goes to Redis, or not, and to the process's map.
PublishSession(r) ==
    /\ CreationAt(r, "publish") /\ CreationGoes(r, "done")
    /\ \E ok \in BOOLEAN : MayFail(ok) /\ cached' = IF ok THEN cached \cup {r} ELSE cached
    /\ Remember(creation[r].p, r)
    /\ UNCHANGED << room_vars, reservation, mutation, loader, account, fenced, unloaded >>

\* The finally clause of an attempt that did not retain its code; a failure is swallowed.
ReleaseReservation(r) ==
    /\ creation[r].pc \in {"again", "undo"}
    /\ \E ok \in BOOLEAN : MayFail(ok)
                           /\ reservation' = IF ok THEN ReservationsWithout(r) ELSE reservation
    /\ IF CreationAt(r, "again") THEN TryAnother(r) ELSE CreationGoes(r, "failed")
    /\ UNCHANGED << room_vars, cached, active, mutation, loader, account, fenced, unloaded >>

\* uniqueJoinCode
ChooseJoinCode(p, r, c) ==
    /\ r \in Presentations /\ MayTry(r)
    /\ IF InForce(c)
       THEN TryAnother(r)
       ELSE creation' = [creation EXCEPT ![r].pc = "insert", ![r].p = p, ![r].code = c]
    /\ UNCHANGED << room_vars, redis, active, mutation, loader, account, fenced, unloaded, faults >>

\* createSessionWithCredential; a lost reply leaves the room there.
CreateSessionWithCredential(r) ==
    LET c == creation[r].code
    IN  /\ CreationAt(r, "insert")
        /\ IF ~fenced /\ Claimable(r, c)
           THEN \E ok \in BOOLEAN : /\ MayFail(ok) /\ Inserted(r, c)
                                    /\ CreationGoes(r, IF ok THEN "done" ELSE "failed")
           ELSE /\ UNCHANGED << room_vars, faults >>
                /\ IF fenced THEN CreationGoes(r, "failed") ELSE TryAnother(r)
        /\ UNCHANGED << redis, active, mutation, loader, account, fenced, unloaded >>

-----------------------------------------------------------------------------
(* Mutations of a Round: a command, its finish or its deletion *)

NoMutation == [pc |-> "idle", op |-> "command", p |-> Nobody]

MutationAt(r, pc) == mutation[r].pc = pc
MutationGoes(r, pc) ==
    mutation' = [mutation EXCEPT ![r] = IF pc = "idle" THEN NoMutation ELSE [@ EXCEPT !.pc = pc]]

\* What the work does when there is no session: only a deletion goes on.
WithoutSession(r) == IF mutation[r].op = "delete" THEN "blind" ELSE "idle"

LeaseFreeFor(r) == MutationAt(r, "idle") /\ ~CreationAt(r, "publish")

BeginMutation(p, r, op) ==
    /\ LeaseFreeFor(r) /\ rooms[r].status # "absent"
    /\ mutation' = [mutation EXCEPT ![r] = [pc |-> "entry", op |-> op, p |-> p]]
    /\ UNCHANGED << room_vars, redis, active, creation, loader, account, fenced, unloaded, faults >>

\* loadSessionForMutation: the process's entry, its expiry and the workspace's fence.
UseEntry(r) ==
    LET p == mutation[r].p
    IN  /\ MutationAt(r, "entry")
        /\ IF r \in active[p] /\ (rooms[r].expired \/ fenced)
           THEN /\ Forget(p, r) /\ cached' = cached \ {r}
                /\ MutationGoes(r, WithoutSession(r))
           ELSE /\ UNCHANGED << active, cached >>
                /\ MutationGoes(r, IF r \in active[p] THEN "cache" ELSE "load")
        /\ UNCHANGED << room_vars, reservation, creation, loader, account, fenced, unloaded,
                        faults >>

\* The state in Redis is used when it is at least as new as the entry.
UseCached(r) ==
    /\ MutationAt(r, "cache")
    /\ \E pc \in {"load"} \cup (IF r \in cached THEN {"work"} ELSE {}) : MutationGoes(r, pc)
    /\ UNCHANGED << room_vars, redis, active, creation, loader, account, fenced, unloaded, faults >>

\* loadSession: the row, then the fence.
LoadRow(r) ==
    LET p == mutation[r].p
    IN  /\ MutationAt(r, "load")
        /\ IF Exists(r) /\ ~rooms[r].expired
           THEN UNCHANGED << active, cached >> /\ MutationGoes(r, "fence")
           ELSE /\ Forget(p, r) /\ MutationGoes(r, WithoutSession(r))
                /\ cached' = IF Exists(r) THEN cached \ {r} ELSE cached
        /\ UNCHANGED << room_vars, reservation, creation, loader, account, fenced, unloaded,
                        faults >>

CheckFence(r) ==
    LET p == mutation[r].p
    IN  /\ MutationAt(r, "fence")
        /\ IF fenced
           THEN /\ Forget(p, r) /\ cached' = cached \ {r}
                /\ MutationGoes(r, WithoutSession(r))
           ELSE Remember(p, r) /\ UNCHANGED cached /\ MutationGoes(r, "work")
        /\ UNCHANGED << room_vars, reservation, creation, loader, account, fenced, unloaded,
                        faults >>

\* save: refused by the fence, in conflict with a row that is gone (the work then runs again
\* from the database), or committed and published to Redis, if it can be reached, and to the map.
SaveSession(r) ==
    LET p == mutation[r].p
    IN  /\ MutationAt(r, "work") /\ mutation[r].op # "delete"
        /\ \/ /\ fenced /\ MutationGoes(r, "idle")
              /\ UNCHANGED << room_vars, cached, active, faults >>
           \/ /\ ~fenced /\ ~Exists(r) /\ Forget(p, r) /\ MutationGoes(r, "load")
              /\ UNCHANGED << room_vars, cached, faults >>
           \/ /\ ~fenced /\ Exists(r)
              /\ IF mutation[r].op = "finish" THEN Ended(r) ELSE UNCHANGED room_vars
              /\ \E ok \in BOOLEAN :
                     MayFail(ok) /\ cached' = IF ok THEN cached \cup {r} ELSE cached
              /\ Remember(p, r)
              /\ MutationGoes(r, IF mutation[r].op = "finish" THEN "release" ELSE "idle")
        /\ UNCHANGED << reservation, creation, loader, account, fenced, unloaded >>

\* deleteSession, whether or not the session could be loaded.
DeleteSession(r) ==
    /\ mutation[r].op = "delete" /\ mutation[r].pc \in {"work", "blind"}
    /\ IF Exists(r)
       THEN /\ Deleted({r})
            /\ MutationGoes(r, IF MutationAt(r, "work") THEN "release" ELSE "invalidate")
            /\ unloaded' = IF MutationAt(r, "work") THEN unloaded ELSE unloaded \cup {r}
       ELSE UNCHANGED << room_vars, unloaded >> /\ MutationGoes(r, "idle")
    /\ UNCHANGED << redis, active, creation, loader, account, fenced, faults >>

\* releaseSessionCode after a finish or a deletion; a failure is swallowed.
ReleaseCode(r) ==
    /\ MutationAt(r, "release")
    /\ \E ok \in BOOLEAN : MayFail(ok)
                           /\ reservation' = IF ok THEN ReservationsWithout(r) ELSE reservation
    /\ MutationGoes(r, IF mutation[r].op = "delete" THEN "invalidate" ELSE "idle")
    /\ UNCHANGED << room_vars, cached, active, creation, loader, account, fenced, unloaded >>

\* invalidate
Invalidate(r) ==
    /\ MutationAt(r, "invalidate") /\ MutationGoes(r, "idle")
    /\ Forget(mutation[r].p, r)
    /\ \E ok \in BOOLEAN : MayFail(ok) /\ cached' = IF ok THEN cached \ {r} ELSE cached
    /\ UNCHANGED << room_vars, reservation, creation, loader, account, fenced, unloaded >>

-----------------------------------------------------------------------------
(* Loads outside the queue: snapshots, joins' preflight, media *)

LoaderGoes(p, pc, r) == loader' = [loader EXCEPT ![p] = [pc |-> pc, room |-> r]]

BeginLoad(p, r) ==
    /\ loader[p].pc = "idle" /\ rooms[r].status # "absent"
    /\ IF Exists(r) /\ ~rooms[r].expired
       THEN LoaderGoes(p, "read", r) /\ UNCHANGED << active, cached >>
       ELSE /\ Forget(p, r) /\ UNCHANGED loader
            /\ cached' = IF Exists(r) THEN cached \ {r} ELSE cached
    /\ UNCHANGED << room_vars, reservation, creation, mutation, account, fenced, unloaded, faults >>

FenceLoad(p) ==
    LET r == loader[p].room
    IN  /\ loader[p].pc = "read"
        /\ IF fenced
           THEN /\ Forget(p, r) /\ cached' = cached \ {r} /\ LoaderGoes(p, "idle", Nobody)
           ELSE UNCHANGED << active, cached >> /\ LoaderGoes(p, "checked", r)
        /\ UNCHANGED << room_vars, reservation, creation, mutation, account, fenced, unloaded,
                        faults >>

EndLoad(p) ==
    /\ loader[p].pc = "checked"
    /\ Remember(p, loader[p].room) /\ LoaderGoes(p, "idle", Nobody)
    /\ UNCHANGED << room_vars, redis, creation, mutation, account, fenced, unloaded, faults >>

-----------------------------------------------------------------------------
(* DELETE /v1/account *)

NoDeletion == [pc |-> "idle", p |-> Nobody, targets |-> {}]

\* claimWorkspaceMediaDeletion sets the fence.
FenceWorkspace(p) ==
    /\ account.pc = "idle"
    /\ fenced' = TRUE /\ account' = [pc |-> "fenced", p |-> p, targets |-> {}]
    /\ UNCHANGED << room_vars, redis, active, creation, mutation, loader, unloaded, faults >>

\* Mistaken: only what can still be joined has to be invalidated.
LiveTargets == {r \in Rounds : Live(r)}

\* listSessionInvalidationTargets
Targets == {r \in Rounds : Exists(r)}

ListTargets ==
    /\ account.pc = "fenced"
    /\ account' = [account EXCEPT !.pc = "listed", !.targets = Targets]
    /\ UNCHANGED << room_vars, redis, active, creation, mutation, loader, fenced, unloaded,
                    faults >>

\* invalidateWorkspaceDeletion of one target, under its lease; a failed call fails the request.
InvalidateTarget(r) ==
    /\ account.pc = "listed" /\ r \in account.targets /\ LeaseFreeFor(r)
    /\ Forget(account.p, r)
    /\ \E released, dropped \in BOOLEAN :
           /\ MayFail(released /\ dropped)
           /\ reservation' = IF released THEN ReservationsWithout(r) ELSE reservation
           /\ cached' = IF dropped THEN cached \ {r} ELSE cached
           /\ account' = IF released /\ dropped THEN [account EXCEPT !.targets = @ \ {r}]
                         ELSE NoDeletion
    /\ UNCHANGED << room_vars, creation, mutation, loader, fenced, unloaded >>

\* A lease is not granted in time: the request fails, the fence stays.
InvalidateTimesOut ==
    /\ account.pc = "listed" /\ \E r \in account.targets : ~LeaseFreeFor(r)
    /\ account' = NoDeletion
    /\ UNCHANGED << room_vars, redis, active, creation, mutation, loader, fenced, unloaded,
                    faults >>

\* deleteAccount
RemoveWorkspace ==
    /\ account.pc = "listed" /\ account.targets = {}
    /\ Deleted(Rooms)
    /\ account' = [NoDeletion EXCEPT !.pc = "done"]
    /\ UNCHANGED << redis, active, creation, mutation, loader, fenced, unloaded, faults >>

-----------------------------------------------------------------------------
(* Presentations end, time passes, processes die *)

FinishPresentation(r) ==
    /\ r \in Presentations /\ Live(r)
    /\ Ended(r)
    /\ UNCHANGED << redis, active, work, fenced, unloaded, faults >>

DeletePresentation(r) ==
    /\ r \in Presentations /\ Exists(r) /\ ~Live(r)
    /\ Deleted({r})
    /\ UNCHANGED << redis, active, work, fenced, unloaded, faults >>

\* A day passes; a creation takes seconds.
ExpireRoom(r) ==
    /\ Exists(r) /\ ~rooms[r].expired /\ creation[r].pc \in {"done", "failed"}
    /\ rooms' = [rooms EXCEPT ![r].expired = TRUE]
    /\ UNCHANGED << registry, redis, active, work, fenced, unloaded, faults >>

\* The Redis keys of a Round live as long as the Round, also when they were leaked.
RedisExpires(r) ==
    /\ ~Live(r) /\ creation[r].pc \in {"done", "failed"}
    /\ rooms[r].expired \/ CreationAt(r, "failed")
    /\ reservation' = ReservationsWithout(r) /\ cached' = cached \ {r}
    /\ UNCHANGED << room_vars, active, work, fenced, unloaded, faults >>

\* The retention run on a process: expireLiveSessions, later purgeExpired, then invalidate; no
\* mutation lasts from the expiry to the purge.
Retire(p, r) ==
    /\ rooms[r].expired
    /\ \/ r \in Rounds /\ rooms[r].status = "active" /\ Ended(r)
       \/ r \in Rounds /\ rooms[r].status = "ended" /\ MutationAt(r, "idle") /\ Deleted({r})
       \/ r \in Presentations /\ Exists(r) /\ Deleted({r})
    /\ Forget(p, r) /\ cached' = cached \ {r}
    /\ UNCHANGED << reservation, work, fenced, unloaded, faults >>

\* Redis loses what it held.
RedisLoses ==
    /\ Fault
    /\ reservation' = [c \in Codes |-> Nobody] /\ cached' = {}
    /\ UNCHANGED << room_vars, active, work, fenced, unloaded >>

CrashServer(p) ==
    /\ Fault
    /\ active' = [active EXCEPT ![p] = {}]
    /\ creation' = [r \in Rooms |->
           IF creation[r].p = p /\ creation[r].pc \notin {"idle", "done"}
           THEN [NoCreation EXCEPT !.pc = "failed"] ELSE creation[r]]
    /\ mutation' = [r \in Rounds |-> IF mutation[r].p = p THEN NoMutation ELSE mutation[r]]
    /\ LoaderGoes(p, "idle", Nobody)
    /\ account' = IF account.p = p /\ account.pc # "done"
                  THEN NoDeletion ELSE account
    /\ UNCHANGED << room_vars, redis, fenced, unloaded >>

LiveRoomsInit ==
    /\ rooms = [r \in Rooms |-> [status |-> "absent", code |-> NoCode, expired |-> FALSE]]
    /\ registry = [c \in Codes |-> NoEntry]
    /\ reservation = [c \in Codes |-> Nobody] /\ cached = {}
    /\ active = [p \in Processes |-> {}]
    /\ creation = [r \in Rooms |-> NoCreation]
    /\ mutation = [r \in Rounds |-> NoMutation]
    /\ loader = [p \in Processes |-> [pc |-> "idle", room |-> Nobody]]
    /\ fenced = FALSE /\ account = NoDeletion
    /\ unloaded = {} /\ faults = 0

CreationStep(r) ==
    \/ CheckCode(r) \/ CreateSession(r) \/ CreateFails(r) \/ PublishSession(r)
    \/ ReleaseReservation(r) \/ CreateSessionWithCredential(r)

MutationStep(r) ==
    \/ UseEntry(r) \/ UseCached(r) \/ LoadRow(r) \/ CheckFence(r) \/ SaveSession(r)
    \/ DeleteSession(r) \/ ReleaseCode(r) \/ Invalidate(r)

ServerStep(p) ==
    \/ \E r \in Rounds, c \in Codes : ReserveSessionCode(p, r, c)
    \/ \E r \in Presentations, c \in Codes : ChooseJoinCode(p, r, c)
    \/ \E r \in Rounds, op \in {"command", "finish", "delete"} : BeginMutation(p, r, op)
    \/ \E r \in Rounds : BeginLoad(p, r)
    \/ FenceLoad(p) \/ EndLoad(p) \/ FenceWorkspace(p) \/ CrashServer(p)
    \/ \E r \in Rooms : Retire(p, r)

LiveRoomsNext ==
    \/ \E p \in Processes : ServerStep(p)
    \/ \E r \in Rounds, c \in Codes : ReserveUnknown(r, c)
    \/ \E r \in Rooms : CreationStep(r) \/ ExpireRoom(r)
    \/ \E r \in Rounds : MutationStep(r) \/ InvalidateTarget(r) \/ RedisExpires(r)
    \/ ListTargets \/ InvalidateTimesOut \/ RemoveWorkspace \/ RedisLoses
    \/ \E r \in Presentations : FinishPresentation(r) \/ DeletePresentation(r)

LiveRoomsSpec == LiveRoomsInit /\ [][LiveRoomsNext]_liveRoomsVars

-----------------------------------------------------------------------------
(* Properties *)

LiveRoomsTypeOK ==
    /\ rooms \in [Rooms -> [status : {"absent", "active", "ended", "deleted"},
                            code : Codes \cup {NoCode}, expired : BOOLEAN]]
    /\ registry \in [Codes -> [room : Rooms \cup {Nobody}, released : BOOLEAN]]
    /\ reservation \in [Codes -> Rounds \cup {Nobody}]
    /\ cached \subseteq Rounds /\ unloaded \subseteq Rounds
    /\ active \in [Processes -> SUBSET Rounds]
    /\ creation \in [Rooms -> [pc : {"idle", "reserved", "checked", "create", "publish", "again",
                                     "undo", "insert", "done", "failed"},
                               code : Codes \cup {NoCode}, tries : 0..MaxTries,
                               p : Processes \cup {Nobody}]]
    /\ mutation \in [Rounds -> [pc : {"idle", "entry", "cache", "load", "fence", "work", "blind",
                                      "release", "invalidate"},
                                op : {"command", "finish", "delete"},
                                p : Processes \cup {Nobody}]]
    /\ loader \in [Processes -> [pc : {"idle", "read", "checked"}, room : Rounds \cup {Nobody}]]
    /\ account \in [pc : {"idle", "fenced", "listed", "done"}, p : Processes \cup {Nobody},
                     targets : SUBSET Rounds]
    /\ fenced \in BOOLEAN /\ faults \in 0..MaxFaults

\* A code leads to one live room, of either kind, whatever Redis lost and whoever died.
OneRoomPerCode ==
    \A r, q \in Rooms : Live(r) /\ Live(q) /\ rooms[r].code = rooms[q].code => r = q

\* The join page finds every live room: the registry's entry of its code is its own.
LiveRoomIsFound ==
    \A r \in Rooms : Live(r) => registry[rooms[r].code] = [room |-> r, released |-> FALSE]

\* What a mutation works on has a row in the database, although a load outside the queue may
\* have put a deleted session back into the process's map.  (Both that and a failure to delete
\* its state in Redis let a mutation work on a deleted session, until its save.)
WorkHasItsRow == faults = 0 => \A r \in Rounds : MutationAt(r, "work") => Exists(r)

RoomsInv == LiveRoomsTypeOK /\ OneRoomPerCode /\ LiveRoomIsFound /\ WorkHasItsRow

AtRest(r) ==
    /\ MutationAt(r, "idle") /\ creation[r].pc \in {"idle", "done", "failed"}
    /\ r \notin account.targets

\* When no call fails, a Round deleted before its day was over, by itself or with its workspace,
\* has left nothing in Redis: neither its state nor its code.  (Only the code of a Round deleted
\* by a request that could not load it, its workspace being deleted, stays reserved until the
\* reservation expires.)
NothingOutlivesItsRoom ==
    faults = 0 => \A r \in Rounds : ~Exists(r) /\ ~rooms[r].expired /\ AtRest(r) =>
        /\ r \notin cached
        /\ r \notin unloaded => \A c \in Codes : reservation[c] # r
=============================================================================
