---------------------------- MODULE SessionWriters ----------------------------
(***************************************************************************)
(* How the mutations of one session reach PostgreSQL from several server   *)
(* processes: apps/server/src/session-service.ts (mutate, loadSession,     *)
(* loadSessionForMutation, save and the error paths of their callers) over *)
(* the mutation lease and the state cache of apps/server/src/cache.ts.     *)
(*                                                                         *)
(* A GameState is abstracted to the sequence of mutations folded into it,  *)
(* its version to the length of that sequence.  One step is the code       *)
(* between two awaits.  A process runs one mutation of the session at a    *)
(* time (exclusive); waiting in that queue changes nothing, so a request   *)
(* enters here when its turn comes.  The unqueued loads of snapshot() run  *)
(* beside it and replace the same entry of the `active` map.               *)
(*                                                                         *)
(* A definition commented "Mistaken:" is no part of the specification: it  *)
(* is a plausible bug in the definition after it, kept to show that a      *)
(* property of this module can fail.                                       *)
(***************************************************************************)
EXTENDS Naturals, Sequences

CONSTANTS
    Servers,       \* the server processes
    HostCommands,  \* command identifiers; a client retries under the same one
    Answers,       \* idempotency keys of answers
    Presence,      \* disconnections and reconnections, of different participants
    Joins,         \* joins: asking again is another join
    Expected,      \* the session version each host command was issued against
    NoState,       \* no entry, in the cache or in a process's active map
    NoServer,      \* nobody holds the lease
    NoOp,          \* no mutation in progress
    Resent,        \* bound: the mutations a client may send again
    MaxSends,      \* bound: how often a client sends one mutation
    MaxReads,      \* bound: snapshots asked for
    MaxFaults,     \* bound: crashes, lost leases, lost writes and lost replies
    MaxMishaps     \* bound: faults and snapshots together

Ops == HostCommands \cup Answers \cup Presence \cup Joins
States == Seq(Ops)

ASSUME ExpectedAssumption == Expected \in [HostCommands -> Nat]
ASSUME NothingAssumption ==
    NoState \notin States /\ NoServer \notin Servers /\ NoOp \notin Ops
ASSUME BoundAssumption ==
    /\ Resent \subseteq HostCommands \cup Answers \cup Presence
    /\ MaxSends \in Nat /\ MaxReads \in Nat
    /\ MaxFaults \in Nat /\ MaxMishaps \in Nat

VARIABLES
    db,            \* the state in game_sessions
    cache,         \* the state in Redis
    lease,         \* the process whose token holds the mutation lease
    active,        \* each process's own entry for the session
    task,          \* each process's mutation in progress
    reader,        \* each process's unqueued snapshot
    acked,         \* the mutations acknowledged to their client
    shown,         \* history: the highest version any client was shown
    sends, reads, faults

storeVars == <<db, cache, lease>>
clientVars == <<acked, shown, sends, reads>>
vars == <<storeVars, active, task, reader, clientVars, faults>>

Stages == {"idle", "acquire", "loadActive", "loadDb", "loadCache", "decide",
           "commit", "committed", "release"}

\* A mutation in progress: the state it loaded (priorState), whether the session object it works
\* on is the one in the active map, and the version it lost a conflict to (0 before any).
NoTask == [stage |-> "idle", op |-> NoOp, base |-> NoState, shared |-> FALSE, lostTo |-> 0]

\* A snapshot in progress: the state it has read, and what had been shown when it was asked for.
NoReader == [stage |-> "idle", state |-> <<>>, floor |-> 0]

Contains(state, o) == \E i \in DOMAIN state : state[i] = o
Changed(s) == Append(task[s].base, task[s].op)
AtStage(s, stage) == task[s].stage = stage
Enter(s, stage) == task' = [task EXCEPT ![s].stage = stage]

\* The work is over: only the lease is left to be released.
Over == [NoTask EXCEPT !.stage = "release"]
Finish(s) == task' = [task EXCEPT ![s] = Over]

Higher(m, n) == IF m < n THEN n ELSE m

Faulty == faults < MaxFaults /\ faults + reads < MaxMishaps /\ faults' = faults + 1
Faultless == UNCHANGED faults

\* Mistaken: the cached state whatever its version, as long as the cache is warm.
CachedFirst(cached, persisted) == IF cached # NoState THEN cached ELSE persisted

\* loadSession: the cached state unless the persisted one is newer.
NewerOf(cached, persisted) ==
    IF cached # NoState /\ Len(cached) >= Len(persisted) THEN cached ELSE persisted

-------------------------------------------------------------------------------
(* mutate: the queue and the lease *)

\* A client sends a mutation, first or again; a host command names a version it was shown.
Receive(s, o) ==
    /\ AtStage(s, "idle")
    /\ sends[o] < IF o \in Resent THEN MaxSends ELSE 1
    /\ o \in HostCommands => Expected[o] <= shown
    /\ task' = [task EXCEPT ![s] = [NoTask EXCEPT !.stage = "acquire", !.op = o]]
    /\ sends' = [sends EXCEPT ![o] = @ + 1]
    /\ Faultless
    /\ UNCHANGED <<storeVars, active, reader, acked, shown, reads>>

\* Mistaken: the key is set whether or not it exists.
LeaseAlwaysFree == TRUE
LeaseFree == lease = NoServer

\* With the lease, loadSessionForMutation looks up the entry of the active map at once.
AcquireLease(s) ==
    /\ AtStage(s, "acquire")
    /\ LeaseFree
    /\ lease' = s
    /\ task' = [task EXCEPT
                   ![s].stage = IF active[s] = NoState THEN "loadDb" ELSE "loadActive",
                   ![s].base = active[s],
                   ![s].shared = active[s] # NoState]
    /\ Faultless
    /\ UNCHANGED <<db, cache, active, reader, clientVars>>

\* The wait ends without the lease: the request is refused with CONFLICT.
GiveUp(s) ==
    /\ AtStage(s, "acquire")
    /\ ~LeaseFree
    /\ task' = [task EXCEPT ![s] = NoTask]
    /\ Faultless
    /\ UNCHANGED <<storeVars, active, reader, clientVars>>

\* The lease lapses: under a holder whose renewals failed, or left behind by a process that
\* died or could not release it.
LeaseExpires ==
    /\ lease # NoServer
    /\ lease' = NoServer
    /\ IF task[lease].stage \in {"idle", "acquire"} THEN Faultless ELSE Faulty
    /\ UNCHANGED <<db, cache, active, task, reader, clientVars>>

\* The finally block: only the owner's token is deleted, and a failure to is swallowed.
ReleaseLease(s) ==
    /\ AtStage(s, "release")
    /\ task' = [task EXCEPT ![s] = NoTask]
    /\ \/ lease' = (IF lease = s THEN NoServer ELSE lease) /\ Faultless
       \/ lease' = lease /\ Faulty
    /\ UNCHANGED <<db, cache, active, reader, clientVars>>

-------------------------------------------------------------------------------
(* loadSessionForMutation *)

\* Mistaken: whatever the cache holds.
ActiveAlwaysSettled(s) == TRUE

\* The entry is only used once the cache holds a state at least as new.
ActiveSettled(s) == cache # NoState /\ Len(cache) >= Len(task[s].base)

UseActive(s) ==
    LET state == NewerOf(cache, task[s].base)
    IN  /\ AtStage(s, "loadActive")
        /\ ActiveSettled(s)
        /\ task' = [task EXCEPT ![s].stage = "decide", ![s].base = state]
        /\ active' = IF task[s].shared THEN [active EXCEPT ![s] = state] ELSE active
        /\ Faultless
        /\ UNCHANGED <<storeVars, reader, clientVars>>

DistrustActive(s) ==
    /\ AtStage(s, "loadActive")
    /\ ~ActiveSettled(s)
    /\ Enter(s, "loadDb")
    /\ Faultless
    /\ UNCHANGED <<storeVars, active, reader, clientVars>>

\* loadSession, inside a mutation
LoadPersisted(s) ==
    /\ AtStage(s, "loadDb")
    /\ task' = [task EXCEPT ![s].stage = "loadCache", ![s].base = db, ![s].shared = FALSE]
    /\ Faultless
    /\ UNCHANGED <<storeVars, active, reader, clientVars>>

LoadCached(s) ==
    LET state == NewerOf(cache, task[s].base)
    IN  /\ AtStage(s, "loadCache")
        /\ task' = [task EXCEPT ![s].stage = "decide", ![s].base = state, ![s].shared = TRUE]
        /\ active' = [active EXCEPT ![s] = state]
        /\ Faultless
        /\ UNCHANGED <<storeVars, reader, clientVars>>

-------------------------------------------------------------------------------
(* The work: decide on the loaded state, commit, cache, reply *)

\* An idempotent retry: the command, key or connection is already in the loaded state.
Recognise(s) ==
    LET o == task[s].op
    IN  /\ AtStage(s, "decide")
        /\ Contains(task[s].base, o)
        /\ acked' = acked \cup {o}
        /\ shown' = IF o \in Answers THEN shown ELSE Higher(shown, Len(task[s].base))
        /\ Finish(s)
        /\ Faultless
        /\ UNCHANGED <<storeVars, active, reader, sends, reads>>

\* applyHostCommand refuses a command issued against another version than the loaded one.
RefuseStale(s) ==
    LET o == task[s].op
    IN  /\ AtStage(s, "decide")
        /\ o \in HostCommands
        /\ ~Contains(task[s].base, o)
        /\ Expected[o] # Len(task[s].base)
        /\ Finish(s)
        /\ Faultless
        /\ UNCHANGED <<storeVars, active, reader, clientVars>>

\* session.state is replaced before it is saved.
Transition(s) ==
    LET o == task[s].op
    IN  /\ AtStage(s, "decide")
        /\ ~Contains(task[s].base, o)
        /\ o \in HostCommands => Expected[o] = Len(task[s].base)
        /\ active' = IF task[s].shared THEN [active EXCEPT ![s] = Changed(s)] ELSE active
        /\ Enter(s, "commit")
        /\ Faultless
        /\ UNCHANGED <<storeVars, reader, clientVars>>

\* Mistaken: the row is written whatever its version.
AnyVersion(s) == TRUE

\* saveSession, commitAnswers, commitParticipants: WHERE version = expectedVersion
ExpectedVersion(s) == Len(db) = Len(task[s].base)

\* The new state is durable; answers and joins are acknowledged at once.
Commit(s) ==
    LET o == task[s].op
    IN  /\ AtStage(s, "commit")
        /\ ExpectedVersion(s)
        /\ db' = Changed(s)
        /\ active' = [active EXCEPT ![s] = Changed(s)]
        /\ acked' = IF o \in Answers \cup Joins THEN acked \cup {o} ELSE acked
        /\ shown' = IF o \in Joins THEN Higher(shown, Len(Changed(s))) ELSE shown
        /\ Enter(s, "committed")
        /\ Faultless
        /\ UNCHANGED <<cache, lease, reader, sends, reads>>

\* Mistaken: the entry that lost is kept.
EntryAfterConflict(s) == active[s]
NoEntry(s) == NoState

\* SessionVersionConflictError: drop the entry and, once and never for a join, work again; the
\* retry finds no entry, as nothing runs in between.
Conflict(s) ==
    LET again == task[s].op \notin Joins /\ task[s].lostTo = 0
    IN  /\ AtStage(s, "commit")
        /\ ~ExpectedVersion(s)
        /\ active' = [active EXCEPT ![s] = NoEntry(s)]
        /\ task' = [task EXCEPT ![s] =
              IF ~again THEN Over
              ELSE [@ EXCEPT !.stage = IF NoEntry(s) = NoState THEN "loadDb" ELSE "loadActive",
                             !.base = NoEntry(s), !.shared = NoEntry(s) # NoState,
                             !.lostTo = Len(db)]]
        /\ Faultless
        /\ UNCHANGED <<storeVars, reader, clientVars>>

\* The entry a failed save leaves: hostCommand and autoLock drop it, answers and joins put the
\* prior state back, and disconnect and reconnectParticipant leave the state never saved.
EntryAfterFailure(s) ==
    IF task[s].op \in HostCommands THEN NoState
    ELSE IF task[s].op \in Presence \/ ~task[s].shared THEN active[s]
    ELSE task[s].base

AfterFailure(s) == Over

\* The save throws: nothing was written, or only the outcome was lost.
CommitFails(s) ==
    /\ AtStage(s, "commit")
    /\ \/ db' = db
       \/ ExpectedVersion(s) /\ db' = Changed(s)
    /\ active' = [active EXCEPT ![s] = EntryAfterFailure(s)]
    /\ task' = [task EXCEPT ![s] = AfterFailure(s)]
    /\ Faulty
    /\ UNCHANGED <<cache, lease, reader, clientVars>>

\* The cache write of save, processAnswerBatch and processJoinBatch, its failure swallowed; then
\* the state is published and the remaining callers answered.
WriteCache(s) ==
    /\ AtStage(s, "committed")
    /\ \/ cache' = Changed(s) /\ Faultless
       \/ cache' = cache /\ Faulty
    /\ shown' = Higher(shown, Len(Changed(s)))
    /\ acked' = acked \cup {task[s].op}
    /\ Finish(s)
    /\ UNCHANGED <<db, lease, active, reader, sends, reads>>

\* Any other await of a mutation throws: the caller sees an error, the lease is released.  The
\* command that ends a session has already replaced session.state when it reads the plan.
WorkFails(s) ==
    /\ task[s].stage \in {"loadActive", "loadDb", "loadCache", "decide"}
    /\ \/ active' = active
       \/ /\ AtStage(s, "decide") /\ task[s].shared
          /\ task[s].op \in HostCommands /\ ~Contains(task[s].base, task[s].op)
          /\ Expected[task[s].op] = Len(task[s].base)
          /\ active' = [active EXCEPT ![s] = Changed(s)]
    /\ Finish(s)
    /\ Faulty
    /\ UNCHANGED <<storeVars, reader, clientVars>>

-------------------------------------------------------------------------------
(* snapshot: an unqueued loadSession *)

ReadPersisted(s) ==
    /\ reader[s].stage = "idle"
    /\ reads < MaxReads /\ faults + reads < MaxMishaps
    /\ reads' = reads + 1
    /\ reader' = [reader EXCEPT ![s] = [stage |-> "cache", state |-> db, floor |-> shown]]
    /\ Faultless
    /\ UNCHANGED <<storeVars, active, task, acked, shown, sends>>

ReadCached(s) ==
    /\ reader[s].stage = "cache"
    /\ reader' = [reader EXCEPT ![s].stage = "fence", ![s].state = NewerOf(cache, @)]
    /\ Faultless
    /\ UNCHANGED <<storeVars, active, task, clientVars>>

\* After the deletion fence was read, the result replaces the entry of the active map, also under
\* a mutation in progress, and is shown.
PublishRead(s) ==
    /\ reader[s].stage = "fence"
    /\ reader' = [reader EXCEPT ![s] = NoReader]
    /\ active' = [active EXCEPT ![s] = reader[s].state]
    /\ task' = [task EXCEPT ![s].shared = FALSE]
    /\ shown' = Higher(shown, Len(reader[s].state))
    /\ Faultless
    /\ UNCHANGED <<storeVars, acked, sends, reads>>

-------------------------------------------------------------------------------
(* The environment *)

\* A process dies and starts again; its lease and everything durable stay behind.
Crash(s) ==
    /\ Faulty
    /\ task' = [task EXCEPT ![s] = NoTask]
    /\ reader' = [reader EXCEPT ![s] = NoReader]
    /\ active' = [active EXCEPT ![s] = NoState]
    /\ UNCHANGED <<storeVars, clientVars>>

\* Redis loses the entry: eviction, a restart or its time to live.
CacheEvicted ==
    /\ cache # NoState
    /\ cache' = NoState
    /\ Faulty
    /\ UNCHANGED <<db, lease, active, task, reader, clientVars>>

\* createSession has saved and cached the lobby.
Init ==
    /\ db = <<>> /\ cache = <<>>
    /\ lease = NoServer
    /\ active = [s \in Servers |-> NoState]
    /\ task = [s \in Servers |-> NoTask]
    /\ reader = [s \in Servers |-> NoReader]
    /\ acked = {} /\ shown = 0
    /\ sends = [o \in Ops |-> 0]
    /\ reads = 0
    /\ faults = 0

Next ==
    \/ \E s \in Servers :
        \/ \E o \in Ops : Receive(s, o)
        \/ AcquireLease(s) \/ GiveUp(s) \/ ReleaseLease(s)
        \/ UseActive(s) \/ DistrustActive(s) \/ LoadPersisted(s) \/ LoadCached(s)
        \/ Recognise(s) \/ RefuseStale(s) \/ Transition(s)
        \/ Commit(s) \/ Conflict(s) \/ CommitFails(s) \/ WriteCache(s) \/ WorkFails(s)
        \/ ReadPersisted(s) \/ ReadCached(s) \/ PublishRead(s)
        \/ Crash(s)
    \/ LeaseExpires \/ CacheEvicted

Spec == Init /\ [][Next]_vars

-------------------------------------------------------------------------------
(* Properties *)

\* The type invariant.  The work of a mutation always has a state to work on.
TypeOK ==
    /\ db \in States /\ cache \in States \cup {NoState}
    /\ lease \in Servers \cup {NoServer}
    /\ active \in [Servers -> States \cup {NoState}]
    /\ task \in [Servers -> [stage : Stages, op : Ops \cup {NoOp}, base : States \cup {NoState},
                             shared : BOOLEAN, lostTo : Nat]]
    /\ \A s \in Servers :
           /\ task[s].stage \notin {"idle", "release"} => task[s].op \in Ops
           /\ task[s].stage \in {"loadActive", "loadCache", "decide", "commit", "committed"}
                  => task[s].base \in States
    /\ reader \in [Servers -> [stage : {"idle", "cache", "fence"}, state : States, floor : Nat]]
    /\ acked \subseteq Ops
    /\ shown \in Nat /\ faults \in Nat
    /\ sends \in [Ops -> Nat] /\ reads \in Nat

\* Whether a state is one the session has durably been in.
Committed(state) == Len(state) <= Len(db) /\ state = SubSeq(db, 1, Len(state))

\* Redis only ever holds a state that was committed, never one a failed or lost save left.
CacheIsCommitted == cache # NoState => Committed(cache)

\* A mutation only ever builds on a committed state, whatever an earlier failure left in the
\* active map: in particular a disconnection that was never saved is forgotten.
WorkIsOnCommitted ==
    \A s \in Servers :
        task[s].stage \in {"loadCache", "decide", "commit"} => Committed(task[s].base)

\* Whatever fails: the cache and the work of every server are of the session's history.
WritersInv == TypeOK /\ CacheIsCommitted /\ WorkIsOnCommitted

\* As long as nothing fails, the lease makes conflicts impossible: whoever decides holds the
\* latest state, so no client is told to synchronize because of another process.
FaultlessWorkIsCurrent ==
    \A s \in Servers :
        faults = 0 /\ task[s].stage \in {"decide", "commit"} => task[s].base = db

\* The retry after a conflict works from a state at least as new as the one that won, so that
\* it can only conflict again with yet another writer.
RetryIsCanonical ==
    \A s \in Servers :
        task[s].stage \in {"decide", "commit"} => Len(task[s].base) >= task[s].lostTo

\* A snapshot is never older than what some client had been shown when it was asked for: a
\* reconnection to another process does not go back in time.
SnapshotsNeverGoBack ==
    \A s \in Servers : reader[s].stage = "fence" => Len(reader[s].state) >= reader[s].floor

\* Every server together implements one session history.
Linear == INSTANCE LinearSession WITH Ops <- Ops, log <- db, acked <- acked

\* No update is lost, no mutation is applied twice however often it is sent, and what was
\* acknowledged is durable: through retries, crashes, lost leases, caches and replies.
ImplementsLinearSession == Linear!LinearSpec
===============================================================================
