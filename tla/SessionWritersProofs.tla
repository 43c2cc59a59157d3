-------------------------- MODULE SessionWritersProofs --------------------------
(* What is proved of the writers of one session, for any number of processes,  *)
(* mutations, repetitions, snapshots and faults: the invariants the runs check *)
(* and that all processes together implement one session history.              *)
(*                                                                             *)
(* The argument: PostgreSQL's history only grows, and everything a mutation    *)
(* decides on is a prefix of it.  A commit compares versions, and a prefix of  *)
(* the same length is the history itself, so that it appends to it.            *)
EXTENDS SessionWriters, SequenceTheorems, TLAPS

-------------------------------------------------------------------------------
(* Prefixes of the history *)

LEMMA CommittedPointwise ==
  ASSUME db \in States, NEW state \in States
  PROVE  Committed(state) <=> /\ Len(state) <= Len(db)
                              /\ \A i \in 1..Len(state) : state[i] = db[i]
<1> DEFINE prefix == SubSeq(db, 1, Len(state))
<1>1. Len(state) \in Nat /\ Len(db) \in Nat /\ \A i \in 1..Len(db) : db[i] \in Ops
  BY LenProperties, ElementOfSeq DEF States
<1>2. ASSUME Len(state) <= Len(db)
      PROVE  /\ prefix \in States /\ Len(prefix) = Len(state)
             /\ \A i \in 1..Len(state) : prefix[i] = db[i]
  <2>1. /\ prefix \in Seq(Ops)
        /\ Len(prefix) = IF 1 <= Len(state) THEN Len(state) - 1 + 1 ELSE 0
        /\ \A i \in 1..(Len(state) - 1 + 1) : prefix[i] = db[1 + i - 1]
    BY <1>1, <1>2, SubSeqProperties
  <2> QED
    BY <1>1, <2>1 DEF States
<1> HIDE DEF prefix
<1>3. ASSUME Len(state) <= Len(db), \A i \in 1..Len(state) : state[i] = db[i]
      PROVE  state = prefix
  BY <1>2, <1>3, SeqEqual DEF States
<1> QED
  BY <1>1, <1>2, <1>3 DEF Committed, prefix

LEMMA HistoryIsCommitted ==
  ASSUME db \in States
  PROVE  Committed(db)
<1>1. Len(db) \in Nat
  BY LenProperties DEF States
<1> QED
  BY <1>1, CommittedPointwise

\* A committed state of the history's version is the history.
LEMMA SameVersionIsHistory ==
  ASSUME db \in States, NEW state \in States, Committed(state), Len(state) = Len(db)
  PROVE  state = db
BY CommittedPointwise, SeqEqual DEF States

LEMMA Appended ==
  ASSUME NEW state \in States, NEW o \in Ops
  PROVE  /\ Append(state, o) \in States /\ Len(Append(state, o)) = Len(state) + 1
         /\ \A i \in 1..Len(state) : Append(state, o)[i] = state[i]
         /\ Append(state, o)[Len(state) + 1] = o
         /\ Contains(Append(state, o), o)
<1>1. Len(state) \in Nat /\ Append(state, o) \in Seq(Ops)
  BY LenProperties DEF States
<1>2. Len(Append(state, o)) = Len(state) + 1 /\ Append(state, o)[Len(state) + 1] = o
      /\ \A i \in 1..Len(state) : Append(state, o)[i] = state[i]
  BY <1>1 DEF States
<1>3. Len(state) + 1 \in DOMAIN Append(state, o)
  BY <1>1, <1>2, LenProperties
<1> QED
  BY <1>1, <1>2, <1>3 DEF States, Contains

\* What was committed stays so: the history is only appended to.
LEMMA CommittedIsKept ==
  ASSUME db \in States, NEW o \in Ops, db' = Append(db, o),
         NEW state \in States, Committed(state)
  PROVE  Committed(state)'
<1>1. /\ Len(state) \in Nat /\ Len(db) \in Nat /\ db' \in States /\ Len(db') = Len(db) + 1
      /\ \A i \in 1..Len(db) : db'[i] = db[i]
  BY Appended, LenProperties DEF States
<1>2. Len(state) <= Len(db) /\ \A i \in 1..Len(state) : state[i] = db[i]
  BY CommittedPointwise
<1>3. Len(state) <= Len(db') /\ \A i \in 1..Len(state) : state[i] = db'[i]
  BY <1>1, <1>2
<1> DEFINE prefix == SubSeq(db', 1, Len(state))
<1>4. \A i \in 1..Len(db') : db'[i] \in Ops
  BY <1>1, ElementOfSeq DEF States
<1>5. /\ prefix \in Seq(Ops)
      /\ Len(prefix) = IF 1 <= Len(state) THEN Len(state) - 1 + 1 ELSE 0
      /\ \A i \in 1..(Len(state) - 1 + 1) : prefix[i] = db'[1 + i - 1]
  BY <1>1, <1>3, <1>4, SubSeqProperties
<1> HIDE DEF prefix
<1>6. prefix \in Seq(Ops) /\ Len(prefix) = Len(state)
      /\ \A i \in 1..Len(state) : prefix[i] = state[i]
  BY <1>1, <1>3, <1>5
<1>7. state = prefix
  BY <1>6, SeqEqual DEF States
<1> QED
  BY <1>3, <1>7 DEF Committed, prefix

\* A mutation in a committed state is in the history.
LEMMA ContainedIsApplied ==
  ASSUME db \in States, NEW state \in States, Committed(state), NEW o, Contains(state, o)
  PROVE  Contains(db, o)
<1>1. DOMAIN state = 1..Len(state) /\ DOMAIN db = 1..Len(db)
      /\ Len(state) \in Nat /\ Len(db) \in Nat
  BY LenProperties DEF States
<1>2. Len(state) <= Len(db) /\ \A i \in 1..Len(state) : state[i] = db[i]
  BY CommittedPointwise
<1> QED
  BY <1>1, <1>2 DEF Contains

-------------------------------------------------------------------------------
(* The inductive invariant *)

Task == [stage : Stages, op : Ops \cup {NoOp}, base : States \cup {NoState},
         shared : BOOLEAN, lostTo : Nat]

Reader == [stage : {"idle", "cache", "fence"}, state : States, floor : Nat]

\* A mutation builds on a committed state, no older than the one it lost a conflict to; it
\* commits what that state does not contain, and has committed what it goes on to show.
TaskOK(t) ==
    /\ t \in Task /\ t.lostTo <= Len(db)
    /\ t.stage \notin {"idle", "release"} => t.op \in Ops
    /\ t.stage \in {"acquire", "loadActive"} => t.lostTo = 0
    /\ t.stage \in {"loadActive", "loadCache", "decide", "commit", "committed"}
           => t.base \in States
    /\ t.stage \in {"loadCache", "decide", "commit"}
           => Committed(t.base) /\ Len(t.base) >= t.lostTo
    /\ t.stage = "commit" => ~Contains(t.base, t.op)
    /\ t.stage = "committed" => Committed(Append(t.base, t.op))

\* A snapshot has read a committed state, no older than what had been shown.
ReaderOK(r) ==
    /\ r \in Reader
    /\ r.stage \in {"cache", "fence"} => Committed(r.state) /\ Len(r.state) >= r.floor

\* What is stored and shown is of the history.
StoreOK ==
    /\ db \in States /\ cache \in States \cup {NoState}
    /\ cache # NoState => Committed(cache)
    /\ lease \in Servers \cup {NoServer}
    /\ active \in [Servers -> States \cup {NoState}]
    /\ acked \subseteq Ops /\ shown \in Nat /\ shown <= Len(db)
    /\ faults \in Nat /\ sends \in [Ops -> Nat] /\ reads \in Nat

Working(t) == t.stage \notin {"idle", "acquire"}

\* Until something fails the lease is held by the one process at work, which works on the
\* history, and the cache follows the history as soon as the work that added to it is over.
FaultlessOK ==
    faults = 0 =>
        /\ \A s \in Servers : Working(task[s]) <=> lease = s
        /\ \A s \in Servers : task[s].stage \in {"loadCache", "decide", "commit"}
               => task[s].base = db
        /\ \A s \in Servers : task[s].stage = "committed" => Changed(s) = db
        /\ (\A s \in Servers : task[s].stage # "committed") => cache = db

IInv ==
    /\ StoreOK /\ FaultlessOK
    /\ task \in [Servers -> Task] /\ \A s \in Servers : TaskOK(task[s])
    /\ reader \in [Servers -> Reader] /\ \A s \in Servers : ReaderOK(reader[s])

\* The invariant says all that is checked of the writers.
LEMMA InvariantSuffices ==
  IInv => WritersInv /\ FaultlessWorkIsCurrent /\ SnapshotsNeverGoBack /\ RetryIsCanonical
<1> SUFFICES ASSUME IInv
             PROVE  WritersInv /\ FaultlessWorkIsCurrent /\ SnapshotsNeverGoBack
                    /\ RetryIsCanonical
  OBVIOUS
<1>1. TypeOK
  BY DEF IInv, StoreOK, TypeOK, TaskOK, Task, ReaderOK, Reader
<1>2. CacheIsCommitted /\ WorkIsOnCommitted
  BY DEF IInv, StoreOK, CacheIsCommitted, WorkIsOnCommitted, TaskOK
<1>3. FaultlessWorkIsCurrent
  BY DEF IInv, FaultlessOK, FaultlessWorkIsCurrent
<1>4. SnapshotsNeverGoBack /\ RetryIsCanonical
  BY DEF IInv, SnapshotsNeverGoBack, RetryIsCanonical, ReaderOK, TaskOK
<1> QED
  BY <1>1, <1>2, <1>3, <1>4 DEF WritersInv

LEMMA InitInv == Init => IInv
<1> SUFFICES ASSUME Init PROVE IInv
  OBVIOUS
<1>1. << >> \in States /\ Len(<< >>) = 0
  BY EmptySeq DEF States
<1>2. db \in States /\ cache = db /\ Committed(db) /\ db = << >>
  BY <1>1, HistoryIsCommitted DEF Init
<1>3. NoTask \in Task /\ NoReader \in Reader
  BY <1>1 DEF NoTask, NoReader, Task, Reader, Stages
<1>4. StoreOK
  BY <1>1, <1>2 DEF Init, StoreOK
<1>5. \A s \in Servers : TaskOK(task[s]) /\ ReaderOK(reader[s])
  <2>1. TaskOK(NoTask)
    BY <1>1, <1>2, <1>3 DEF TaskOK, NoTask
  <2>2. ReaderOK(NoReader)
    BY <1>3 DEF ReaderOK, NoReader
  <2> QED
    BY <2>1, <2>2 DEF Init
<1>6. FaultlessOK
  BY <1>2, NothingAssumption DEF Init, FaultlessOK, Working, NoTask
<1> QED
  BY <1>3, <1>4, <1>5, <1>6 DEF Init, IInv

-------------------------------------------------------------------------------
(* Steps that do not add to the history *)

LEMMA SameHistory ==
  ASSUME UNCHANGED db
  PROVE  /\ \A t : TaskOK(t)' <=> TaskOK(t)
         /\ \A r : ReaderOK(r)' <=> ReaderOK(r)
         /\ \A state : Committed(state)' <=> Committed(state)
BY DEF TaskOK, ReaderOK, Committed

\* A step of one process that leaves the shared stores alone.
LEMMA WorkStepInv ==
  ASSUME IInv, UNCHANGED << db, cache, lease >>,
         NEW s \in Servers, NEW next, task' = [task EXCEPT ![s] = next], TaskOK(next),
         reader' \in [Servers -> Reader], \A r \in Servers : ReaderOK(reader'[r]),
         active' \in [Servers -> States \cup {NoState}], acked' \subseteq Ops,
         shown' \in Nat, shown' <= Len(db), sends' \in [Ops -> Nat], reads' \in Nat,
         \/ faults' = faults + 1
         \/ /\ faults' = faults
            /\ faults = 0 =>
                  /\ Working(next) <=> Working(task[s])
                  /\ next.stage \in {"loadCache", "decide", "commit"} => next.base = db
                  /\ next.stage = "committed" <=> task[s].stage = "committed"
                  /\ next.stage = "committed" =>
                         next.base = task[s].base /\ next.op = task[s].op
  PROVE  IInv'
<1>1. StoreOK'
  <2>1. StoreOK
    BY DEF IInv
  <2>2. faults' \in Nat
    BY <2>1 DEF StoreOK
  <2>3. cache' # NoState => Committed(cache)'
    BY <2>1 DEF StoreOK, Committed
  <2> QED
    BY <2>1, <2>2, <2>3 DEF StoreOK
<1>2. \A r \in Servers : task'[r] = IF r = s THEN next ELSE task[r]
  BY DEF IInv
<1>3. task' \in [Servers -> Task] /\ \A r \in Servers : TaskOK(task[r])'
  BY <1>2, SameHistory DEF IInv, TaskOK
<1>4. \A r \in Servers : ReaderOK(reader[r])'
  BY SameHistory DEF ReaderOK
<1>5. FaultlessOK'
  <2>1. faults \in Nat
    BY DEF IInv, StoreOK
  <2> SUFFICES ASSUME faults' = 0, faults' = faults PROVE FaultlessOK'
    BY <2>1 DEF FaultlessOK
  <2>2. \A r \in Servers : Working(task'[r]) <=> Working(task[r])
    BY <1>2, <2>1
  <2>3. \A r \in Servers : (task'[r].stage = "committed" <=> task[r].stage = "committed")
    BY <1>2, <2>1
  <2>4. \A r \in Servers : task'[r].stage \in {"loadCache", "decide", "commit"}
                               => task'[r].base = db
    BY <1>2, <2>1 DEF IInv, FaultlessOK
  <2>5. \A r \in Servers : task'[r].stage = "committed"
            => task'[r].base = task[r].base /\ task'[r].op = task[r].op
    BY <1>2, <2>1
  <2>6. \A r \in Servers : task[r].stage = "committed"
            => Append(task[r].base, task[r].op) = db
    BY DEF IInv, FaultlessOK, Changed
  <2> QED
    BY <2>2, <2>3, <2>4, <2>5, <2>6 DEF IInv, FaultlessOK, Working, Changed
<1> QED
  BY <1>1, <1>3, <1>4, <1>5 DEF IInv

\* What everybody's types and the others' work are, for short.
LEMMA Typed ==
  ASSUME IInv, NEW s \in Servers
  PROVE  /\ db \in States /\ Len(db) \in Nat /\ cache \in States \cup {NoState}
         /\ (cache # NoState => Committed(cache) /\ Len(cache) \in Nat)
         /\ task \in [Servers -> Task] /\ task[s] \in Task /\ TaskOK(task[s])
         /\ reader \in [Servers -> Reader] /\ \A r \in Servers : ReaderOK(reader[r])
         /\ active \in [Servers -> States \cup {NoState}] /\ acked \subseteq Ops
         /\ shown \in Nat /\ shown <= Len(db) /\ sends \in [Ops -> Nat]
         /\ reads \in Nat /\ faults \in Nat
BY LenProperties DEF IInv, StoreOK, States

LEMMA OverIsFine ==
  ASSUME IInv
  PROVE  /\ TaskOK(Over) /\ TaskOK(NoTask) /\ Working(Over) /\ ~Working(NoTask)
         /\ Over.stage = "release" /\ NoTask.stage = "idle"
<1>1. Len(db) \in Nat /\ 0 <= Len(db)
  BY LenProperties DEF IInv, StoreOK, States
<1>2. NoTask \in Task /\ NoTask.stage = "idle" /\ NoTask.lostTo = 0
  BY DEF NoTask, Task, Stages
<1>3. Over \in Task /\ Over.stage = "release" /\ Over.lostTo = 0
  BY <1>2 DEF Over, Task, Stages, NoTask
<1>4. TaskOK(NoTask)
  BY <1>1, <1>2 DEF TaskOK
<1>5. TaskOK(Over)
  BY <1>1, <1>3 DEF TaskOK
<1> QED
  BY <1>2, <1>3, <1>4, <1>5 DEF Working

LEMMA ReceiveInv ==
  ASSUME IInv, NEW s \in Servers, NEW o \in Ops, Receive(s, o)
  PROVE  IInv'
<1> DEFINE next == [NoTask EXCEPT !.stage = "acquire", !.op = o]
<1>a. next \in Task /\ next.stage = "acquire" /\ next.op = o /\ next.lostTo = 0
  BY DEF NoTask, Task, Stages
<1>2. task' = [task EXCEPT ![s] = next] /\ ~Working(task[s]) /\ task[s].stage = "idle"
  BY DEF Receive, AtStage, Working
<1>3. sends' \in [Ops -> Nat]
  BY Typed DEF Receive
<1>4. UNCHANGED << db, cache, lease, active, reader, acked, shown, reads, faults >>
  BY DEF Receive, Faultless, storeVars
<1> HIDE DEF next
<1>1. TaskOK(next) /\ ~Working(next)
  BY <1>a, Typed DEF TaskOK, Working
<1> QED
  BY <1>a, <1>1, <1>2, <1>3, <1>4, Typed, WorkStepInv

LEMMA GiveUpInv ==
  ASSUME IInv, NEW s \in Servers, GiveUp(s)
  PROVE  IInv'
<1>1. task' = [task EXCEPT ![s] = NoTask] /\ ~Working(task[s]) /\ task[s].stage = "acquire"
  BY DEF GiveUp, AtStage, Working
<1>2. UNCHANGED << db, cache, lease, active, reader, acked, shown, sends, reads, faults >>
  BY DEF GiveUp, Faultless, storeVars, clientVars
<1>3. NoTask.stage = "idle"
  BY DEF NoTask
<1> QED
  BY <1>1, <1>2, <1>3, OverIsFine, Typed, WorkStepInv
\* What a load takes: a committed state no older than the one it had.
LEMMA NewerIsCommitted ==
  ASSUME db \in States, cache \in States \cup {NoState}, cache # NoState => Committed(cache),
         NEW base \in States, Committed(base)
  PROVE  /\ NewerOf(cache, base) \in States /\ Committed(NewerOf(cache, base))
         /\ Len(NewerOf(cache, base)) >= Len(base) /\ Len(base) \in Nat
         /\ base = db /\ cache = db => NewerOf(cache, base) = db
BY LenProperties DEF NewerOf, States

\* As long as nothing failed, whoever works and is not about to write the cache finds it current.
LEMMA FaultlessCache ==
  ASSUME IInv, faults = 0, NEW s \in Servers, Working(task[s]), task[s].stage # "committed"
  PROVE  cache = db
<1>1. \A r \in Servers : task[r].stage # "committed"
  BY DEF IInv, FaultlessOK, Working
<1> QED
  BY <1>1 DEF IInv, FaultlessOK

\* A step of a process that replaces only its own entry of the active map and its task.
LEMMA OwnStepInv ==
  ASSUME IInv, UNCHANGED << db, cache, lease, acked, shown, sends, reads, reader >>,
         NEW s \in Servers, NEW next, task' = [task EXCEPT ![s] = next], TaskOK(next),
         NEW state \in States \cup {NoState}, active' \in {active, [active EXCEPT ![s] = state]},
         \/ faults' = faults + 1
         \/ /\ faults' = faults
            /\ Working(task[s]) /\ task[s].stage # "committed"
            /\ Working(next) /\ next.stage # "committed"
            /\ faults = 0 => (next.stage \in {"loadCache", "decide", "commit"} => next.base = db)
  PROVE  IInv'
<1>1. active' \in [Servers -> States \cup {NoState}]
  BY Typed
<1>2. \/ faults' = faults + 1
      \/ /\ faults' = faults
         /\ faults = 0 =>
               /\ Working(next) <=> Working(task[s])
               /\ next.stage \in {"loadCache", "decide", "commit"} => next.base = db
               /\ next.stage = "committed" <=> task[s].stage = "committed"
               /\ next.stage = "committed" =>
                      next.base = task[s].base /\ next.op = task[s].op
  OBVIOUS
<1> QED
  BY <1>1, <1>2, Typed, WorkStepInv

LEMMA UseActiveInv ==
  ASSUME IInv, NEW s \in Servers, UseActive(s)
  PROVE  IInv'
<1> DEFINE next == [task[s] EXCEPT !.stage = "decide", !.base = NewerOf(cache, task[s].base)]
<1>1. /\ task[s].stage = "loadActive" /\ task[s].lostTo = 0 /\ task[s].op \in Ops
      /\ task[s] \in Task /\ task[s].base \in States
  BY Typed DEF UseActive, AtStage, TaskOK
<1>2. cache # NoState /\ NewerOf(cache, task[s].base) = cache /\ cache \in States
      /\ Committed(cache) /\ Len(cache) \in Nat
  BY Typed DEF UseActive, ActiveSettled, NewerOf
<1>3. /\ next \in Task /\ next.stage = "decide" /\ next.base = cache /\ next.lostTo = 0
      /\ next.op = task[s].op
  BY <1>1, <1>2 DEF Task, Stages
<1>4. /\ task' = [task EXCEPT ![s] = next]
      /\ UNCHANGED << db, cache, lease, acked, shown, sends, reads, reader, faults >>
      /\ active' \in {active, [active EXCEPT ![s] = cache]}
  BY <1>2, Typed DEF UseActive, storeVars, clientVars, Faultless
<1>5. faults = 0 => cache = db
  BY <1>1, FaultlessCache DEF Working
<1> HIDE DEF next
<1>6. TaskOK(next) /\ Working(next) /\ Working(task[s])
  BY <1>1, <1>2, <1>3, Typed DEF TaskOK, Working
<1> QED
  BY <1>1, <1>2, <1>3, <1>4, <1>5, <1>6, OwnStepInv

LEMMA DistrustActiveInv ==
  ASSUME IInv, NEW s \in Servers, DistrustActive(s)
  PROVE  IInv'
<1> DEFINE next == [task[s] EXCEPT !.stage = "loadDb"]
<1>1. /\ task[s].stage = "loadActive" /\ task[s].lostTo = 0 /\ task[s].op \in Ops
      /\ task[s] \in Task
  BY Typed DEF DistrustActive, AtStage, TaskOK
<1>2. next \in Task /\ next.stage = "loadDb" /\ next.lostTo = 0 /\ next.op = task[s].op
  BY <1>1 DEF Task, Stages
<1>3. /\ task' = [task EXCEPT ![s] = next]
      /\ UNCHANGED << db, cache, lease, acked, shown, sends, reads, reader, faults, active >>
  BY Typed DEF DistrustActive, Enter, storeVars, clientVars, Faultless
<1> HIDE DEF next
<1>4. TaskOK(next) /\ Working(next) /\ Working(task[s])
  BY <1>1, <1>2, Typed DEF TaskOK, Working
<1> QED
  BY <1>1, <1>2, <1>3, <1>4, OwnStepInv

LEMMA LoadPersistedInv ==
  ASSUME IInv, NEW s \in Servers, LoadPersisted(s)
  PROVE  IInv'
<1> DEFINE next == [task[s] EXCEPT !.stage = "loadCache", !.base = db, !.shared = FALSE]
<1>1. /\ task[s].stage = "loadDb" /\ task[s].lostTo <= Len(db) /\ task[s].op \in Ops
      /\ task[s] \in Task /\ task[s].lostTo \in Nat
  BY Typed DEF LoadPersisted, AtStage, TaskOK, Task
<1>2. /\ next \in Task /\ next.stage = "loadCache" /\ next.lostTo = task[s].lostTo
      /\ next.op = task[s].op /\ next.base = db
  BY <1>1, Typed DEF Task, Stages
<1>3. /\ task' = [task EXCEPT ![s] = next]
      /\ UNCHANGED << db, cache, lease, acked, shown, sends, reads, reader, faults, active >>
  BY Typed DEF LoadPersisted, storeVars, clientVars, Faultless
<1> HIDE DEF next
<1>4. TaskOK(next) /\ Working(next) /\ Working(task[s])
  BY <1>1, <1>2, Typed, HistoryIsCommitted DEF TaskOK, Working
<1> QED
  BY <1>1, <1>2, <1>3, <1>4, OwnStepInv

LEMMA LoadCachedInv ==
  ASSUME IInv, NEW s \in Servers, LoadCached(s)
  PROVE  IInv'
<1> DEFINE state == NewerOf(cache, task[s].base)
           next == [task[s] EXCEPT !.stage = "decide", !.base = state, !.shared = TRUE]
<1>1. /\ task[s].stage = "loadCache" /\ task[s].op \in Ops /\ task[s] \in Task
      /\ task[s].lostTo \in Nat /\ task[s].lostTo <= Len(db)
      /\ task[s].base \in States /\ Committed(task[s].base)
      /\ Len(task[s].base) >= task[s].lostTo
  BY Typed DEF LoadCached, AtStage, TaskOK, Task
<1>2. /\ state \in States /\ Committed(state) /\ Len(state) >= Len(task[s].base)
      /\ Len(task[s].base) \in Nat /\ Len(state) \in Nat
      /\ task[s].base = db /\ cache = db => state = db
  BY <1>1, Typed, NewerIsCommitted, LenProperties DEF States
<1>3. /\ task' = [task EXCEPT ![s] = next] /\ active' = [active EXCEPT ![s] = state]
      /\ UNCHANGED << db, cache, lease, acked, shown, sends, reads, reader, faults >>
  BY Typed DEF LoadCached, storeVars, clientVars, Faultless
<1> HIDE DEF state
<1>4. /\ next \in Task /\ next.stage = "decide" /\ next.lostTo = task[s].lostTo
      /\ next.op = task[s].op /\ next.base = state
  BY <1>1, <1>2 DEF Task, Stages
<1> HIDE DEF next
<1>5. Len(state) >= next.lostTo
  BY <1>1, <1>2, <1>4
<1>6. TaskOK(next) /\ Working(next) /\ Working(task[s])
  BY <1>1, <1>2, <1>4, <1>5 DEF TaskOK, Working
<1>7. faults = 0 => state = db
  BY <1>1, <1>2, <1>6, FaultlessCache DEF IInv, FaultlessOK
<1> QED
  BY <1>1, <1>2, <1>3, <1>4, <1>6, <1>7, OwnStepInv
LEMMA RecogniseInv ==
  ASSUME IInv, NEW s \in Servers, Recognise(s)
  PROVE  IInv'
<1>1. /\ task[s].stage = "decide" /\ task[s].op \in Ops
      /\ task[s].base \in States /\ Committed(task[s].base)
  BY Typed DEF Recognise, AtStage, TaskOK
<1>2. Len(task[s].base) \in Nat /\ Len(task[s].base) <= Len(db)
  BY <1>1, LenProperties DEF Committed, States
<1>3. /\ task' = [task EXCEPT ![s] = Over]
      /\ UNCHANGED << db, cache, lease, active, sends, reads, reader, faults >>
      /\ acked' = acked \cup {task[s].op}
      /\ shown' = shown \/ shown' = Higher(shown, Len(task[s].base))
  BY DEF Recognise, Finish, storeVars, Faultless
<1>4. acked' \subseteq Ops /\ shown' \in Nat /\ shown' <= Len(db)
  BY <1>1, <1>2, <1>3, Typed DEF Higher
<1>5. Working(task[s])
  BY <1>1 DEF Working
<1> QED
  BY <1>1, <1>3, <1>4, <1>5, OverIsFine, Typed, WorkStepInv

\* The work of a process is given up: only the lease is left to be released.
LEMMA FinishInv ==
  ASSUME IInv, UNCHANGED << db, cache, lease, acked, shown, sends, reads, reader >>,
         NEW s \in Servers, Working(task[s]), Finish(s), task[s].stage # "committed",
         NEW state \in States \cup {NoState}, active' \in {active, [active EXCEPT ![s] = state]},
         faults' \in {faults, faults + 1}
  PROVE  IInv'
<1>1. task' = [task EXCEPT ![s] = Over]
  BY DEF Finish
<1> QED
  BY <1>1, OverIsFine, OwnStepInv

LEMMA RefuseStaleInv ==
  ASSUME IInv, NEW s \in Servers, RefuseStale(s)
  PROVE  IInv'
<1>1. Working(task[s]) /\ task[s].stage # "committed" /\ Finish(s)
  BY DEF RefuseStale, AtStage, Working
<1>2. UNCHANGED << db, cache, lease, active, acked, shown, sends, reads, reader, faults >>
  BY DEF RefuseStale, storeVars, clientVars, Faultless
<1> QED
  BY <1>1, <1>2, FinishInv

LEMMA WorkFailsInv ==
  ASSUME IInv, NEW s \in Servers, WorkFails(s)
  PROVE  IInv'
<1>1. Working(task[s]) /\ task[s].stage # "committed" /\ Finish(s)
  BY DEF WorkFails, AtStage, Working
<1>2. UNCHANGED << db, cache, lease, acked, shown, sends, reads, reader >> /\ faults' = faults + 1
  BY DEF WorkFails, storeVars, clientVars, Faulty
<1>3. CASE active' = active
  BY <1>1, <1>2, <1>3, FinishInv
<1>4. CASE AtStage(s, "decide") /\ active' = [active EXCEPT ![s] = Changed(s)]
  <2>1. Changed(s) \in States
    BY <1>4, Typed, Appended DEF AtStage, TaskOK, Changed
  <2> QED
    BY <1>1, <1>2, <1>4, <2>1, FinishInv
<1> QED
  BY <1>3, <1>4 DEF WorkFails

LEMMA TransitionInv ==
  ASSUME IInv, NEW s \in Servers, Transition(s)
  PROVE  IInv'
<1> DEFINE next == [task[s] EXCEPT !.stage = "commit"]
<1>1. /\ task[s].stage = "decide" /\ task[s].op \in Ops /\ task[s] \in Task
      /\ task[s].lostTo <= Len(db) /\ task[s].base \in States /\ Committed(task[s].base)
      /\ Len(task[s].base) >= task[s].lostTo /\ ~Contains(task[s].base, task[s].op)
  BY Typed DEF Transition, AtStage, TaskOK
<1>2. /\ next \in Task /\ next.stage = "commit" /\ next.lostTo = task[s].lostTo
      /\ next.op = task[s].op /\ next.base = task[s].base
  BY <1>1 DEF Task, Stages
<1>3. /\ task' = [task EXCEPT ![s] = next]
      /\ UNCHANGED << db, cache, lease, acked, shown, sends, reads, reader, faults >>
      /\ active' \in {active, [active EXCEPT ![s] = Changed(s)]}
  BY Typed DEF Transition, Enter, storeVars, clientVars, Faultless
<1> HIDE DEF next
<1>4. TaskOK(next) /\ Working(next) /\ Working(task[s])
  BY <1>1, <1>2 DEF TaskOK, Working
<1>5. Changed(s) \in States
  BY <1>1, Appended DEF Changed
<1>6. faults = 0 => task[s].base = db
  BY <1>1 DEF IInv, FaultlessOK
<1> QED
  BY <1>1, <1>2, <1>3, <1>4, <1>5, <1>6, OwnStepInv

LEMMA ConflictInv ==
  ASSUME IInv, NEW s \in Servers, Conflict(s)
  PROVE  IInv'
<1> DEFINE next == [task[s] EXCEPT !.stage = "loadDb", !.base = NoState, !.shared = FALSE,
                                   !.lostTo = Len(db)]
<1>1. task[s].stage = "commit" /\ task[s].op \in Ops /\ task[s] \in Task /\ Len(db) \in Nat
  BY Typed DEF Conflict, AtStage, TaskOK
<1>2. /\ next \in Task /\ next.stage = "loadDb" /\ next.lostTo = Len(db)
      /\ next.op = task[s].op
  BY <1>1 DEF Task, Stages
<1>3. /\ UNCHANGED << db, cache, lease, acked, shown, sends, reads, reader, faults >>
      /\ active' = [active EXCEPT ![s] = NoState]
      /\ task' = [task EXCEPT ![s] = Over] \/ task' = [task EXCEPT ![s] = next]
  BY Typed DEF Conflict, NoEntry, storeVars, clientVars, Faultless
<1> HIDE DEF next
<1>4. TaskOK(next) /\ Working(next) /\ Working(task[s])
  BY <1>1, <1>2 DEF TaskOK, Working
<1>5. CASE task' = [task EXCEPT ![s] = Over]
  BY <1>1, <1>3, <1>4, <1>5, FinishInv DEF Finish
<1>6. CASE task' = [task EXCEPT ![s] = next]
  BY <1>1, <1>2, <1>3, <1>4, <1>6, OwnStepInv
<1> QED
  BY <1>3, <1>5, <1>6
-------------------------------------------------------------------------------
(* Snapshots *)

\* A step that leaves every mutation in progress as it is.
LEMMA ReaderStepInv ==
  ASSUME IInv, UNCHANGED << db, cache, lease, active, task, acked, shown, sends, faults >>,
         reads' \in Nat, NEW s \in Servers, NEW next, ReaderOK(next),
         reader' = [reader EXCEPT ![s] = next]
  PROVE  IInv'
<1>1. reader' \in [Servers -> Reader] /\ \A r \in Servers : ReaderOK(reader'[r])
  BY Typed DEF ReaderOK
<1>2. task' = [task EXCEPT ![s] = task[s]] /\ TaskOK(task[s])
  BY Typed
<1>3. faults = 0 => (task[s].stage \in {"loadCache", "decide", "commit"} => task[s].base = db)
  BY DEF IInv, FaultlessOK
<1> QED
  BY <1>1, <1>2, <1>3, Typed, WorkStepInv

LEMMA ReadPersistedInv ==
  ASSUME IInv, NEW s \in Servers, ReadPersisted(s)
  PROVE  IInv'
<1> DEFINE next == [stage |-> "cache", state |-> db, floor |-> shown]
<1>1. ReaderOK(next)
  BY Typed, HistoryIsCommitted DEF ReaderOK, Reader
<1>2. /\ UNCHANGED << db, cache, lease, active, task, acked, shown, sends, faults >>
      /\ reads' \in Nat /\ reader' = [reader EXCEPT ![s] = next]
  BY Typed DEF ReadPersisted, storeVars, Faultless
<1> HIDE DEF next
<1> QED
  BY <1>1, <1>2, ReaderStepInv

LEMMA ReadCachedInv ==
  ASSUME IInv, NEW s \in Servers, ReadCached(s)
  PROVE  IInv'
<1> DEFINE state == NewerOf(cache, reader[s].state)
           next == [reader[s] EXCEPT !.stage = "fence", !.state = state]
<1>1. /\ reader[s] \in Reader /\ reader[s].state \in States /\ Committed(reader[s].state)
      /\ Len(reader[s].state) >= reader[s].floor /\ reader[s].floor \in Nat
  BY Typed DEF ReadCached, ReaderOK, Reader
<1>2. /\ state \in States /\ Committed(state) /\ Len(state) >= Len(reader[s].state)
      /\ Len(reader[s].state) \in Nat /\ Len(state) \in Nat
  BY <1>1, Typed, NewerIsCommitted, LenProperties DEF States
<1>3. /\ UNCHANGED << db, cache, lease, active, task, acked, shown, sends, faults, reads >>
      /\ reader' = [reader EXCEPT ![s] = next]
  BY Typed DEF ReadCached, storeVars, clientVars, Faultless
<1> HIDE DEF state
<1>4. next \in Reader /\ next.state = state /\ next.floor = reader[s].floor
  BY <1>1, <1>2 DEF Reader
<1> HIDE DEF next
<1>5. ReaderOK(next)
  BY <1>1, <1>2, <1>4 DEF ReaderOK
<1> QED
  BY <1>3, <1>5, Typed, ReaderStepInv

LEMMA NoReaderIsFine ==
  NoReader \in Reader /\ (NoReader \in Reader => ReaderOK(NoReader))
<1>1. NoReader \in Reader /\ NoReader.stage = "idle"
  BY EmptySeq DEF NoReader, Reader, States
<1> QED
  BY <1>1 DEF ReaderOK

LEMMA PublishReadInv ==
  ASSUME IInv, NEW s \in Servers, PublishRead(s)
  PROVE  IInv'
<1> DEFINE next == [task[s] EXCEPT !.shared = FALSE]
<1>1. /\ next \in Task /\ next.stage = task[s].stage /\ next.lostTo = task[s].lostTo
      /\ next.op = task[s].op /\ next.base = task[s].base
  BY Typed DEF Task
<1>2. task' = [task EXCEPT ![s] = next] /\ reader' = [reader EXCEPT ![s] = NoReader]
      /\ UNCHANGED << db, cache, lease, acked, sends, reads, faults >>
      /\ active' = [active EXCEPT ![s] = reader[s].state]
      /\ shown' = Higher(shown, Len(reader[s].state))
  BY Typed DEF PublishRead, storeVars, Faultless
<1>3. reader[s].state \in States /\ Len(reader[s].state) \in Nat
      /\ Len(reader[s].state) <= Len(db)
  BY Typed, LenProperties DEF PublishRead, ReaderOK, Reader, Committed, States
<1>4. active' \in [Servers -> States \cup {NoState}] /\ shown' \in Nat /\ shown' <= Len(db)
  BY <1>2, <1>3, Typed DEF Higher
<1>5. reader' \in [Servers -> Reader] /\ \A r \in Servers : ReaderOK(reader'[r])
  BY <1>2, Typed, NoReaderIsFine
<1> HIDE DEF next
<1>6. TaskOK(next) /\ (Working(next) <=> Working(task[s]))
  BY <1>1, Typed DEF TaskOK, Working
<1>7. faults = 0 => (next.stage \in {"loadCache", "decide", "commit"} => next.base = db)
  BY <1>1 DEF IInv, FaultlessOK
<1> QED
  BY <1>1, <1>2, <1>4, <1>5, <1>6, <1>7, Typed, WorkStepInv

LEMMA CrashInv ==
  ASSUME IInv, NEW s \in Servers, Crash(s)
  PROVE  IInv'
<1>1. task' = [task EXCEPT ![s] = NoTask] /\ reader' = [reader EXCEPT ![s] = NoReader]
      /\ UNCHANGED << db, cache, lease, acked, shown, sends, reads >> /\ faults' = faults + 1
      /\ active' = [active EXCEPT ![s] = NoState]
  BY DEF Crash, storeVars, clientVars, Faulty
<1>2. reader' \in [Servers -> Reader] /\ \A r \in Servers : ReaderOK(reader'[r])
  BY <1>1, Typed, NoReaderIsFine
<1>3. active' \in [Servers -> States \cup {NoState}]
  BY <1>1, Typed
<1> QED
  BY <1>1, <1>2, <1>3, OverIsFine, Typed, WorkStepInv

-------------------------------------------------------------------------------
(* Steps on the lease and on the cache *)

\* A step that leaves the history alone; what it does to the lease and the cache is shown apart.
LEMMA StoreStepInv ==
  ASSUME IInv, UNCHANGED << db, reader >>, NEW s \in Servers,
         NEW next, task' = [task EXCEPT ![s] = next], TaskOK(next),
         cache' \in States \cup {NoState}, cache' # NoState => Committed(cache'),
         lease' \in Servers \cup {NoServer}, active' \in [Servers -> States \cup {NoState}],
         acked' \subseteq Ops, shown' \in Nat, shown' <= Len(db), sends' \in [Ops -> Nat],
         reads' \in Nat, faults' \in Nat, FaultlessOK'
  PROVE  IInv'
<1>1. StoreOK'
  <2>1. cache' # NoState => Committed(cache)'
    BY DEF Committed
  <2> QED
    BY <2>1, Typed DEF StoreOK
<1>2. \A r \in Servers : task'[r] = IF r = s THEN next ELSE task[r]
  BY Typed
<1>3. task' \in [Servers -> Task] /\ \A r \in Servers : TaskOK(task[r])'
  BY <1>2, SameHistory, Typed DEF IInv, TaskOK
<1>4. reader' \in [Servers -> Reader] /\ \A r \in Servers : ReaderOK(reader[r])'
  BY SameHistory, Typed DEF ReaderOK
<1> QED
  BY <1>1, <1>3, <1>4 DEF IInv

LEMMA AcquireLeaseInv ==
  ASSUME IInv, NEW s \in Servers, AcquireLease(s)
  PROVE  IInv'
<1> DEFINE stage == IF active[s] = NoState THEN "loadDb" ELSE "loadActive"
           next == [task[s] EXCEPT !.stage = stage, !.base = active[s],
                                   !.shared = active[s] # NoState]
<1>1. /\ task[s].stage = "acquire" /\ task[s].op \in Ops /\ task[s].lostTo = 0
      /\ task[s] \in Task /\ active[s] \in States \cup {NoState} /\ Len(db) \in Nat
  BY Typed DEF AcquireLease, AtStage, TaskOK
<1>2. /\ task' = [task EXCEPT ![s] = next] /\ lease = NoServer /\ lease' = s
      /\ UNCHANGED << db, cache, active, reader, acked, shown, sends, reads, faults >>
  BY Typed DEF AcquireLease, LeaseFree, clientVars, Faultless
<1>3. /\ next \in Task /\ next.stage \in {"loadDb", "loadActive"}
      /\ next.stage = "loadActive" => active[s] # NoState
      /\ next.base = active[s] /\ next.op = task[s].op /\ next.lostTo = 0
  BY <1>1 DEF Task, Stages
<1> HIDE DEF next
<1>4. TaskOK(next)
  BY <1>1, <1>3 DEF TaskOK
<1>5. FaultlessOK'
  <2>1. ASSUME faults = 0
        PROVE  cache = db /\ \A r \in Servers : ~Working(task[r])
    BY <1>2, <2>1, NothingAssumption DEF IInv, FaultlessOK, Working
  <2>2. \A r \in Servers : task'[r] = IF r = s THEN next ELSE task[r]
    BY <1>2, Typed
  <2> SUFFICES ASSUME faults = 0, faults' = 0 PROVE FaultlessOK'
    BY <1>2 DEF FaultlessOK
  <2>3. \A r \in Servers : task'[r].stage \notin {"loadCache", "decide", "commit", "committed"}
                           /\ (Working(task'[r]) <=> r = s)
    BY <1>3, <2>1, <2>2 DEF Working
  <2> QED
    BY <1>2, <2>1, <2>3 DEF FaultlessOK, Working
<1> QED
  BY <1>2, <1>4, <1>5, Typed, StoreStepInv

LEMMA ReleaseLeaseInv ==
  ASSUME IInv, NEW s \in Servers, ReleaseLease(s)
  PROVE  IInv'
<1>1. /\ task' = [task EXCEPT ![s] = NoTask] /\ task[s].stage = "release"
      /\ \/ lease' = (IF lease = s THEN NoServer ELSE lease) /\ faults' = faults
         \/ lease' = lease /\ faults' = faults + 1
      /\ UNCHANGED << db, cache, active, reader, acked, shown, sends, reads >>
  BY DEF ReleaseLease, AtStage, clientVars, Faulty, Faultless
<1>2. lease \in Servers \cup {NoServer}
  BY DEF IInv, StoreOK
<1>3. lease' \in Servers \cup {NoServer} /\ faults' \in Nat
  BY <1>1, <1>2, Typed
<1>4. FaultlessOK'
  <2> SUFFICES ASSUME faults' = 0 PROVE FaultlessOK'
    BY DEF FaultlessOK
  <2>1. faults = 0 /\ lease' = (IF lease = s THEN NoServer ELSE lease)
    BY <1>1, Typed
  <2>2. Working(task[s]) /\ task[s].stage # "committed"
    BY <1>1 DEF Working
  <2>3. cache = db /\ lease = s /\ \A r \in Servers : Working(task[r]) <=> r = s
    BY <2>1, <2>2, FaultlessCache DEF IInv, FaultlessOK
  <2>4. \A r \in Servers : task'[r] = IF r = s THEN NoTask ELSE task[r]
    BY <1>1, Typed
  <2>5. \A r \in Servers : ~Working(task'[r])
    BY <2>3, <2>4, OverIsFine
  <2> QED
    BY <1>1, <2>1, <2>3, <2>5, NothingAssumption DEF FaultlessOK, Working
<1> QED
  BY <1>1, <1>3, <1>4, OverIsFine, Typed, StoreStepInv

LEMMA LeaseExpiresInv ==
  ASSUME IInv, LeaseExpires
  PROVE  IInv'
<1>1. /\ lease \in Servers /\ lease' = NoServer
      /\ UNCHANGED << db, cache, active, task, reader, acked, shown, sends, reads >>
      /\ (faults' = faults /\ ~Working(task[lease])) \/ faults' = faults + 1
  BY DEF LeaseExpires, IInv, StoreOK, clientVars, Faulty, Faultless, Working
<1>2. FaultlessOK'
  <2> SUFFICES ASSUME faults' = 0 PROVE FALSE
    BY DEF FaultlessOK
  <2>1. faults = 0 /\ ~Working(task[lease])
    BY <1>1 DEF IInv, StoreOK
  <2> QED
    BY <1>1, <2>1 DEF IInv, FaultlessOK
<1>3. task' = [task EXCEPT ![lease] = task[lease]] /\ TaskOK(task[lease]) /\ faults' \in Nat
  BY <1>1, Typed
<1>4. cache' \in States \cup {NoState} /\ (cache' # NoState => Committed(cache'))
  BY <1>1, Typed
<1> QED
  BY <1>1, <1>2, <1>3, <1>4, Typed, StoreStepInv

LEMMA CacheEvictedInv ==
  ASSUME IInv, CacheEvicted
  PROVE  IInv'
<1>1. cache' = NoState /\ faults' = faults + 1
      /\ UNCHANGED << db, lease, active, task, reader, acked, shown, sends, reads >>
  BY DEF CacheEvicted, clientVars, Faulty
<1>2. StoreOK'
  BY <1>1 DEF IInv, StoreOK
<1>3. FaultlessOK'
  BY <1>1 DEF IInv, StoreOK, FaultlessOK
<1>4. \A s \in Servers : TaskOK(task[s])' /\ ReaderOK(reader[s])'
  BY <1>1, SameHistory DEF IInv, TaskOK, ReaderOK
<1> QED
  BY <1>1, <1>2, <1>3, <1>4 DEF IInv
\* The write of the cache, then the reply: what the work committed is cached and shown.
LEMMA WriteCacheInv ==
  ASSUME IInv, NEW s \in Servers, WriteCache(s)
  PROVE  IInv'
<1>1. /\ task[s].stage = "committed" /\ task[s].op \in Ops /\ task[s].base \in States
      /\ Committed(Changed(s))
  BY Typed DEF WriteCache, AtStage, TaskOK, Changed
<1>2. Changed(s) \in States /\ Len(Changed(s)) \in Nat /\ Len(Changed(s)) <= Len(db)
  BY <1>1, Appended, LenProperties DEF Changed, States, Committed
<1>3. /\ task' = [task EXCEPT ![s] = Over]
      /\ UNCHANGED << db, lease, active, reader, sends, reads >>
      /\ \/ cache' = Changed(s) /\ faults' = faults
         \/ cache' = cache /\ faults' = faults + 1
      /\ shown' = Higher(shown, Len(Changed(s))) /\ acked' = acked \cup {task[s].op}
  BY DEF WriteCache, Finish, Faulty, Faultless
<1>4. /\ cache' \in States \cup {NoState} /\ (cache' # NoState => Committed(cache'))
      /\ acked' \subseteq Ops /\ faults' \in Nat
  BY <1>1, <1>2, <1>3, Typed
<1>5. shown' \in Nat /\ shown' <= Len(db)
  BY <1>2, <1>3, Typed DEF Higher
<1>6. lease \in Servers \cup {NoServer}
  BY DEF IInv, StoreOK
<1>7. FaultlessOK'
  <2> SUFFICES ASSUME faults' = 0 PROVE FaultlessOK'
    BY DEF FaultlessOK
  <2>1. faults = 0 /\ cache' = Changed(s)
    BY <1>3, Typed
  <2>2. Changed(s) = db /\ \A r \in Servers : Working(task[r]) <=> lease = r
    BY <1>1, <2>1 DEF IInv, FaultlessOK
  <2>3. Working(task[s])
    BY <1>1 DEF Working
  <2>4. \A r \in Servers : task'[r] = IF r = s THEN Over ELSE task[r]
    BY <1>3, Typed
  <2>5. \A r \in Servers : r # s => ~Working(task'[r])
    BY <2>2, <2>3, <2>4
  <2> QED
    BY <1>3, <2>1, <2>2, <2>3, <2>4, <2>5, OverIsFine DEF FaultlessOK, Working
<1> QED
  BY <1>3, <1>4, <1>5, <1>6, <1>7, OverIsFine, Typed, StoreStepInv

-------------------------------------------------------------------------------
(* Steps that add to the history *)

LEMMA WholePrefix ==
  ASSUME NEW state \in States
  PROVE  Len(state) \in Nat /\ state = SubSeq(state, 1, Len(state))
<1> DEFINE prefix == SubSeq(state, 1, Len(state))
<1>1. Len(state) \in Nat /\ \A i \in 1..Len(state) : state[i] \in Ops
  BY LenProperties, ElementOfSeq DEF States
<1>2. /\ prefix \in Seq(Ops)
      /\ Len(prefix) = IF 1 <= Len(state) THEN Len(state) - 1 + 1 ELSE 0
      /\ \A i \in 1..(Len(state) - 1 + 1) : prefix[i] = state[1 + i - 1]
  BY <1>1, SubSeqProperties
<1> HIDE DEF prefix
<1>3. state = prefix
  BY <1>1, <1>2, SeqEqual DEF States
<1> QED
  BY <1>1, <1>3 DEF prefix

\* The version matched: the state worked on is the whole history, which gains the mutation.
LEMMA AppendsToHistory ==
  ASSUME IInv, NEW s \in Servers, task[s].stage = "commit", ExpectedVersion(s), db' = Changed(s)
  PROVE  /\ task[s].base = db /\ task[s].op \in Ops /\ ~Contains(db, task[s].op)
         /\ db' = Append(db, task[s].op) /\ db' \in States /\ Len(db') = Len(db) + 1
         /\ Len(db) \in Nat /\ \A state : state = db' => Committed(state)'
<1>1. task[s].base \in States /\ Committed(task[s].base) /\ task[s].op \in Ops
      /\ ~Contains(task[s].base, task[s].op)
  BY Typed DEF TaskOK
<1>2. task[s].base = db
  BY <1>1, Typed, SameVersionIsHistory DEF ExpectedVersion
<1>3. db' = Append(db, task[s].op)
  BY <1>2 DEF Changed
<1>4. db' \in States /\ Len(db') = Len(db) + 1 /\ Len(db) \in Nat
  BY <1>1, <1>3, Typed, Appended
<1>5. db' = SubSeq(db', 1, Len(db')) /\ Len(db') <= Len(db')
  BY <1>4, WholePrefix
<1>6. \A state : state = db' => Committed(state)'
  BY <1>5 DEF Committed
<1> QED
  BY <1>1, <1>2, <1>3, <1>4, <1>6

\* Everything of the history before the step is of the history after it.
LEMMA HistoryStepInv ==
  ASSUME IInv, NEW s \in Servers, task[s].stage = "commit", ExpectedVersion(s), db' = Changed(s),
         UNCHANGED << cache, lease, reader, sends, reads >>,
         active' \in [Servers -> States \cup {NoState}], acked' \subseteq Ops,
         shown' \in Nat, shown' <= Len(db) + 1,
         \/ Enter(s, "committed") /\ faults' = faults
         \/ Finish(s) /\ faults' = faults + 1
  PROVE  IInv'
<1> DEFINE next == [task[s] EXCEPT !.stage = "committed"]
           o == task[s].op
<1>1. /\ task[s].base = db /\ o \in Ops /\ db' = Append(db, o) /\ db' \in States
      /\ Len(db') = Len(db) + 1 /\ Len(db) \in Nat /\ \A state : state = db' => Committed(state)'
  BY AppendsToHistory
<1>2. \A state \in States : Committed(state) => Committed(state)'
  BY <1>1, Typed, CommittedIsKept
<1>3. StoreOK'
  <2>1. cache' # NoState => Committed(cache)'
    BY <1>2, Typed DEF Committed
  <2>2. lease' \in Servers \cup {NoServer} /\ faults' \in Nat
    BY Typed DEF IInv, StoreOK
  <2> QED
    BY <1>1, <2>1, <2>2, Typed DEF StoreOK
<1>4. \A t : TaskOK(t) /\ t.stage # "committed" => TaskOK(t)'
  BY <1>1, <1>2 DEF TaskOK, Task
<1>5. \A t : TaskOK(t) /\ t.stage = "committed" => TaskOK(t)'
  <2>1. ASSUME NEW t, TaskOK(t), t.stage = "committed"
        PROVE  Append(t.base, t.op) \in States
    BY <2>1, Appended DEF TaskOK
  <2> QED
    BY <1>1, <1>2, <2>1 DEF TaskOK, Task
<1>6. \A r : ReaderOK(r) => ReaderOK(r)'
  BY <1>2 DEF ReaderOK, Reader
<1>7. reader' \in [Servers -> Reader] /\ \A r \in Servers : ReaderOK(reader[r])'
  <2>1. \A r \in Servers : ReaderOK(reader[r])
    BY Typed
  <2> QED
    BY <1>6, <2>1, Typed DEF ReaderOK
<1>8. /\ task[s] \in Task /\ next \in Task /\ next.stage = "committed" /\ next.op = o
      /\ next.base = db /\ next.lostTo = task[s].lostTo
  BY <1>1, Typed DEF Task, Stages
<1>9. PICK n : n = next
  OBVIOUS
<1>10. TaskOK(n)'
  <2>1. n.lostTo <= Len(db')
    BY <1>1, <1>8, <1>9, Typed DEF TaskOK, Task
  <2>2. Committed(Append(n.base, n.op))'
    BY <1>1, <1>8, <1>9
  <2> HIDE DEF next
  <2> QED
    BY <1>1, <1>8, <1>9, <2>1, <2>2, Typed DEF TaskOK
<1>11. TaskOK(Over) /\ TaskOK(Over)'
  BY <1>4, OverIsFine DEF Over, NoTask
<1>12. \A r \in Servers : task[r] \in Task /\ TaskOK(task[r])
  BY DEF IInv
<1> HIDE DEF next
<1>13. CASE Enter(s, "committed") /\ faults' = faults
  <2>1. task' = [task EXCEPT ![s] = n]
    BY <1>9, <1>13, Typed DEF Enter, next
  <2>2. \A r \in Servers : task'[r] = IF r = s THEN n ELSE task[r]
    BY <2>1, Typed
  <2>3. task' \in [Servers -> Task]
    BY <1>8, <1>9, <2>1, Typed
  <2>4. \A r \in Servers : TaskOK(task[r])'
    BY <1>4, <1>5, <1>10, <1>12, <2>2 DEF TaskOK
  <2>5. FaultlessOK'
    <3> SUFFICES ASSUME faults = 0 PROVE FaultlessOK'
      BY <1>13 DEF FaultlessOK
    <3>1. \A r \in Servers : Working(task[r]) <=> lease = r
      BY DEF IInv, FaultlessOK
    <3>2. Working(task[s]) /\ Working(n) /\ n.stage = "committed"
      BY <1>8, <1>9 DEF Working
    <3>3. \A r \in Servers : Working(task'[r]) <=> lease = r
      BY <2>2, <3>1, <3>2
    <3>4. \A r \in Servers : r # s => ~Working(task'[r])
      BY <2>2, <3>1, <3>2
    <3>5. task'[s] = n /\ Append(n.base, n.op) = db'
      BY <1>1, <1>8, <1>9, <2>2
    <3> QED
      BY <3>2, <3>3, <3>4, <3>5 DEF FaultlessOK, Working, Changed
  <2> QED
    BY <1>3, <1>7, <2>3, <2>4, <2>5 DEF IInv
<1>14. CASE Finish(s) /\ faults' = faults + 1
  <2>1. task' = [task EXCEPT ![s] = Over]
    BY <1>14 DEF Finish
  <2>2. \A r \in Servers : task'[r] = IF r = s THEN Over ELSE task[r]
    BY <2>1, Typed
  <2>3. task' \in [Servers -> Task]
    BY <1>11, <2>1, Typed DEF TaskOK
  <2>4. \A r \in Servers : TaskOK(task[r])'
    BY <1>4, <1>5, <1>11, <1>12, <2>2 DEF TaskOK
  <2>5. FaultlessOK'
    BY <1>14, Typed DEF FaultlessOK
  <2> QED
    BY <1>3, <1>7, <2>3, <2>4, <2>5 DEF IInv
<1> QED
  BY <1>13, <1>14

LEMMA CommitInv ==
  ASSUME IInv, NEW s \in Servers, Commit(s)
  PROVE  IInv'
<1>1. /\ task[s].stage = "commit" /\ ExpectedVersion(s) /\ db' = Changed(s)
      /\ UNCHANGED << cache, lease, reader, sends, reads, faults >> /\ Enter(s, "committed")
      /\ active' = [active EXCEPT ![s] = Changed(s)]
      /\ acked' = acked \/ acked' = acked \cup {task[s].op}
      /\ shown' = shown \/ shown' = Higher(shown, Len(Changed(s)))
  BY DEF Commit, AtStage, Faultless
<1>2. db' \in States /\ Len(db') = Len(db) + 1 /\ Len(db) \in Nat /\ task[s].op \in Ops
  BY <1>1, AppendsToHistory
<1>3. active' \in [Servers -> States \cup {NoState}] /\ acked' \subseteq Ops
  BY <1>1, <1>2, Typed
<1>4. shown' \in Nat /\ shown' <= Len(db) + 1
  BY <1>1, <1>2, Typed DEF Higher
<1> QED
  BY <1>1, <1>3, <1>4, HistoryStepInv

LEMMA CommitFailsInv ==
  ASSUME IInv, NEW s \in Servers, CommitFails(s)
  PROVE  IInv'
<1>1. /\ task[s].stage = "commit" /\ task' = [task EXCEPT ![s] = Over]
      /\ UNCHANGED << cache, lease, reader, acked, shown, sends, reads >>
      /\ active' = [active EXCEPT ![s] = EntryAfterFailure(s)] /\ faults' = faults + 1
  BY DEF CommitFails, AtStage, AfterFailure, Faulty, clientVars
<1>2. EntryAfterFailure(s) \in States \cup {NoState}
  BY <1>1, Typed DEF EntryAfterFailure, TaskOK
<1>3. CASE db' = db
  BY <1>1, <1>2, <1>3, FinishInv DEF Finish, Working
<1>4. CASE ExpectedVersion(s) /\ db' = Changed(s)
  <2>1. active' \in [Servers -> States \cup {NoState}] /\ shown <= Len(db) + 1
    BY <1>1, <1>2, Typed
  <2> QED
    BY <1>1, <1>4, <2>1, HistoryStepInv, Typed DEF Finish
<1> QED
  BY <1>3, <1>4 DEF CommitFails

-------------------------------------------------------------------------------
(* The invariant holds, and with it what is checked of the writers *)

LEMMA NextInv == IInv /\ [Next]_vars => IInv'
<1> SUFFICES ASSUME IInv, [Next]_vars PROVE IInv'
  OBVIOUS
<1>1. ASSUME NEW s \in Servers,
             \/ \E o \in Ops : Receive(s, o)
             \/ AcquireLease(s) \/ GiveUp(s) \/ ReleaseLease(s)
      PROVE  IInv'
  BY <1>1, ReceiveInv, AcquireLeaseInv, GiveUpInv, ReleaseLeaseInv
<1>2. ASSUME NEW s \in Servers,
             UseActive(s) \/ DistrustActive(s) \/ LoadPersisted(s) \/ LoadCached(s)
      PROVE  IInv'
  BY <1>2, UseActiveInv, DistrustActiveInv, LoadPersistedInv, LoadCachedInv
<1>3. ASSUME NEW s \in Servers,
             \/ Recognise(s) \/ RefuseStale(s) \/ Transition(s) \/ Commit(s)
             \/ Conflict(s) \/ CommitFails(s) \/ WriteCache(s) \/ WorkFails(s)
      PROVE  IInv'
  BY <1>3, RecogniseInv, RefuseStaleInv, TransitionInv, CommitInv, ConflictInv, CommitFailsInv,
     WriteCacheInv, WorkFailsInv
<1>4. ASSUME NEW s \in Servers,
             ReadPersisted(s) \/ ReadCached(s) \/ PublishRead(s) \/ Crash(s)
      PROVE  IInv'
  BY <1>4, ReadPersistedInv, ReadCachedInv, PublishReadInv, CrashInv
<1>5. CASE LeaseExpires \/ CacheEvicted
  BY <1>5, LeaseExpiresInv, CacheEvictedInv
<1>6. CASE UNCHANGED vars
  BY <1>6 DEF vars, storeVars, clientVars, IInv, StoreOK, FaultlessOK, TaskOK, ReaderOK,
              Committed, Working, Changed
<1> QED
  BY <1>1, <1>2, <1>3, <1>4, <1>5, <1>6 DEF Next

LEMMA Invariant == Spec => []IInv
BY InitInv, NextInv, PTL DEF Spec

\* Whatever crashes, lapses or is lost: the cache and the work of every process are states the
\* session has durably been in (mutate, loadSessionForMutation and save of session-service.ts).
THEOREM WritersInvariant == Spec => []WritersInv
BY Invariant, InvariantSuffices, PTL

\* The mutation lease does what it is for: as long as nothing fails whoever decides holds the
\* latest state, and no client is refused because of another process.
THEOREM LeaseMakesConflictsImpossible == Spec => []FaultlessWorkIsCurrent
BY Invariant, InvariantSuffices, PTL

\* loadSession reads the row before the cache and keeps the newer: no snapshot goes back behind
\* what a client had been shown when it was asked for.
THEOREM SnapshotsAreMonotonic == Spec => []SnapshotsNeverGoBack
BY Invariant, InvariantSuffices, PTL

\* The retry after a version conflict works on a state at least as new as the one it lost to.
THEOREM RetryWorksOnTheWinner == Spec => []RetryIsCanonical
BY Invariant, InvariantSuffices, PTL

-------------------------------------------------------------------------------
(* The refinement *)

LEMMA InitRefines == Init => Linear!LinearInit
BY DEF Init, Linear!LinearInit

LEMMA StepRefines ==
  IInv /\ [Next]_vars => [Linear!LinearNext]_<<db, acked>>
<1> SUFFICES ASSUME IInv, Next, ~UNCHANGED << db, acked >>
             PROVE  Linear!LinearNext
  BY DEF vars, storeVars, clientVars
<1>1. PICK s \in Servers : Recognise(s) \/ Commit(s) \/ CommitFails(s) \/ WriteCache(s)
  BY DEF Next, Receive, AcquireLease, GiveUp, ReleaseLease, UseActive, DistrustActive,
         LoadPersisted, LoadCached, RefuseStale, Transition, Conflict, WorkFails, ReadPersisted,
         ReadCached, PublishRead, Crash, LeaseExpires, CacheEvicted, storeVars, clientVars
<1> DEFINE o == task[s].op
<1>2. CASE Recognise(s)
  <2>1. o \in Ops /\ acked' = acked \cup {o} /\ db' = db /\ Contains(db, o)
    BY <1>2, Typed, ContainedIsApplied DEF Recognise, AtStage, TaskOK, storeVars
  <2> QED
    BY <2>1 DEF Linear!LinearNext, Linear!Acknowledge, Linear!Applied, Contains
<1>3. CASE WriteCache(s)
  <2>1. /\ task[s].base \in States /\ o \in Ops /\ Committed(Append(task[s].base, o))
        /\ acked' = acked \cup {o} /\ db' = db
    BY <1>3, Typed DEF WriteCache, AtStage, TaskOK
  <2>2. Contains(db, o)
    BY <2>1, Typed, Appended, ContainedIsApplied
  <2> QED
    BY <2>1, <2>2 DEF Linear!LinearNext, Linear!Acknowledge, Linear!Applied, Contains
<1>4. CASE Commit(s) \/ CommitFails(s)
  <2>1. /\ task[s].stage = "commit" /\ ExpectedVersion(s) /\ db' = Changed(s)
        /\ acked' = acked \/ acked' = acked \cup {o}
    BY <1>4 DEF Commit, CommitFails, AtStage, clientVars
  <2>2. o \in Ops /\ ~Contains(db, o) /\ db' = Append(db, o)
    BY <2>1, AppendsToHistory
  <2>3. \E acknowledged \in BOOLEAN : acked' = IF acknowledged THEN acked \cup {o} ELSE acked
    BY <2>1
  <2> QED
    BY <2>2, <2>3 DEF Linear!LinearNext, Linear!Apply, Linear!Applied, Contains
<1> QED
  BY <1>1, <1>2, <1>3, <1>4

\* All processes together implement one session history: no mutation is lost or applied twice,
\* however often it is sent, and whatever was acknowledged is durable.
THEOREM OneHistory == Spec => ImplementsLinearSession
BY Invariant, InitRefines, StepRefines, PTL DEF Spec, ImplementsLinearSession, Linear!LinearSpec
===============================================================================
