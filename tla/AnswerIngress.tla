---------------------------- MODULE AnswerIngress ----------------------------
(***************************************************************************)
(* How answers travel from their receipt to a verdict, and how the lock,   *)
(* pause and deadline of an open question keep from overtaking them        *)
(* (apps/server/src/session-service.ts).                                   *)
(*                                                                         *)
(* A server stamps an answer on receipt, looks up its participant, gathers *)
(* it with others in a short-lived batch, and queues the batch for the     *)
(* session's mutations.  A command that closes the question takes a        *)
(* cutoff, raises a barrier behind which later answers are deferred, and   *)
(* flushes the earlier ones before it queues itself.  Everything but the   *)
(* room is private to one server process.                                  *)
(*                                                                         *)
(* A mutation is one step here; SessionWriters opens it up.  Answers are   *)
(* named by their participants, one each; what is told apart in a batch or *)
(* behind a barrier is who is in it, not in which order they came.  One    *)
(* tick stands for the 50 ms of answerBatchWindowMs.                       *)
(***************************************************************************)
EXTENDS Integers, FiniteSets, FiniteSetsExt, Sequences

CONSTANTS Servers,        \* server processes
          Participants,   \* of the room, each awaited by the open question
          Answering,      \* bound: those that answer it, once each
          HostCommands,   \* commands the host may send, one of each
          AutoLocks,      \* runs of the deadline timer's handler
          Never,          \* the value of a timer that is not armed
          Nobody,         \* no participant and no server
          BatchWindow,    \* answerBatchWindowMs
          MaxBatchWait,   \* maximumAnswerBatchWaitMs
          MaxBatchSize,   \* maximumAnswerBatchSize
          LockDelay,      \* answerBatchWindowMs + 5 ms, rounded up to ticks
          FirstDeadline,  \* the deadline of the question when it opens
          MaxTime,        \* bound on the clock
          MaxAhead,       \* bound on the answers a host counts on in advance
          MaxFaults,      \* bound on failures
          MaxLoads,       \* bound on unqueued loads of the session
          MaxMishaps      \* bound on both together

Closers == HostCommands \cup AutoLocks

ASSUME IngressAssumption ==
  /\ HostCommands \cap AutoLocks = {} /\ Answering \subseteq Participants
  /\ IsFiniteSet(Participants) /\ Nobody \notin Participants \cup Servers
  /\ {BatchWindow, MaxBatchWait, MaxBatchSize, LockDelay} \subseteq Nat \ {0}
  /\ {FirstDeadline, MaxTime, MaxAhead, MaxFaults, MaxLoads, MaxMishaps} \subseteq Nat
  /\ Never \notin Nat

VARIABLES
  now,      \* the wall clock the servers share
  room,     \* the committed phase, deadline, paused remainder and version
  answer,   \* per participant: where the answer is, its server and receipt
  closer,   \* per closing command or timer run: its control state
  batch,    \* per server: answerBatches
  deferred, \* per server: the items of answerIngressBarriers
  queue,    \* per server: the mutations waiting in queues
  timer,    \* per server: timers, what an armed timer is for and when it fires
  closing,  \* per server: closing
  loading,  \* per server: the room an unqueued loadSession has read
  owed,     \* history: on-time answers no closing command has cut off
  faults, loads

vars == <<now, room, answer, closer, batch, deferred, queue, timer, closing,
          loading, owed, faults, loads>>

MayFail == faults < MaxFaults /\ faults + loads < MaxMishaps
MayLoad == loads < MaxLoads /\ faults + loads < MaxMishaps

Verdicts == {"accepted", "late", "refused", "error"}
Settled(p) == answer[p].stage \in Verdicts

\* A faulty variant: answers whose look-up is pending are not counted.
IngressReadyOnly(s, cutoff) ==
  IF closing[s] THEN {}
  ELSE {p \in Participants : /\ answer[p].server = s
                             /\ answer[p].stage = "ready"
                             /\ answer[p].at <= cutoff}

\* this.answerIngress: answers received and not yet settled.
Ingress(s, cutoff) ==
  IF closing[s] THEN {}
  ELSE {p \in Participants : /\ answer[p].server = s
                             /\ answer[p].stage \in {"resolving", "ready"}
                             /\ answer[p].at <= cutoff}

\* The cutoffs of a server's barrier: those of the closers that hold it.
Holders(s) == {c \in Closers : closer[c].server = s /\ closer[c].holds}
Cutoffs(holders) == {closer[c].cutoff : c \in holders}

\* What was received after the earliest of the cutoffs.
After(items, cutoffs) == {p \in items : \E t \in cutoffs : answer[p].at > t}

NoBatch == [items |-> {}, due |-> 0, force |-> 0, awaiting |-> {}]

Idle == [pc |-> "idle", server |-> Nobody, action |-> "lock", expected |-> 0,
         cutoff |-> 0, waiting |-> {}, holds |-> FALSE]
Done == [Idle EXCEPT !.pc = "done"]

AnswersJob(items) == [kind |-> "answers", items |-> items, by |-> Never]
CommandJob(c) == [kind |-> "command", items |-> {}, by |-> c]

\* The items in slices of MaxBatchSize, the last of them with what is left.
Chunks(items) ==
  LET last == (Cardinality(items) + MaxBatchSize - 1) \div MaxBatchSize
  IN {chunks \in [1..last -> SUBSET items] :
        /\ \A p \in items : \E i \in 1..last : p \in chunks[i]
        /\ \A i, j \in 1..last : i # j => chunks[i] \cap chunks[j] = {}
        /\ \A i \in 1..(last - 1) : Cardinality(chunks[i]) = MaxBatchSize}

\* processPendingAnswerItems: one mutation per slice joins the queue.
Processed(q, items) ==
  {q \o [i \in DOMAIN chunks |-> AnswersJob(chunks[i])] : chunks \in Chunks(items)}

Process(s, q, items) == \E longer \in Processed(q, items) : queue' = [queue EXCEPT ![s] = longer]

\* An answer that is not under way keeps nothing but its outcome.
Outcome(verdict) == [stage |-> verdict, server |-> Nobody, at |-> 0]

Verdict(items, verdict) ==
  [p \in Participants |-> IF p \in items THEN Outcome(verdict) ELSE answer[p]]

\* A faulty variant: a deadline that has passed is not scheduled.
ScheduledAhead(r) ==
  IF r.phase = "open" /\ r.deadline > now
  THEN [deadline |-> r.deadline, due |-> r.deadline + LockDelay]
  ELSE Never

\* scheduleDeadline: LockDelay after the deadline, or from now when it has
\* passed; a wait the clock's bound would cut short ends at the bound.
Scheduled(r) ==
  IF r.phase = "open"
  THEN [deadline |-> r.deadline,
        due |-> Max({r.deadline + LockDelay, Min({now + LockDelay, MaxTime})})]
  ELSE Never

-----------------------------------------------------------------------------
(* The answers *)

\* answer: the receipt time is taken before anything is awaited.
Receive(p, s) ==
  /\ p \in Answering /\ answer[p].stage = "unsent"
  /\ answer' = [answer EXCEPT ![p] = [stage |-> "resolving", server |-> s, at |-> now]]
  /\ owed' = IF room.phase = "open" /\ now <= room.deadline THEN owed \cup {p} ELSE owed
  /\ UNCHANGED <<now, room, closer, batch, deferred, queue, timer, closing, loading,
                 faults, loads>>

\* participantsAwaitingAnswer: who the batch may be complete with.
Awaiting ==
  LET awaiting == {p \in Participants : answer[p].stage # "accepted"}
  IN IF room.phase = "open" /\ awaiting # {} THEN awaiting ELSE {Nobody}

QuietUntil(force) == Min({now + BatchWindow, force, MaxTime})

\* The batch that p joins: a new one if there is none.
Joined(p, s) ==
  LET b == IF batch[s] = NoBatch
           THEN [NoBatch EXCEPT !.force = now + MaxBatchWait, !.awaiting = Awaiting]
           ELSE batch[s]
  IN [items |-> b.items \cup {p}, due |-> QuietUntil(b.force),
      force |-> b.force, awaiting |-> b.awaiting \ {p}]

Complete(b) == Cardinality(b.items) >= MaxBatchSize \/ b.awaiting = {}

\* A barrier defers what was received after its earliest cutoff.
HeldBack(p, s) == After({p}, Cutoffs(Holders(s))) # {}

\* queueAnswer, once the participant's token has been looked up.
Resolve(p) ==
  LET s == answer[p].server
      b == Joined(p, s)
  IN /\ answer[p].stage = "resolving"
     /\ \/ /\ closing[s]
           /\ answer' = [answer EXCEPT ![p] = Outcome("error")]
           /\ UNCHANGED <<batch, deferred, queue>>
        \/ /\ ~closing[s]
           /\ answer' = [answer EXCEPT ![p].stage = "ready"]
           /\ IF HeldBack(p, s)
              THEN /\ deferred' = [deferred EXCEPT ![s] = @ \cup {p}]
                   /\ UNCHANGED <<batch, queue>>
              ELSE /\ batch' = [batch EXCEPT ![s] = IF Complete(b) THEN NoBatch ELSE b]
                   /\ IF Complete(b) THEN Process(s, queue[s], b.items) ELSE UNCHANGED queue
                   /\ UNCHANGED deferred
     /\ UNCHANGED <<now, room, closer, timer, closing, loading, owed, faults, loads>>

\* The look-up itself fails: the caller gets the error.
LookupFails(p) ==
  /\ answer[p].stage = "resolving" /\ MayFail
  /\ answer' = [answer EXCEPT ![p] = Outcome("error")]
  /\ faults' = faults + 1
  /\ UNCHANGED <<now, room, closer, batch, deferred, queue, timer, closing, loading,
                 owed, loads>>

\* A faulty variant: the dispatched batch stays open.
DispatchOpenBatch(s) ==
  /\ batch[s] # NoBatch /\ batch[s].due <= now
  /\ Process(s, queue[s], batch[s].items)
  /\ UNCHANGED <<now, room, answer, closer, batch, deferred, timer, closing, loading,
                 owed, faults, loads>>

\* dispatchAnswerBatch, on the batch's timer.
DispatchBatch(s) ==
  /\ batch[s] # NoBatch /\ batch[s].due <= now
  /\ batch' = [batch EXCEPT ![s] = NoBatch]
  /\ Process(s, queue[s], batch[s].items)
  /\ UNCHANGED <<now, room, answer, closer, deferred, timer, closing, loading, owed,
                 faults, loads>>

-----------------------------------------------------------------------------
(* Closing the question: registerAnswerIngressBarrier, then the flush *)

\* flushAnswersReceivedBy: c waits for what its server received by the cutoff
\* and has not settled.  When nothing is left, c queues for its own mutation.
Waiting(c, s, cutoff) ==
  LET pending == Ingress(s, cutoff)
  IN [c EXCEPT !.cutoff = cutoff, !.waiting = pending,
               !.pc = IF pending = {} THEN "queued" ELSE "ready"]

Enqueued(q, c, s, cutoff) ==
  IF Ingress(s, cutoff) = {} THEN Append(q, CommandJob(c)) ELSE q

\* registerAnswerIngressBarrier, then the flush up to its first wait: nothing
\* is awaited between them.  The server's batch is split when the new cutoff
\* holds part of it back.
Register(c, record, s, cutoff) ==
  LET late == After(batch[s].items, Cutoffs(Holders(s)) \cup {cutoff})
      split == IF late = {} THEN {queue[s]} ELSE Processed(queue[s], batch[s].items \ late)
  IN /\ closer' = [closer EXCEPT ![c] = Waiting([record EXCEPT !.holds = TRUE], s, cutoff)]
     /\ \E q \in split : queue' = [queue EXCEPT ![s] = Enqueued(q, c, s, cutoff)]
     /\ deferred' = [deferred EXCEPT ![s] = @ \cup late]
     /\ batch' = IF late = {} THEN batch ELSE [batch EXCEPT ![s] = NoBatch]

ClosesIngress(action) == action \in {"pause", "lock"}

\* hostCommand.  The host names the version it expects: the one it has seen,
\* or one ahead of it for answers it knows to be on the way.
SendCommand(c, s, action, expected) ==
  /\ c \in HostCommands /\ closer[c].pc = "idle"
  /\ LET sent == [closer[c] EXCEPT !.server = s, !.action = action, !.expected = expected]
     IN IF ClosesIngress(action)
        THEN /\ closer' = [closer EXCEPT ![c] = [sent EXCEPT !.pc = "authenticate"]]
             /\ UNCHANGED queue
        ELSE /\ closer' = [closer EXCEPT ![c] = [sent EXCEPT !.pc = "queued"]]
             /\ queue' = [queue EXCEPT ![s] = Append(@, CommandJob(c))]
  /\ UNCHANGED <<now, room, answer, batch, deferred, timer, closing, loading, owed,
                 faults, loads>>

\* The command's ordering point: authentication has succeeded.
Authenticate(c) ==
  /\ closer[c].pc = "authenticate"
  /\ Register(c, closer[c], closer[c].server, now)
  /\ UNCHANGED <<now, room, answer, timer, closing, loading, owed, faults, loads>>

\* The host's token is refused: no barrier is raised.
Unauthorized(c) ==
  /\ closer[c].pc = "authenticate" /\ MayFail
  /\ closer' = [closer EXCEPT ![c] = Done]
  /\ faults' = faults + 1
  /\ UNCHANGED <<now, room, answer, batch, deferred, queue, timer, closing, loading,
                 owed, loads>>

\* autoLock, on the deadline's timer.  The cutoff is the timer's deadline.
FireTimer(c, s) ==
  /\ c \in AutoLocks /\ closer[c].pc = "idle"
  /\ timer[s] # Never /\ timer[s].due <= now
  /\ timer' = [timer EXCEPT ![s] = Never]
  /\ Register(c, [Idle EXCEPT !.server = s, !.action = "deadline"], s, timer[s].deadline)
  /\ UNCHANGED <<now, room, answer, closing, loading, owed, faults, loads>>

\* Every answer waited for has reached a batch, a barrier or a verdict: the
\* batch is cut at once.
CutBatch(c) ==
  LET s == closer[c].server
      late == After(batch[s].items, {closer[c].cutoff})
  IN /\ closer[c].pc = "ready"
     /\ \A p \in closer[c].waiting : answer[p].stage # "resolving"
     /\ closer' = [closer EXCEPT ![c].pc = "settle"]
     /\ batch' = [batch EXCEPT ![s] = NoBatch]
     /\ deferred' = [deferred EXCEPT ![s] = @ \cup late]
     /\ Process(s, queue[s], batch[s].items \ late)
     /\ UNCHANGED <<now, room, answer, timer, closing, loading, owed, faults, loads>>

\* All of them are settled: look again.
Flushed(c) ==
  LET s == closer[c].server
      cutoff == closer[c].cutoff
  IN /\ closer[c].pc = "settle"
     /\ \A p \in closer[c].waiting : Settled(p)
     /\ closer' = [closer EXCEPT ![c] = Waiting(@, s, cutoff)]
     /\ queue' = [queue EXCEPT ![s] = Enqueued(@, c, s, cutoff)]
     /\ UNCHANGED <<now, room, answer, batch, deferred, timer, closing, loading, owed,
                    faults, loads>>

-----------------------------------------------------------------------------
(* The session's mutations *)

\* acceptAnswer, for the phase and the deadline.
VerdictAt(p) ==
  IF room.phase # "open" THEN "refused"
  ELSE IF answer[p].at > room.deadline THEN "late" ELSE "accepted"

\* Every mutation starts with loadSessionForMutation, which schedules the
\* deadline of the state it finds, and a save schedules that of the new one.
Rescheduled(s, r) == IF closing[s] THEN timer ELSE [timer EXCEPT ![s] = Scheduled(r)]

\* processAnswerBatch.
RunAnswers(s) ==
  LET items == Head(queue[s]).items
      verdict == [p \in items |-> IF closing[s] THEN "error" ELSE VerdictAt(p)]
      accepted == {p \in items : verdict[p] = "accepted"}
  IN /\ queue[s] # <<>> /\ Head(queue[s]).kind = "answers"
     /\ queue' = [queue EXCEPT ![s] = Tail(@)]
     /\ answer' = [p \in Participants |->
                     IF p \in items THEN Outcome(verdict[p]) ELSE answer[p]]
     /\ room' = [room EXCEPT !.version = @ + Cardinality(accepted)]
     /\ timer' = Rescheduled(s, room)
     /\ UNCHANGED <<now, closer, batch, deferred, closing, loading, owed, faults, loads>>

\* applyHostCommand's guards, and autoLock's own.
StartsIn(action) ==
  CASE action = "pause" -> {"open"}
    [] action = "resume" -> {"paused"}
    [] action = "lock" -> {"open", "paused"}

Applies(c) ==
  IF c \in AutoLocks
  THEN room.phase = "open" /\ now >= room.deadline
  ELSE closer[c].expected = room.version /\ room.phase \in StartsIn(closer[c].action)

RemainingMs(t) == Max({0, room.deadline - t})

AfterCommand(c) ==
  CASE closer[c].action = "pause" ->
         [room EXCEPT !.phase = "paused", !.remaining = RemainingMs(closer[c].cutoff),
                      !.deadline = 0, !.version = @ + 1]
    [] closer[c].action = "resume" ->
         [room EXCEPT !.phase = "open", !.deadline = now + room.remaining,
                      !.remaining = 0, !.version = @ + 1]
    [] OTHER ->
         [room EXCEPT !.phase = "closed", !.deadline = 0, !.remaining = 0,
                      !.version = @ + 1]

\* A faulty variant: the released cutoff still counts.
ReleaseKeepsCutoff(c, s) ==
  /\ closer' = [closer EXCEPT ![c] = IF c \in AutoLocks THEN Idle ELSE Done]
  /\ LET held == After(deferred[s], Cutoffs(Holders(s)))
     IN /\ deferred' = [deferred EXCEPT ![s] = held]
        /\ Process(s, Tail(queue[s]), deferred[s] \ held)

\* The mutation of c ends, done or failed; its barrier goes with it, and what
\* no remaining cutoff holds back is processed.
Release(c, s) ==
  LET held == After(deferred[s], Cutoffs(Holders(s) \ {c}))
  IN /\ closer' = [closer EXCEPT ![c] = IF c \in AutoLocks THEN Idle ELSE Done]
     /\ IF closer[c].holds
        THEN /\ deferred' = [deferred EXCEPT ![s] = held]
             /\ Process(s, Tail(queue[s]), deferred[s] \ held)
        ELSE /\ UNCHANGED deferred
             /\ queue' = [queue EXCEPT ![s] = Tail(@)]

\* What a closing command may cut off: answers not before a host's command,
\* answers after the deadline a lock has waited for.
CutOff(c) ==
  IF c \in AutoLocks
  THEN {p \in owed : answer[p].at > closer[c].cutoff}
  ELSE {p \in owed : ClosesIngress(closer[c].action) /\ answer[p].at >= closer[c].cutoff}

RunCommand(s) ==
  LET c == Head(queue[s]).by
      applies == ~closing[s] /\ Applies(c)
  IN /\ queue[s] # <<>> /\ Head(queue[s]).kind = "command"
     /\ room' = IF applies THEN AfterCommand(c) ELSE room
     /\ owed' = IF applies THEN owed \ CutOff(c) ELSE owed
     /\ timer' = Rescheduled(s, IF applies THEN AfterCommand(c) ELSE room)
     /\ Release(c, s)
     /\ UNCHANGED <<now, answer, batch, closing, loading, faults, loads>>

\* A mutation that fails: the lease is not granted, or the session has been
\* loaded and nothing is persisted.  Its answers are rejected; a deadline's
\* failure is swallowed.
FailJob(s) ==
  /\ queue[s] # <<>> /\ MayFail
  /\ timer' \in {timer, Rescheduled(s, room)}
  /\ faults' = faults + 1
  /\ \/ /\ Head(queue[s]).kind = "answers"
        /\ answer' = Verdict(Head(queue[s]).items, "error")
        /\ queue' = [queue EXCEPT ![s] = Tail(@)]
        /\ UNCHANGED <<closer, deferred>>
     \/ /\ Head(queue[s]).kind = "command"
        /\ Release(Head(queue[s]).by, s)
        /\ UNCHANGED answer
  /\ UNCHANGED <<now, room, batch, closing, loading, owed, loads>>

-----------------------------------------------------------------------------
(* Loads outside the queue, shutdown and time *)

\* loadSession for a snapshot: the room is read here ...
BeginLoad(s) ==
  /\ MayLoad /\ loading[s] = Never
  /\ loading' = [loading EXCEPT ![s] = room]
  /\ loads' = loads + 1
  /\ UNCHANGED <<now, room, answer, closer, batch, deferred, queue, timer, closing,
                 owed, faults>>

\* ... and its deadline scheduled after another await.
EndLoad(s) ==
  /\ loading[s] # Never
  /\ timer' = [timer EXCEPT ![s] = Scheduled(loading[s])]
  /\ loading' = [loading EXCEPT ![s] = Never]
  /\ UNCHANGED <<now, room, answer, closer, batch, deferred, queue, closing, owed,
                 faults, loads>>

\* A faulty variant: deferred answers are forgotten, not rejected.
CloseForgetsDeferred(s) ==
  /\ ~closing[s] /\ MayFail
  /\ faults' = faults + 1
  /\ closing' = [closing EXCEPT ![s] = TRUE]
  /\ answer' = Verdict(batch[s].items, "error")
  /\ batch' = [batch EXCEPT ![s] = NoBatch]
  /\ deferred' = [deferred EXCEPT ![s] = {}]
  /\ timer' = [timer EXCEPT ![s] = Never]
  /\ closer' = [c \in Closers |-> IF c \in Holders(s)
                                  THEN [closer[c] EXCEPT !.holds = FALSE] ELSE closer[c]]
  /\ UNCHANGED <<now, room, queue, loading, owed, loads>>

\* close: batched and deferred answers are rejected, barriers and timers gone.
Close(s) ==
  /\ ~closing[s] /\ MayFail
  /\ faults' = faults + 1
  /\ closing' = [closing EXCEPT ![s] = TRUE]
  /\ answer' = Verdict(batch[s].items \cup deferred[s], "error")
  /\ batch' = [batch EXCEPT ![s] = NoBatch]
  /\ deferred' = [deferred EXCEPT ![s] = {}]
  /\ timer' = [timer EXCEPT ![s] = Never]
  /\ closer' = [c \in Closers |-> IF c \in Holders(s)
                                  THEN [closer[c] EXCEPT !.holds = FALSE] ELSE closer[c]]
  /\ UNCHANGED <<now, room, queue, loading, owed, loads>>

Tick ==
  /\ now < MaxTime
  /\ now' = now + 1
  /\ UNCHANGED <<room, answer, closer, batch, deferred, queue, timer, closing, loading,
                 owed, faults, loads>>

Init ==
  /\ now = 0
  /\ room = [phase |-> "open", deadline |-> FirstDeadline, remaining |-> 0, version |-> 0]
  /\ answer = [p \in Participants |-> Outcome("unsent")]
  /\ closer = [c \in Closers |-> Idle]
  /\ batch = [s \in Servers |-> NoBatch]
  /\ deferred = [s \in Servers |-> {}]
  /\ queue = [s \in Servers |-> <<>>]
  /\ timer = [s \in Servers |-> [deadline |-> FirstDeadline, due |-> FirstDeadline + LockDelay]]
  /\ closing = [s \in Servers |-> FALSE]
  /\ loading = [s \in Servers |-> Never]
  /\ owed = {} /\ faults = 0 /\ loads = 0

HostActions == {"pause", "resume", "lock"}

Next ==
  \/ \E p \in Participants :
       \/ \E s \in Servers : Receive(p, s)
       \/ Resolve(p)
       \/ LookupFails(p)
  \/ \E c \in Closers :
       \/ \E s \in Servers, action \in HostActions, ahead \in 0..MaxAhead :
            SendCommand(c, s, action, room.version + ahead)
       \/ \E s \in Servers : FireTimer(c, s)
       \/ Authenticate(c) \/ Unauthorized(c)
       \/ CutBatch(c) \/ Flushed(c)
  \/ \E s \in Servers :
       \/ DispatchBatch(s)
       \/ RunAnswers(s) \/ RunCommand(s) \/ FailJob(s)
       \/ BeginLoad(s) \/ EndLoad(s)
       \/ Close(s)
  \/ Tick

(***************************************************************************)
(* Time passes, every look-up returns, every timer that is due fires,      *)
(* every queued mutation runs and every waiting command goes on.  Nothing  *)
(* makes anyone answer, command, load or fail.                             *)
(***************************************************************************)
Fairness ==
  /\ WF_vars(Tick)
  /\ \A p \in Participants : WF_vars(Resolve(p))
  /\ \A s \in Servers :
       /\ WF_vars(DispatchBatch(s))
       /\ WF_vars(RunAnswers(s) \/ RunCommand(s))
       /\ WF_vars(EndLoad(s))
       /\ WF_vars(\E c \in AutoLocks : FireTimer(c, s))
  /\ \A c \in Closers :
       WF_vars(Authenticate(c) \/ CutBatch(c) \/ Flushed(c))

Spec == Init /\ [][Next]_vars
FairSpec == Spec /\ Fairness

-----------------------------------------------------------------------------
(* Properties *)

Stages == {"unsent", "resolving", "ready"} \cup Verdicts
Times == 0..MaxTime

TypeOK ==
  /\ now \in Times
  /\ room \in [phase : {"open", "paused", "closed"}, deadline : Nat, remaining : Nat,
              version : Nat]
  /\ answer \in [Participants -> [stage : Stages, server : Servers \cup {Nobody}, at : Times]]
  /\ closer \in [Closers -> [pc : {"idle", "authenticate", "ready", "settle",
                                   "queued", "done"},
                             server : Servers \cup {Nobody},
                             action : HostActions \cup {"deadline"}, expected : Nat,
                             cutoff : Nat, waiting : SUBSET Participants, holds : BOOLEAN]]
  /\ \A s \in Servers : \A p \in batch[s].items \cup deferred[s] :
       answer[p].stage = "ready" /\ answer[p].server = s
  /\ owed \subseteq Participants
  /\ closing \in [Servers -> BOOLEAN]

\* An answer received while the question is open and within its deadline is
\* only refused for a host command whose cutoff it does not precede: neither
\* batching, nor a slow look-up, nor the deadline's own lock makes it late
\* (docs/architecture.md, "Answer durability and batching").
OnTimeAnswersCount ==
  \A p \in owed : answer[p].stage \notin {"late", "refused"}

\* When a closing command joins the mutation queue, every answer its server
\* received before the cutoff has been settled (flushAnswersReceivedBy).
FlushedBeforeClose ==
  \A c \in Closers : closer[c].pc = "queued" /\ closer[c].holds =>
    \A p \in Participants :
      /\ answer[p].server = closer[c].server /\ ~closing[closer[c].server]
      /\ answer[p].at < closer[c].cutoff
      => Settled(p)

\* A batch never holds what a barrier holds back, and whatever is deferred has
\* a closer that will release it (registerAnswerIngressBarrier and its release).
BarrierSplits ==
  \A s \in Servers :
    /\ After(batch[s].items, Cutoffs(Holders(s))) = {}
    /\ After(deferred[s], Cutoffs(Holders(s))) = deferred[s]

\* What answers, batches and barriers owe each other in every state.
IngressInv == TypeOK /\ BarrierSplits /\ FlushedBeforeClose

\* Every received answer gets a verdict or an error, whatever is paused,
\* locked, failing or shut down meanwhile (answer, close).
EveryAnswerSettles ==
  \A p \in Answering : answer[p].stage = "resolving" ~> Settled(p)

\* Every host command ends: no flush waits for answers that wait for it.
EveryCommandEnds ==
  \A c \in HostCommands : closer[c].pc # "idle" ~> closer[c].pc = "done"

\* Neither is left waiting, for the other or for anything else: EveryAnswerSettles and
\* EveryCommandEnds.
IngressSettles == EveryAnswerSettles /\ EveryCommandEnds

\* A timed question does not stay open past its deadline for ever
\* (scheduleDeadline, autoLock); the clock's bound leaves the timer its delay.
Closable == room.phase = "open" /\ room.deadline + LockDelay <= MaxTime
DeadlineCloses == Closable ~> ~Closable

\* It does not, as long as no unqueued load and no failure meddles with its
\* timer: after every pause and resume the deadline's lock comes.
Undisturbed == Closable /\ loads = 0 /\ faults = 0
UndisturbedDeadlineCloses == Undisturbed ~> ~Undisturbed
=============================================================================
