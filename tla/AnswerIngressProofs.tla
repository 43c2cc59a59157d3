------------------------- MODULE AnswerIngressProofs -------------------------
(***************************************************************************)
(* What a server keeps true of answers under way, for any number of        *)
(* servers, participants, commands and timer runs, any windows, batch size *)
(* and clock: batches, barriers and the mutation queue hold different      *)
(* answers, all looked up and of that server, and a command that closes    *)
(* the question reaches the queue when what it had to wait for is settled. *)
(*                                                                         *)
(* A barrier is private to its process, so that no answer received in time *)
(* is overtaken is a theorem about a single one.                           *)
(***************************************************************************)
EXTENDS AnswerIngress, SequenceTheorems, FiniteSetTheorems, TLAPS

RoomRow == [phase : {"open", "paused", "closed"}, deadline : Nat, remaining : Nat, version : Nat]

AnswerRow == [stage : Stages, server : Servers \cup {Nobody}, at : Times]

CloserRow == [pc : {"idle", "authenticate", "ready", "settle", "queued", "done"},
              server : Servers \cup {Nobody}, action : HostActions \cup {"deadline"},
              expected : Nat, cutoff : Nat, waiting : SUBSET Participants, holds : BOOLEAN]

BatchRow == [items : SUBSET Participants, due : Nat, force : Nat,
             awaiting : SUBSET (Participants \cup {Nobody})]

TimerRow == [deadline : Nat, due : Nat]

Job == {AnswersJob(items) : items \in SUBSET Participants} \cup {CommandJob(c) : c \in Closers}

IngressTypes ==
    /\ now \in Times /\ room \in RoomRow
    /\ answer \in [Participants -> AnswerRow] /\ closer \in [Closers -> CloserRow]
    /\ batch \in [Servers -> BatchRow] /\ deferred \in [Servers -> SUBSET Participants]
    /\ queue \in [Servers -> Seq(Job)]
    /\ timer \in [Servers -> TimerRow \cup {Never}]
    /\ loading \in [Servers -> RoomRow \cup {Never}]
    /\ closing \in [Servers -> BOOLEAN] /\ owed \subseteq Participants
    /\ faults \in Nat /\ loads \in Nat

\* The answers and the commands of a queue.
Held(q) == UNION {q[i].items : i \in 1..Len(q)}
Named(q) == {q[i].by : i \in {j \in 1..Len(q) : q[j].kind = "command"}}

\* Nothing is in a queue twice.
Apart(j, k) == j.items \cap k.items = {} /\ (j.kind = "command" /\ k.kind = "command" => j.by # k.by)
Distinct(q) == \A i, k \in 1..Len(q) : i # k => Apart(q[i], q[k])

\* An answer under way is in one place, and has its server as long as it is.
AnswerFact(p) == answer[p].server # Nobody <=> answer[p].stage \in {"resolving", "ready"}

AnswerFacts == \A p \in Participants : AnswerFact(p)

ReadyAt(p, s) == answer[p].stage = "ready" /\ answer[p].server = s

QueuedAt(c, s) ==
    /\ closer[c].pc = "queued" /\ closer[c].server = s
    /\ closer[c].holds \/ closing[s] \/ closer[c].action = "resume"

PlaceFact(s) ==
    /\ Distinct(queue[s])
    /\ batch[s].items \cap deferred[s] = {}
    /\ Held(queue[s]) \cap (batch[s].items \cup deferred[s]) = {}
    /\ \A p \in Held(queue[s]) \cup batch[s].items \cup deferred[s] : ReadyAt(p, s)
    /\ \A c \in Named(queue[s]) : QueuedAt(c, s)
    /\ closing[s] => batch[s].items = {} /\ deferred[s] = {}

PlaceFacts == \A s \in Servers : PlaceFact(s)

\* A timer fires after its deadline, so a cutoff has passed, a lock's entirely.
TimerFacts == \A s \in Servers : timer[s] # Never => timer[s].deadline < timer[s].due

CloserFact(c) ==
    /\ c \in AutoLocks => closer[c].pc = "idle" \/ closer[c].action = "deadline"
    /\ c \in HostCommands => closer[c].action \in HostActions
    /\ closer[c].pc \in {"idle", "authenticate", "done"} => ~closer[c].holds
    /\ closer[c].pc \in {"authenticate", "ready", "settle", "queued"} => closer[c].server \in Servers
    /\ closer[c].pc = "authenticate" => ClosesIngress(closer[c].action)
    /\ closer[c].pc \in {"ready", "settle"} => closer[c].holds \/ closing[closer[c].server]
    /\ closer[c].holds => /\ closer[c].cutoff <= now
                          /\ c \in AutoLocks => closer[c].cutoff < now

CloserFacts == \A c \in Closers : CloserFact(c)

\* FlushedBeforeClose, and for the lock with what was received on its cutoff.
FlushedFact(c) == closer[c].pc = "queued" /\ closer[c].holds /\ ~closing[closer[c].server] =>
    \A p \in Participants : answer[p].server = closer[c].server =>
        /\ closer[c].cutoff <= answer[p].at
        /\ c \in AutoLocks => closer[c].cutoff < answer[p].at

FlushedFacts == \A c \in Closers : FlushedFact(c)

\* BarrierSplits, one closer at a time.
HoldsAt(c, s) == closer[c].server = s /\ closer[c].holds

BarrierFact(s) ==
    /\ \A p \in batch[s].items : \A c \in Closers :
           HoldsAt(c, s) => answer[p].at <= closer[c].cutoff
    /\ \A p \in deferred[s] : \E c \in Closers :
           HoldsAt(c, s) /\ closer[c].cutoff < answer[p].at

BarrierFacts == \A s \in Servers : BarrierFact(s)

IngressIInv ==
    /\ IngressTypes /\ AnswerFacts /\ PlaceFacts /\ TimerFacts /\ CloserFacts
    /\ FlushedFacts /\ BarrierFacts

\* What has still to be accepted can be.
OwedFact(p) ==
    /\ answer[p].stage \notin {"unsent", "late", "refused"}
    /\ answer[p].server # Nobody /\ ~closing[answer[p].server] =>
           room.phase = "open" /\ answer[p].at <= room.deadline

OwedFacts == \A p \in owed : OwedFact(p)

-----------------------------------------------------------------------------
(* The queue of mutations *)

\* What the two kinds of mutation hold.
LEMMA JobFields ==
  /\ \A items : /\ AnswersJob(items).kind = "answers" /\ AnswersJob(items).items = items
  /\ \A c : CommandJob(c).kind = "command" /\ CommandJob(c).items = {} /\ CommandJob(c).by = c
  BY DEF AnswersJob, CommandJob

\* Joining the queue: a command that is not in it.
LEMMA CommandJoins ==
  ASSUME NEW q \in Seq(Job), Distinct(q), NEW c \in Closers, c \notin Named(q)
  PROVE  LET longer == Append(q, CommandJob(c))
         IN  /\ longer \in Seq(Job) /\ Distinct(longer)
             /\ Held(longer) = Held(q) /\ Named(longer) = Named(q) \cup {c}
<1> DEFINE longer == Append(q, CommandJob(c))
           n == Len(q)
<1>1. /\ n \in Nat /\ longer \in Seq(Job) /\ Len(longer) = n + 1
      /\ \A i \in 1..n : longer[i] = q[i]
      /\ longer[n + 1] = CommandJob(c)
  BY DEF Job
<1>2. 1..(n + 1) = (1..n) \cup {n + 1}
  BY <1>1
<1> HIDE DEF longer, n
<1>3. Held(longer) = Held(q)
  BY <1>1, <1>2, JobFields DEF Held, n
<1>4. Named(longer) = Named(q) \cup {c}
  <2>1. ASSUME NEW x PROVE x \in Named(longer) <=> x \in Named(q) \/ x = c
    BY <1>1, <1>2, JobFields DEF Named, n
  <2> QED
    BY <2>1
<1>5. ASSUME NEW i \in 1..(n + 1), NEW k \in 1..(n + 1), i # k
      PROVE  Apart(longer[i], longer[k])
  <2>1. CASE i # n + 1 /\ k # n + 1
    BY <1>1, <1>2, <1>5, <2>1 DEF Distinct, n
  <2>2. CASE i = n + 1 /\ k # n + 1
    <3>1. k \in 1..n /\ longer[k] = q[k] /\ longer[i] = CommandJob(c)
      BY <1>1, <1>2, <2>2
    <3>2. q[k].kind = "command" => q[k].by # c
      BY <3>1 DEF Named, n
    <3> QED
      BY <3>1, <3>2, JobFields DEF Apart
  <2>3. CASE i # n + 1 /\ k = n + 1
    <3>1. i \in 1..n /\ longer[i] = q[i] /\ longer[k] = CommandJob(c)
      BY <1>1, <1>2, <2>3
    <3>2. q[i].kind = "command" => q[i].by # c
      BY <3>1 DEF Named, n
    <3> QED
      BY <3>1, <3>2, JobFields DEF Apart
  <2> QED
    BY <1>5, <2>1, <2>2, <2>3
<1>6. Distinct(longer)
  BY <1>1, <1>5 DEF Distinct
<1> QED
  BY <1>1, <1>3, <1>4, <1>6 DEF longer

\* The head leaves the queue.
LEMMA HeadLeaves ==
  ASSUME NEW q \in Seq(Job), Distinct(q), q # << >>
  PROVE  /\ Tail(q) \in Seq(Job) /\ Distinct(Tail(q)) /\ Head(q) \in Job
         /\ Head(q).items \subseteq Held(q)
         /\ Held(Tail(q)) = Held(q) \ Head(q).items
         /\ Head(q).kind = "command" =>
               Head(q).by \in Named(q) /\ Named(Tail(q)) = Named(q) \ {Head(q).by}
         /\ Head(q).kind = "answers" => Named(Tail(q)) = Named(q)
<1> DEFINE t == Tail(q)
           n == Len(q)
<1>1. /\ n \in Nat \ {0} /\ t \in Seq(Job) /\ Len(t) = n - 1 /\ Head(q) = q[1]
      /\ \A i \in 1..(n - 1) : t[i] = q[i + 1]
      /\ Head(q) \in Job
  BY EmptySeq, HeadTailProperties
<1> HIDE DEF t
<1>2. /\ \A i \in 1..(n - 1) : i + 1 \in 1..n /\ i + 1 # 1
      /\ \A i \in 1..n : i = 1 \/ (i - 1 \in 1..(n - 1) /\ t[i - 1] = q[i])
      /\ 1 \in 1..n
  BY <1>1
<1>3. Distinct(t)
  BY <1>1, <1>2 DEF Distinct
<1>4. ASSUME NEW p
      PROVE  p \in Held(t) <=> p \in Held(q) /\ p \notin q[1].items
  <2>1. ASSUME p \in Held(t) PROVE p \in Held(q) /\ p \notin q[1].items
    <3>1. PICK i \in 1..(n - 1) : p \in t[i].items
      BY <1>1, <2>1 DEF Held
    <3>2. i + 1 \in 1..n /\ i + 1 # 1 /\ p \in q[i + 1].items
      BY <1>1, <1>2, <3>1
    <3>3. Apart(q[i + 1], q[1])
      BY <1>2, <3>2 DEF Distinct
    <3> QED
      BY <3>2, <3>3 DEF Held, Apart
  <2>2. ASSUME p \in Held(q), p \notin q[1].items PROVE p \in Held(t)
    <3>1. PICK i \in 1..n : p \in q[i].items
      BY <2>2 DEF Held
    <3>2. i - 1 \in 1..(n - 1) /\ t[i - 1] = q[i]
      BY <1>2, <2>2, <3>1
    <3> QED
      BY <1>1, <3>1, <3>2 DEF Held
  <2> QED
    BY <2>1, <2>2
<1>5. ASSUME NEW c
      PROVE  c \in Named(t) <=> \E i \in 2..n : q[i].kind = "command" /\ q[i].by = c
  <2>1. ASSUME c \in Named(t) PROVE \E i \in 2..n : q[i].kind = "command" /\ q[i].by = c
    <3>1. PICK i \in 1..(n - 1) : t[i].kind = "command" /\ t[i].by = c
      BY <1>1, <2>1 DEF Named
    <3> QED
      BY <1>1, <3>1
  <2>2. ASSUME NEW i \in 2..n, q[i].kind = "command", q[i].by = c PROVE c \in Named(t)
    <3>1. i - 1 \in 1..(n - 1) /\ t[i - 1] = q[i]
      BY <1>1, <1>2
    <3> QED
      BY <1>1, <2>2, <3>1 DEF Named
  <2> QED
    BY <2>1, <2>2
<1>6. ASSUME NEW c
      PROVE  c \in Named(q) <=> c \in Named(t) \/ (q[1].kind = "command" /\ q[1].by = c)
  <2>1. c \in Named(q) <=> \E i \in 1..n : q[i].kind = "command" /\ q[i].by = c
    BY DEF Named
  <2>2. \A i \in 1..n : i = 1 \/ i \in 2..n
    BY <1>1
  <2>3. \A i \in 2..n : i \in 1..n
    BY <1>1
  <2> QED
    BY <1>2, <1>5, <2>1, <2>2, <2>3
<1>7. q[1].kind = "command" => q[1].by \notin Named(t)
  <2> SUFFICES ASSUME q[1].kind = "command", NEW i \in 2..n, q[i].kind = "command",
                      q[i].by = q[1].by
               PROVE  FALSE
    BY <1>5
  <2>1. i \in 1..n /\ i # 1
    BY <1>1
  <2> QED
    BY <1>2, <2>1 DEF Distinct, Apart
<1>8. Head(q).kind = "command" \/ Head(q).kind = "answers"
  BY <1>1, JobFields DEF Job
<1>9. q[1].items \subseteq Held(q)
  BY <1>2 DEF Held
<1> QED
  BY <1>1, <1>3, <1>4, <1>6, <1>7, <1>8, <1>9 DEF t

\* Answers join the queue in slices.
LEMMA AnswersJoin ==
  ASSUME NEW q \in Seq(Job), Distinct(q), NEW items \in SUBSET Participants,
         Held(q) \cap items = {}, NEW longer \in Processed(q, items), IsFiniteSet(items)
  PROVE  /\ longer \in Seq(Job) /\ Distinct(longer)
         /\ Held(longer) = Held(q) \cup items /\ Named(longer) = Named(q)
<1>1. PICK chunks \in Chunks(items) : longer = q \o [i \in DOMAIN chunks |-> AnswersJob(chunks[i])]
  BY DEF Processed
<1> DEFINE last == (Cardinality(items) + MaxBatchSize - 1) \div MaxBatchSize
           new == [i \in DOMAIN chunks |-> AnswersJob(chunks[i])]
           n == Len(q)
<1>2. last \in Nat
  <2>1. Cardinality(items) \in Nat /\ MaxBatchSize \in Nat \ {0}
    BY FS_CardinalityType, IngressAssumption
  <2> QED
    BY <2>1
<1>3. /\ chunks \in [1..last -> SUBSET items]
      /\ \A p \in items : \E i \in 1..last : p \in chunks[i]
      /\ \A i, j \in 1..last : i # j => chunks[i] \cap chunks[j] = {}
  BY DEF Chunks
<1> HIDE DEF last
<1>4. new \in Seq(Job) /\ Len(new) = last /\ \A i \in 1..last : new[i] = AnswersJob(chunks[i])
  BY <1>2, <1>3 DEF Job
<1> HIDE DEF new
<1>5. longer = q \o new
  BY <1>1 DEF new
<1>6. /\ longer \in Seq(Job) /\ n \in Nat /\ Len(longer) = n + last
      /\ \A i \in 1..n : longer[i] = q[i]
      /\ \A i \in 1..last : longer[n + i] = AnswersJob(chunks[i])
  <2>1. longer \in Seq(Job) /\ n \in Nat /\ Len(longer) = n + last
    BY <1>4, <1>5, ConcatProperties, LenProperties DEF n
  <2>2. \A i \in 1..(n + last) : longer[i] = IF i <= n THEN q[i] ELSE new[i - n]
    BY <1>4, <1>5, ConcatProperties, LenProperties DEF n
  <2>3. ASSUME NEW i \in 1..last PROVE longer[n + i] = AnswersJob(chunks[i])
    <3>1. n + i \in 1..(n + last) /\ ~(n + i <= n) /\ (n + i) - n = i
      BY <1>2, <2>1
    <3>2. longer[n + i] = new[(n + i) - n]
      BY <2>2, <3>1
    <3> QED
      BY <1>4, <3>1, <3>2
  <2>4. ASSUME NEW i \in 1..n PROVE longer[i] = q[i]
    <3>1. i \in 1..(n + last) /\ i <= n
      BY <1>2, <2>1
    <3> QED
      BY <2>2, <3>1
  <2> QED
    BY <2>1, <2>3, <2>4
<1>7. ASSUME NEW i \in 1..(n + last)
      PROVE  \/ i \in 1..n /\ longer[i] = q[i]
             \/ i - n \in 1..last /\ longer[i] = AnswersJob(chunks[i - n])
  BY <1>2, <1>6
<1>8. /\ \A i \in 1..n : i \in 1..(n + last)
      /\ \A i \in 1..last : n + i \in 1..(n + last)
  BY <1>2, <1>6
<1> HIDE DEF n
<1>9. ASSUME NEW p
      PROVE  p \in Held(longer) <=> p \in Held(q) \/ p \in items
  <2>1. ASSUME NEW i \in 1..(n + last), p \in longer[i].items
        PROVE  p \in Held(q) \/ p \in items
    BY <1>3, <1>7, <2>1, JobFields DEF Held, n
  <2>2. ASSUME NEW i \in 1..n, p \in q[i].items PROVE p \in Held(longer)
    BY <1>6, <1>8, <2>2 DEF Held
  <2>3. ASSUME p \in items PROVE p \in Held(longer)
    <3>1. PICK i \in 1..last : p \in chunks[i]
      BY <1>3, <2>3
    <3> QED
      BY <1>6, <1>8, <3>1, JobFields DEF Held
  <2> QED
    BY <1>6, <2>1, <2>2, <2>3 DEF Held, n
<1>10. ASSUME NEW c
       PROVE  c \in Named(longer) <=> c \in Named(q)
  <2>1. ASSUME NEW i \in 1..(n + last), longer[i].kind = "command", longer[i].by = c
        PROVE  c \in Named(q)
    BY <1>7, <2>1, JobFields DEF Named, n
  <2>2. ASSUME NEW i \in 1..n, q[i].kind = "command", q[i].by = c
        PROVE  c \in Named(longer)
    BY <1>6, <1>8, <2>2 DEF Named
  <2> QED
    BY <1>6, <2>1, <2>2 DEF Named, n
<1>11. ASSUME NEW i \in 1..(n + last), NEW k \in 1..(n + last), i # k
       PROVE  Apart(longer[i], longer[k])
  <2>1. CASE i \in 1..n /\ longer[i] = q[i] /\ k \in 1..n /\ longer[k] = q[k]
    BY <1>11, <2>1 DEF Distinct, n
  <2>2. CASE i \in 1..n /\ longer[i] = q[i] /\ k - n \in 1..last
             /\ longer[k] = AnswersJob(chunks[k - n])
    BY <1>3, <2>2, JobFields DEF Apart, Held, n
  <2>3. CASE k \in 1..n /\ longer[k] = q[k] /\ i - n \in 1..last
             /\ longer[i] = AnswersJob(chunks[i - n])
    BY <1>3, <2>3, JobFields DEF Apart, Held, n
  <2>4. CASE i - n \in 1..last /\ longer[i] = AnswersJob(chunks[i - n])
             /\ k - n \in 1..last /\ longer[k] = AnswersJob(chunks[k - n])
    <3>1. i - n # k - n
      BY <1>6, <1>11
    <3> QED
      BY <1>3, <2>4, <3>1, JobFields DEF Apart
  <2> QED
    BY <1>7, <2>1, <2>2, <2>3, <2>4
<1>12. Distinct(longer)
  BY <1>6, <1>11 DEF Distinct
<1> QED
  BY <1>6, <1>9, <1>10, <1>12

\* processPendingAnswerItems: items that are nowhere in the queue join it, the
\* rest of the queues stay.
LEMMA Processing ==
  ASSUME IngressTypes, NEW s \in Servers, NEW q \in Seq(Job), Distinct(q),
         NEW items \in SUBSET Participants, Held(q) \cap items = {}, Process(s, q, items)
  PROVE  /\ queue' \in [Servers -> Seq(Job)]
         /\ \A t \in Servers \ {s} : queue'[t] = queue[t]
         /\ Distinct(queue'[s])
         /\ Held(queue'[s]) = Held(q) \cup items /\ Named(queue'[s]) = Named(q)
<1>1. PICK longer \in Processed(q, items) : queue' = [queue EXCEPT ![s] = longer]
  BY DEF Process
<1>2. IsFiniteSet(items)
  BY FS_Subset, IngressAssumption
<1>3. /\ longer \in Seq(Job) /\ Distinct(longer)
      /\ Held(longer) = Held(q) \cup items /\ Named(longer) = Named(q)
  BY <1>2, AnswersJoin
<1> QED
  BY <1>1, <1>3 DEF IngressTypes

\* The least and the greatest of two times.
LEMMA LeastOfTwo ==
  ASSUME NEW a \in Nat, NEW b \in Nat
  PROVE  /\ Min({a, b}) \in Nat
         /\ Max({a, b}) \in Nat /\ Max({a, b}) >= a
<1>1. \E x \in {a, b} : \A y \in {a, b} : x <= y
  OBVIOUS
<1>2. \E x \in {a, b} : \A y \in {a, b} : x >= y
  OBVIOUS
<1> QED
  BY <1>1, <1>2 DEF Min, Max

\* The least of three times.
LEMMA LeastOfThree ==
  ASSUME NEW a \in Nat, NEW b \in Nat, NEW c \in Nat
  PROVE  Min({a, b, c}) \in Nat
<1>1. \E x \in {a, b, c} : \A y \in {a, b, c} : x <= y
  OBVIOUS
<1> QED
  BY <1>1 DEF Min

\* A deadline is scheduled for a later time.
LEMMA ScheduledLater ==
  ASSUME IngressTypes, NEW r \in RoomRow
  PROVE  /\ Scheduled(r) \in TimerRow \cup {Never}
         /\ Scheduled(r) # Never => Scheduled(r).deadline < Scheduled(r).due
<1>1. CASE r.phase = "open"
  <2> DEFINE due == Max({r.deadline + LockDelay, Min({now + LockDelay, MaxTime})})
  <2>1. r.deadline \in Nat /\ LockDelay \in Nat \ {0} /\ now + LockDelay \in Nat /\ MaxTime \in Nat
    BY SMTT(30), IngressAssumption DEF RoomRow, IngressTypes, Times
  <2>2. Min({now + LockDelay, MaxTime}) \in Nat
    BY <2>1, LeastOfTwo
  <2>3. r.deadline + LockDelay \in Nat /\ r.deadline + LockDelay > r.deadline
    BY <2>1
  <2>4. due \in Nat /\ due >= r.deadline + LockDelay
    BY <2>2, <2>3, LeastOfTwo
  <2> HIDE DEF due
  <2>5. r.deadline < due
    BY <2>1, <2>3, <2>4
  <2>6. Scheduled(r) = [deadline |-> r.deadline, due |-> due]
    BY <1>1 DEF Scheduled, due
  <2> QED
    BY <2>1, <2>4, <2>5, <2>6 DEF TimerRow
<1>2. CASE r.phase # "open"
  BY <1>2 DEF Scheduled
<1> QED
  BY <1>1, <1>2

\* A remainder is not negative.
LEMMA MaxWithZero ==
  ASSUME NEW a \in Int
  PROVE  Max({0, a}) \in Nat
<1>1. \E x \in {0, a} : \A y \in {0, a} : x >= y
  OBVIOUS
<1> QED
  BY <1>1 DEF Max

\* Only answers and commands are in a queue.
LEMMA QueueHolds ==
  ASSUME NEW q \in Seq(Job)
  PROVE  Held(q) \subseteq Participants /\ Named(q) \subseteq Closers
<1>1. \A i \in 1..Len(q) : q[i] \in Job
  OBVIOUS
<1>2. \A j \in Job : /\ j.items \subseteq Participants
                     /\ j.kind = "command" => j.by \in Closers
  BY JobFields DEF Job, AnswersJob, CommandJob
<1> QED
  BY <1>1, <1>2 DEF Held, Named

\* A server's places stay as they are when nothing of them changes and its
\* answers and commands go on belonging to it.
LEMMA PlaceKept ==
  ASSUME IngressTypes, NEW t \in Servers, PlaceFact(t),
         queue'[t] = queue[t], batch'[t] = batch[t], deferred'[t] = deferred[t],
         closing'[t] = closing[t],
         \A p \in Participants : ReadyAt(p, t) => ReadyAt(p, t)',
         \A c \in Closers : QueuedAt(c, t) => QueuedAt(c, t)'
  PROVE  PlaceFact(t)'
<1>1. queue[t] \in Seq(Job) /\ batch[t].items \subseteq Participants /\ deferred[t] \subseteq Participants
  BY DEF IngressTypes, BatchRow
<1>2. Held(queue[t]) \subseteq Participants /\ Named(queue[t]) \subseteq Closers
  BY <1>1, QueueHolds
<1>3. /\ Distinct(queue'[t]) = Distinct(queue[t])
      /\ Held(queue'[t]) = Held(queue[t]) /\ Named(queue'[t]) = Named(queue[t])
  OBVIOUS
<1> QED
  BY <1>1, <1>2, <1>3 DEF PlaceFact

\* So does its barrier when the same closers hold it with the same cutoffs.
LEMMA BarrierKept ==
  ASSUME IngressTypes, NEW t \in Servers, PlaceFact(t), BarrierFact(t),
         batch'[t] = batch[t], deferred'[t] = deferred[t],
         \A p \in Participants : ReadyAt(p, t) => answer'[p].at = answer[p].at,
         \A c \in Closers : HoldsAt(c, t) => HoldsAt(c, t)' /\ closer'[c].cutoff = closer[c].cutoff,
         \A c \in Closers : HoldsAt(c, t)' => HoldsAt(c, t)
  PROVE  BarrierFact(t)'
<1>1. batch[t].items \subseteq Participants /\ deferred[t] \subseteq Participants
  BY DEF IngressTypes, BatchRow
<1>2. \A p \in batch[t].items \cup deferred[t] : answer'[p].at = answer[p].at
  BY <1>1 DEF PlaceFact
<1> QED
  BY <1>1, <1>2 DEF BarrierFact

\* A closer's control state, alone, goes on.
LEMMA OutcomeRow ==
  ASSUME NEW verdict \in Verdicts
  PROVE  /\ Outcome(verdict) \in AnswerRow /\ Outcome(verdict).server = Nobody
         /\ Outcome(verdict).stage = verdict
  BY IngressAssumption DEF Outcome, AnswerRow, Stages, Times, Verdicts

\* flushAnswersReceivedBy changes the cutoff, what is waited for and the
\* control state, nothing else.
LEMMA WaitingRow ==
  ASSUME NEW record \in CloserRow, NEW s \in Servers, NEW cutoff \in Nat
  PROVE  /\ Waiting(record, s, cutoff) \in CloserRow
         /\ Waiting(record, s, cutoff).cutoff = cutoff
         /\ Waiting(record, s, cutoff).server = record.server
         /\ Waiting(record, s, cutoff).action = record.action
         /\ Waiting(record, s, cutoff).holds = record.holds
         /\ Waiting(record, s, cutoff).pc = IF Ingress(s, cutoff) = {} THEN "queued" ELSE "ready"
<1>1. Ingress(s, cutoff) \in SUBSET Participants
  BY DEF Ingress
<1> DEFINE pc == IF Ingress(s, cutoff) = {} THEN "queued" ELSE "ready"
           pending == Ingress(s, cutoff)
           new == [record EXCEPT !.cutoff = cutoff, !.waiting = pending, !.pc = pc]
<1>2. Waiting(record, s, cutoff) = new
  BY DEF Waiting
<1>3. pc \in {"queued", "ready"} /\ pending \subseteq Participants
  BY <1>1
<1> HIDE DEF pc, pending
<1>4. /\ new \in CloserRow /\ new.cutoff = cutoff /\ new.server = record.server
      /\ new.action = record.action /\ new.holds = record.holds /\ new.pc = pc
  BY <1>3 DEF CloserRow
<1> HIDE DEF new
<1> QED
  BY <1>2, <1>4 DEF pc

\* A command queues itself when nothing is left to wait for.
LEMMA Enqueuing ==
  ASSUME NEW s \in Servers, NEW c \in Closers, NEW q \in Seq(Job), Distinct(q),
         c \notin Named(q), NEW cutoff
  PROVE  /\ Enqueued(q, c, s, cutoff) \in Seq(Job) /\ Distinct(Enqueued(q, c, s, cutoff))
         /\ Held(Enqueued(q, c, s, cutoff)) = Held(q)
         /\ Named(Enqueued(q, c, s, cutoff)) =
              Named(q) \cup (IF Ingress(s, cutoff) = {} THEN {c} ELSE {})
<1>1. CASE Ingress(s, cutoff) = {}
  BY <1>1, CommandJoins DEF Enqueued
<1>2. CASE Ingress(s, cutoff) # {}
  BY <1>2 DEF Enqueued
<1> QED
  BY <1>1, <1>2

\* When nothing received by the cutoff is under way, the command may be queued.
LEMMA NothingUnderWay ==
  ASSUME IngressTypes, AnswerFacts, NEW s \in Servers, NEW cutoff \in Nat,
         Ingress(s, cutoff) = {}, ~closing[s]
  PROVE  \A p \in Participants : answer[p].server = s => cutoff < answer[p].at
<1> SUFFICES ASSUME NEW p \in Participants, answer[p].server = s
             PROVE  cutoff < answer[p].at
  OBVIOUS
<1>1. answer[p].stage \in {"resolving", "ready"}
  BY IngressAssumption DEF AnswerFacts, AnswerFact
<1>2. ~(answer[p].at <= cutoff)
  BY <1>1 DEF Ingress
<1>3. answer[p].at \in Nat
  BY IngressAssumption DEF IngressTypes, AnswerRow, Times
<1> QED
  BY <1>2, <1>3

\* registerAnswerIngressBarrier and the flush up to its first wait: the batch is
\* split at the new cutoff, and a command that queues at once has nothing before
\* its cutoff under way.
LEMMA RegisterKeeps ==
  ASSUME IngressIInv, NEW c \in Closers, NEW s \in Servers, NEW record \in CloserRow, NEW cutoff \in Nat,
         closer[c].pc \in {"idle", "authenticate"},
         record.server = s, cutoff <= now,
         c \in AutoLocks => cutoff < now /\ record.action = "deadline",
         c \in HostCommands => record.action \in HostActions,
         Register(c, record, s, cutoff), UNCHANGED << now, answer, closing >>
  PROVE  /\ closer' \in [Closers -> CloserRow] /\ queue' \in [Servers -> Seq(Job)]
         /\ batch' \in [Servers -> BatchRow] /\ deferred' \in [Servers -> SUBSET Participants]
         /\ PlaceFacts' /\ CloserFacts' /\ FlushedFacts' /\ BarrierFacts'
<1> USE DEF IngressIInv
<1> DEFINE late == After(batch[s].items, Cutoffs(Holders(s)) \cup {cutoff})
           held == [record EXCEPT !.holds = TRUE]
           new == Waiting(held, s, cutoff)
<1>1. held \in CloserRow /\ held.holds /\ held.server = s /\ held.action = record.action
  BY DEF CloserRow
<1>2. /\ new \in CloserRow /\ new.cutoff = cutoff /\ new.server = s /\ new.action = record.action
      /\ new.holds /\ new.pc = IF Ingress(s, cutoff) = {} THEN "queued" ELSE "ready"
  <2> HIDE DEF held
  <2> QED
    BY <1>1, WaitingRow
<1>3. closer' = [closer EXCEPT ![c] = new]
  BY DEF Register
<1> HIDE DEF new, held
<1>4. /\ closer' \in [Closers -> CloserRow] /\ closer'[c] = new
      /\ \A d \in Closers \ {c} : closer'[d] = closer[d]
  BY <1>2, <1>3 DEF IngressTypes
<1>5. ~closer[c].holds /\ c \notin Named(queue[s])
  BY DEF CloserFacts, CloserFact, PlaceFacts, PlaceFact, QueuedAt
<1>6. late \subseteq batch[s].items /\ batch[s].items \subseteq Participants
  BY DEF After, IngressTypes, BatchRow
<1>7. /\ \A p \in batch[s].items \ late : answer[p].at <= cutoff
      /\ \A p \in late : cutoff < answer[p].at
  <2>1. \A p \in Participants : answer[p].at \in Nat
    BY IngressAssumption DEF IngressTypes, AnswerRow, Times
  <2>2. ASSUME NEW p \in batch[s].items \ late PROVE answer[p].at <= cutoff
    BY <1>6, <2>1 DEF After
  <2>3. ASSUME NEW p \in late PROVE cutoff < answer[p].at
    <3>0. p \in batch[s].items /\ answer[p].at \in Nat
      BY <1>6, <2>1
    <3>1. PICK t \in Cutoffs(Holders(s)) \cup {cutoff} : answer[p].at > t
      BY DEF After
    <3>2. CASE t \in Cutoffs(Holders(s))
      <4>1. PICK d \in Holders(s) : t = closer[d].cutoff
        BY <3>2 DEF Cutoffs
      <4>2. d \in Closers /\ HoldsAt(d, s)
        BY DEF Holders, HoldsAt
      <4>3. answer[p].at <= closer[d].cutoff
        BY <3>0, <4>2 DEF BarrierFacts, BarrierFact
      <4>4. closer[d].cutoff \in Nat
        BY <4>2 DEF IngressTypes, CloserRow
      <4>5. answer[p].at > closer[d].cutoff
        BY <3>1, <4>1
      <4> QED
        BY <3>0, <4>3, <4>4, <4>5
    <3>3. CASE t = cutoff
      BY <3>0, <3>1, <3>3
    <3> QED
      BY <3>1, <3>2, <3>3
  <2> QED
    BY <2>2, <2>3
<1>8. /\ deferred' = [deferred EXCEPT ![s] = deferred[s] \cup late]
      /\ batch' = IF late = {} THEN batch ELSE [batch EXCEPT ![s] = NoBatch]
  BY DEF Register, IngressTypes
<1>9. PICK q \in IF late = {} THEN {queue[s]} ELSE Processed(queue[s], batch[s].items \ late) :
         queue' = [queue EXCEPT ![s] = Enqueued(q, c, s, cutoff)]
  BY DEF Register
<1> HIDE DEF late
<1>10. /\ deferred' \in [Servers -> SUBSET Participants] /\ batch' \in [Servers -> BatchRow]
       /\ deferred'[s] = deferred[s] \cup late
       /\ batch'[s].items = IF late = {} THEN batch[s].items ELSE {}
       /\ \A t \in Servers \ {s} : deferred'[t] = deferred[t] /\ batch'[t] = batch[t]
  <2>1. NoBatch \in BatchRow /\ NoBatch.items = {}
    BY DEF NoBatch, BatchRow
  <2> QED
    BY <1>6, <1>8, <2>1 DEF IngressTypes
<1>11. /\ q \in Seq(Job) /\ Distinct(q) /\ Named(q) = Named(queue[s])
       /\ Held(q) = Held(queue[s]) \cup (IF late = {} THEN {} ELSE batch[s].items \ late)
  <2>1. /\ queue[s] \in Seq(Job) /\ Distinct(queue[s])
        /\ Held(queue[s]) \cap (batch[s].items \ late) = {}
    BY DEF IngressTypes, PlaceFacts, PlaceFact
  <2>2. CASE late = {}
    BY <1>9, <2>1, <2>2
  <2>3. CASE late # {}
    <3>1. IsFiniteSet(batch[s].items \ late) /\ batch[s].items \ late \in SUBSET Participants
      BY <1>6, FS_Subset, IngressAssumption
    <3> QED
      BY <1>9, <2>1, <2>3, <3>1, AnswersJoin
  <2> QED
    BY <2>2, <2>3
<1>12. /\ queue' \in [Servers -> Seq(Job)] /\ \A t \in Servers \ {s} : queue'[t] = queue[t]
       /\ Distinct(queue'[s]) /\ Held(queue'[s]) = Held(q)
       /\ Named(queue'[s]) = Named(q) \cup (IF Ingress(s, cutoff) = {} THEN {c} ELSE {})
  <2> DEFINE longer == Enqueued(q, c, s, cutoff)
  <2>1. c \notin Named(q)
    BY <1>5, <1>11
  <2>2. /\ longer \in Seq(Job) /\ Distinct(longer) /\ Held(longer) = Held(q)
        /\ Named(longer) = Named(q) \cup (IF Ingress(s, cutoff) = {} THEN {c} ELSE {})
    BY <1>11, <2>1, Enqueuing
  <2>3. queue' = [queue EXCEPT ![s] = longer] /\ queue \in [Servers -> Seq(Job)]
    BY <1>9 DEF IngressTypes
  <2> HIDE DEF longer
  <2> QED
    BY <2>2, <2>3
<1>13. ASSUME NEW t \in Servers
       PROVE  PlaceFact(t)' /\ BarrierFact(t)'
  <2>0. \A d \in Closers : QueuedAt(d, t) => d # c /\ QueuedAt(d, t)'
    BY <1>4 DEF QueuedAt
  <2>1. CASE t # s
    <3>1. \A p \in Participants : ReadyAt(p, t) => ReadyAt(p, t)' /\ answer'[p].at = answer[p].at
      BY DEF ReadyAt
    <3>2. /\ queue'[t] = queue[t] /\ batch'[t] = batch[t] /\ deferred'[t] = deferred[t]
          /\ closing'[t] = closing[t] /\ PlaceFact(t) /\ BarrierFact(t)
      BY <1>10, <1>12, <2>1 DEF PlaceFacts, BarrierFacts
    <3>3. \A d \in Closers : HoldsAt(d, t) <=> HoldsAt(d, t)'
      BY <1>2, <1>4, <1>5, <2>1 DEF HoldsAt
    <3>4. \A d \in Closers : HoldsAt(d, t) => closer'[d].cutoff = closer[d].cutoff
      BY <1>4, <1>5 DEF HoldsAt
    <3> QED
      BY <2>0, <3>1, <3>2, <3>3, <3>4, PlaceKept, BarrierKept
  <2>2. CASE t = s
    <3>1. /\ Distinct(queue[s]) /\ batch[s].items \cap deferred[s] = {}
          /\ Held(queue[s]) \cap (batch[s].items \cup deferred[s]) = {}
          /\ \A p \in Held(queue[s]) \cup batch[s].items \cup deferred[s] : ReadyAt(p, s)
          /\ \A d \in Named(queue[s]) : QueuedAt(d, s)
          /\ closing[s] => batch[s].items = {} /\ deferred[s] = {}
      BY DEF PlaceFacts, PlaceFact
    <3>2. /\ Held(queue'[s]) \cap (batch'[s].items \cup deferred'[s]) = {}
          /\ batch'[s].items \cap deferred'[s] = {}
          /\ Held(queue'[s]) \cup batch'[s].items \cup deferred'[s] =
               Held(queue[s]) \cup batch[s].items \cup deferred[s]
      BY <1>6, <1>10, <1>11, <1>12, <3>1
    <3>3. Ingress(s, cutoff) = {} => QueuedAt(c, s)'
      BY <1>2, <1>4 DEF QueuedAt
    <3>4. \A d \in Named(queue'[s]) : QueuedAt(d, s)'
      <4>1. Named(queue[s]) \subseteq Closers
        BY QueueHolds DEF IngressTypes
      <4> QED
        BY <1>11, <1>12, <2>0, <2>2, <3>1, <3>3, <4>1
    <3>5. PlaceFact(s)'
      <4>1. \A p \in Held(queue'[s]) \cup batch'[s].items \cup deferred'[s] : ReadyAt(p, s)'
        BY <3>1, <3>2 DEF ReadyAt
      <4>2. closing'[s] => batch'[s].items = {} /\ deferred'[s] = {}
        BY <1>6, <1>10, <3>1
      <4> QED
        BY <1>12, <3>2, <3>4, <4>1, <4>2 DEF PlaceFact
    <3>6. BarrierFact(s)'
      <4>1. \A d \in Closers \ {c} : closer'[d] = closer[d] /\ (HoldsAt(d, s)' <=> HoldsAt(d, s))
        BY <1>4 DEF HoldsAt
      <4>2. HoldsAt(c, s)' /\ closer'[c].cutoff = cutoff
        BY <1>2, <1>4 DEF HoldsAt
      <4>3. ASSUME NEW p \in batch'[s].items, NEW d \in Closers, HoldsAt(d, s)'
            PROVE  answer'[p].at <= closer'[d].cutoff
        <5>1. late = {} /\ p \in batch[s].items
          BY <1>10, <4>3
        <5>2. CASE d = c
          BY <1>7, <4>2, <5>1, <5>2
        <5>3. CASE d # c
          BY <4>1, <4>3, <5>1, <5>3 DEF BarrierFacts, BarrierFact
        <5> QED
          BY <5>2, <5>3
      <4>4. ASSUME NEW p \in deferred'[s]
            PROVE  \E d \in Closers : HoldsAt(d, s)' /\ closer'[d].cutoff < answer'[p].at
        <5>1. CASE p \in late
          BY <1>7, <4>2, <5>1
        <5>2. CASE p \in deferred[s]
          <6>1. PICK d \in Closers : HoldsAt(d, s) /\ closer[d].cutoff < answer[p].at
            BY <5>2 DEF BarrierFacts, BarrierFact
          <6>2. d # c
            BY <1>5, <6>1 DEF HoldsAt
          <6> QED
            BY <4>1, <6>1, <6>2
        <5> QED
          BY <1>10, <5>1, <5>2
      <4> QED
        BY <4>3, <4>4 DEF BarrierFact
    <3> QED
      BY <2>2, <3>5, <3>6
  <2> QED
    BY <2>1, <2>2
<1>14. ASSUME NEW d \in Closers
       PROVE  CloserFact(d)' /\ FlushedFact(d)'
  <2>1. CASE d # c
    BY <1>4, <2>1 DEF CloserFacts, CloserFact, FlushedFacts, FlushedFact
  <2>2. CASE d = c
    <3>1. CloserFact(c)'
      BY <1>2, <1>4 DEF CloserFact
    <3>2. FlushedFact(c)'
      <4>1. CASE Ingress(s, cutoff) = {} /\ ~closing[s]
        <5>1. \A p \in Participants : answer[p].server = s => cutoff < answer[p].at
          BY <4>1, NothingUnderWay
        <5>2. \A p \in Participants : answer[p].at \in Nat
          BY IngressAssumption DEF IngressTypes, AnswerRow, Times
        <5> QED
          BY <1>2, <1>4, <5>1, <5>2 DEF FlushedFact
      <4>2. CASE Ingress(s, cutoff) # {} \/ closing[s]
        BY <1>2, <1>4, <4>2 DEF FlushedFact
      <4> QED
        BY <4>1, <4>2
    <3> QED
      BY <2>2, <3>1, <3>2
  <2> QED
    BY <2>1, <2>2
<1> QED
  BY <1>4, <1>10, <1>12, <1>13, <1>14 DEF PlaceFacts, BarrierFacts, CloserFacts, FlushedFacts

-----------------------------------------------------------------------------
(* Steps that leave most of it alone, and their frames *)

\* What holds of a closer goes on holding while it stays as it is.
LEMMA CloserKept ==
  ASSUME IngressTypes, NEW d \in Closers, CloserFact(d), closer'[d] = closer[d], now <= now',
         now' \in Times, \A s \in Servers : closing[s] => closing'[s]
  PROVE  CloserFact(d)'
<1>1. now \in Nat /\ now' \in Nat /\ closer[d].cutoff \in Nat
  BY IngressAssumption DEF IngressTypes, Times, CloserRow
<1> QED
  BY <1>1 DEF CloserFact

\* Nothing before the cutoff of a queued closer comes under way again.
LEMMA FlushedKept ==
  ASSUME IngressTypes, NEW d \in Closers, CloserFact(d), FlushedFact(d), closer'[d] = closer[d],
         \A s \in Servers : closing[s] => closing'[s],
         \A p \in Participants : answer'[p].server # Nobody =>
            answer'[p].server = answer[p].server /\ answer'[p].at = answer[p].at
  PROVE  FlushedFact(d)'
<1>1. closer[d].pc = "queued" => closer[d].server \in Servers /\ closer[d].server # Nobody
  BY IngressAssumption DEF CloserFact
<1> QED
  BY <1>1 DEF FlushedFact

\* A step that touches neither answers nor commands.
LEMMA Elsewhere ==
  ASSUME IngressIInv, UNCHANGED << answer, closer, batch, deferred, queue, closing >>,
         now <= now', now' \in Times
  PROVE  AnswerFacts' /\ PlaceFacts' /\ CloserFacts' /\ FlushedFacts' /\ BarrierFacts'
<1> USE DEF IngressIInv
<1>1. AnswerFacts'
  BY DEF AnswerFacts, AnswerFact
<1>2. PlaceFacts'
  BY DEF PlaceFacts, PlaceFact, ReadyAt, QueuedAt
<1>3. BarrierFacts'
  BY DEF BarrierFacts, BarrierFact, HoldsAt
<1>4. ASSUME NEW d \in Closers
      PROVE  CloserFact(d)'
  BY CloserKept DEF CloserFacts
<1>5. FlushedFacts'
  BY DEF FlushedFacts, FlushedFact
<1> QED
  BY <1>1, <1>2, <1>3, <1>4, <1>5 DEF CloserFacts

\* Time passes.
LEMMA TickKeeps ==
  ASSUME IngressIInv, Tick
  PROVE  IngressIInv'
<1>1. now' \in Times /\ now <= now'
  BY IngressAssumption DEF IngressIInv, IngressTypes, Times, Tick
<1>2. IngressTypes' /\ TimerFacts'
  BY <1>1 DEF IngressIInv, IngressTypes, TimerFacts, Tick
<1> QED
  BY <1>1, <1>2, Elsewhere DEF Tick, IngressIInv

\* An unqueued load reads the room.
LEMMA BeginLoadKeeps ==
  ASSUME IngressIInv, NEW s \in Servers, BeginLoad(s)
  PROVE  IngressIInv'
<1>1. IngressTypes' /\ TimerFacts'
  BY DEF IngressIInv, IngressTypes, TimerFacts, BeginLoad
<1>2. now <= now' /\ now' \in Times
  BY IngressAssumption DEF IngressIInv, IngressTypes, Times, BeginLoad
<1> QED
  BY <1>1, <1>2, Elsewhere DEF BeginLoad, IngressIInv

\* An unqueued load schedules the deadline of what it has read.
LEMMA EndLoadKeeps ==
  ASSUME IngressIInv, NEW s \in Servers, EndLoad(s)
  PROVE  IngressIInv'
<1>1. loading[s] \in RoomRow
  BY DEF IngressIInv, IngressTypes, EndLoad
<1> DEFINE set == Scheduled(loading[s])
<1>2. set \in TimerRow \cup {Never} /\ (set # Never => set.deadline < set.due)
  BY <1>1, ScheduledLater DEF IngressIInv
<1>3. timer' = [timer EXCEPT ![s] = set]
  BY DEF EndLoad
<1> HIDE DEF set
<1>4. IngressTypes'
  BY <1>2, <1>3 DEF IngressIInv, IngressTypes, EndLoad
<1>5. TimerFacts'
  BY <1>2, <1>3 DEF IngressIInv, IngressTypes, TimerFacts
<1>6. now <= now' /\ now' \in Times
  BY IngressAssumption DEF IngressIInv, IngressTypes, Times, EndLoad
<1> QED
  BY <1>4, <1>5, <1>6, Elsewhere DEF EndLoad, IngressIInv

\* The timer a mutation leaves.
LEMMA RescheduledRow ==
  ASSUME IngressTypes, TimerFacts, NEW s \in Servers, NEW r \in RoomRow, timer' = Rescheduled(s, r)
  PROVE  timer' \in [Servers -> TimerRow \cup {Never}] /\ TimerFacts'
<1> DEFINE set == Scheduled(r)
<1>1. set \in TimerRow \cup {Never} /\ (set # Never => set.deadline < set.due)
  BY ScheduledLater
<1>2. timer' = timer \/ timer' = [timer EXCEPT ![s] = set]
  BY DEF Rescheduled
<1> HIDE DEF set
<1> QED
  BY <1>1, <1>2 DEF IngressTypes, TimerFacts

\* An answer is received now, so after every cutoff a timer's lock has taken and
\* not before a host's.
LEMMA ReceiveKeeps ==
  ASSUME IngressIInv, NEW p \in Participants, NEW s \in Servers, Receive(p, s)
  PROVE  IngressIInv'
<1> USE DEF IngressIInv
<1> DEFINE new == [stage |-> "resolving", server |-> s, at |-> now]
<1>1. new \in AnswerRow /\ answer' = [answer EXCEPT ![p] = new] /\ owed' \subseteq Participants
  BY DEF Receive, AnswerRow, IngressTypes, Stages
<1>2. /\ answer' \in [Participants -> AnswerRow] /\ answer'[p] = new
      /\ \A q \in Participants \ {p} : answer'[q] = answer[q]
  BY <1>1 DEF IngressTypes
<1>3. IngressTypes'
  BY <1>1, <1>2 DEF IngressTypes, Receive
<1>4. answer[p].stage = "unsent" /\ UNCHANGED << now, closer, batch, deferred, queue, timer, closing >>
  BY DEF Receive
<1>5. AnswerFacts'
  BY <1>2, IngressAssumption DEF AnswerFacts, AnswerFact
<1>6. ASSUME NEW t \in Servers
      PROVE  PlaceFact(t)' /\ BarrierFact(t)'
  <2>1. \A q \in Participants : ReadyAt(q, t) => ReadyAt(q, t)' /\ answer'[q].at = answer[q].at
    BY <1>2, <1>4 DEF ReadyAt
  <2>2. \A c \in Closers : /\ QueuedAt(c, t) <=> QueuedAt(c, t)'
                           /\ HoldsAt(c, t) <=> HoldsAt(c, t)'
    BY <1>4 DEF QueuedAt, HoldsAt
  <2> QED
    BY <1>4, <2>1, <2>2, PlaceKept, BarrierKept DEF PlaceFacts, BarrierFacts
<1>7. TimerFacts'
  BY <1>4 DEF TimerFacts
<1>8. CloserFacts'
  BY <1>4 DEF CloserFacts, CloserFact
<1>9. FlushedFacts'
  BY <1>2, <1>4 DEF FlushedFacts, FlushedFact, CloserFacts, CloserFact
<1> QED
  BY <1>3, <1>5, <1>6, <1>7, <1>8, <1>9 DEF PlaceFacts, BarrierFacts

\* The answers that get their outcome while closers stay.
LEMMA AnswersEnd ==
  ASSUME IngressIInv, answer' \in [Participants -> AnswerRow], UNCHANGED << now, closer, closing >>,
         \A p \in Participants : answer'[p] = answer[p] \/ \E v \in Verdicts : answer'[p] = Outcome(v)
  PROVE  AnswerFacts' /\ CloserFacts' /\ FlushedFacts'
<1> USE DEF IngressIInv
<1>1. \A p \in Participants : answer'[p] = answer[p] \/ (/\ answer'[p].server = Nobody
                                                         /\ answer'[p].stage \in Verdicts)
  BY OutcomeRow
<1>2. AnswerFacts'
  BY <1>1 DEF AnswerFacts, AnswerFact, Verdicts
<1>3. CloserFacts'
  BY DEF CloserFacts, CloserFact
<1>4. ASSUME NEW d \in Closers
      PROVE  FlushedFact(d)'
  BY <1>1, FlushedKept DEF CloserFacts, FlushedFacts
<1> QED
  BY <1>2, <1>3, <1>4 DEF FlushedFacts

\* The look-up of a participant fails.
LEMMA LookupFailsKeeps ==
  ASSUME IngressIInv, NEW p \in Participants, LookupFails(p)
  PROVE  IngressIInv'
<1> USE DEF IngressIInv
<1> DEFINE new == Outcome("error")
<1>1. answer[p].stage = "resolving" /\ answer' = [answer EXCEPT ![p] = new]
  BY DEF LookupFails
<1>2. new \in AnswerRow
  BY OutcomeRow DEF Verdicts
<1> HIDE DEF new
<1>3. /\ answer' \in [Participants -> AnswerRow] /\ answer'[p] = new
      /\ \A q \in Participants \ {p} : answer'[q] = answer[q]
  BY <1>1, <1>2 DEF IngressTypes
<1>4. IngressTypes'
  BY <1>3 DEF IngressTypes, LookupFails
<1>5. AnswerFacts' /\ CloserFacts' /\ FlushedFacts'
  BY <1>3, AnswersEnd DEF new, LookupFails, Verdicts
<1>6. ASSUME NEW t \in Servers
      PROVE  PlaceFact(t)' /\ BarrierFact(t)'
  <2>1. \A q \in Participants : ReadyAt(q, t) => ReadyAt(q, t)' /\ answer'[q].at = answer[q].at
    BY <1>1, <1>3 DEF ReadyAt
  <2>2. \A c \in Closers : /\ QueuedAt(c, t) <=> QueuedAt(c, t)'
                           /\ HoldsAt(c, t) <=> HoldsAt(c, t)'
    BY DEF LookupFails, QueuedAt, HoldsAt
  <2> QED
    BY <2>1, <2>2, PlaceKept, BarrierKept DEF PlaceFacts, BarrierFacts, LookupFails
<1>7. TimerFacts'
  BY DEF TimerFacts, LookupFails
<1> QED
  BY <1>4, <1>5, <1>6, <1>7 DEF PlaceFacts, BarrierFacts

\* dispatchAnswerBatch: the batch moves to the queue as a whole.
LEMMA DispatchBatchKeeps ==
  ASSUME IngressIInv, NEW s \in Servers, DispatchBatch(s)
  PROVE  IngressIInv'
<1> USE DEF IngressIInv
<1>1. NoBatch \in BatchRow /\ NoBatch.items = {}
  BY DEF NoBatch, BatchRow
<1>2. /\ batch' \in [Servers -> BatchRow] /\ batch'[s].items = {}
      /\ \A t \in Servers \ {s} : batch'[t] = batch[t]
  BY <1>1 DEF DispatchBatch, IngressTypes
<1>3. /\ queue[s] \in Seq(Job) /\ batch[s].items \in SUBSET Participants /\ PlaceFact(s)
  BY DEF IngressTypes, BatchRow, PlaceFacts
<1>4. /\ queue' \in [Servers -> Seq(Job)] /\ \A t \in Servers \ {s} : queue'[t] = queue[t]
      /\ Distinct(queue'[s]) /\ Named(queue'[s]) = Named(queue[s])
      /\ Held(queue'[s]) = Held(queue[s]) \cup batch[s].items
  BY <1>3, Processing DEF PlaceFact, DispatchBatch
<1>5. UNCHANGED << now, answer, closer, deferred, timer, closing >>
  BY DEF DispatchBatch
<1>6. IngressTypes'
  BY <1>2, <1>4 DEF IngressTypes, DispatchBatch
<1>7. AnswerFacts' /\ TimerFacts' /\ CloserFacts' /\ FlushedFacts'
  BY <1>5 DEF AnswerFacts, AnswerFact, TimerFacts, CloserFacts, CloserFact, FlushedFacts, FlushedFact
<1>8. ASSUME NEW t \in Servers
      PROVE  PlaceFact(t)' /\ BarrierFact(t)'
  <2>1. \A p \in Participants : ReadyAt(p, t) <=> ReadyAt(p, t)'
    BY <1>5 DEF ReadyAt
  <2>2. \A c \in Closers : /\ QueuedAt(c, t) <=> QueuedAt(c, t)'
                           /\ HoldsAt(c, t) <=> HoldsAt(c, t)'
    BY <1>5 DEF QueuedAt, HoldsAt
  <2>3. CASE t # s
    BY <1>2, <1>4, <1>5, <2>1, <2>2, <2>3, PlaceKept, BarrierKept DEF PlaceFacts, BarrierFacts
  <2>4. CASE t = s
    <3>1. PlaceFact(s)'
      <4>1. Held(queue[s]) \subseteq Participants /\ Named(queue[s]) \subseteq Closers
        BY <1>3, QueueHolds
      <4>2. deferred[s] \subseteq Participants
        BY DEF IngressTypes
      <4>3. \A p \in Held(queue'[s]) \cup batch'[s].items \cup deferred'[s] : ReadyAt(p, s)'
        BY <1>2, <1>3, <1>4, <1>5, <2>1, <2>4, <4>1, <4>2 DEF PlaceFact
      <4>4. \A c \in Named(queue'[s]) : QueuedAt(c, s)'
        BY <1>3, <1>4, <2>2, <2>4, <4>1 DEF PlaceFact
      <4> QED
        BY <1>2, <1>3, <1>4, <1>5, <4>3, <4>4 DEF PlaceFact
    <3>2. BarrierFact(s)'
      BY <1>2, <1>5 DEF BarrierFacts, BarrierFact, HoldsAt
    <3> QED
      BY <2>4, <3>1, <3>2
  <2> QED
    BY <2>3, <2>4
<1> QED
  BY <1>6, <1>7, <1>8 DEF PlaceFacts, BarrierFacts

\* The answers at the head of the queue get their outcome.
LEMMA AnswersRun ==
  ASSUME IngressIInv, NEW s \in Servers, queue[s] # << >>, Head(queue[s]).kind = "answers",
         queue' = [queue EXCEPT ![s] = Tail(@)], answer' \in [Participants -> AnswerRow],
         \A p \in Head(queue[s]).items : \E v \in Verdicts : answer'[p] = Outcome(v),
         \A p \in Participants \ Head(queue[s]).items : answer'[p] = answer[p],
         UNCHANGED << now, closer, batch, deferred, closing >>
  PROVE  /\ queue' \in [Servers -> Seq(Job)]
         /\ AnswerFacts' /\ PlaceFacts' /\ CloserFacts' /\ FlushedFacts' /\ BarrierFacts'
<1> USE DEF IngressIInv
<1> DEFINE rest == Tail(queue[s])
           items == Head(queue[s]).items
<1>1. queue[s] \in Seq(Job) /\ PlaceFact(s) /\ Distinct(queue[s])
  BY DEF IngressTypes, PlaceFacts, PlaceFact
<1>2. /\ rest \in Seq(Job) /\ Distinct(rest) /\ items \subseteq Held(queue[s])
      /\ Held(rest) = Held(queue[s]) \ items /\ Named(rest) = Named(queue[s])
  BY <1>1, HeadLeaves
<1>3. /\ Held(queue[s]) \subseteq Participants /\ Named(queue[s]) \subseteq Closers
      /\ batch[s].items \subseteq Participants /\ deferred[s] \subseteq Participants
  BY <1>1, QueueHolds DEF IngressTypes, BatchRow
<1>4. queue' = [queue EXCEPT ![s] = rest]
  OBVIOUS
<1>5. \A p \in items : ReadyAt(p, s)
  BY <1>1, <1>2 DEF PlaceFact
<1> HIDE DEF rest, items
<1>6. /\ queue' \in [Servers -> Seq(Job)] /\ queue'[s] = rest
      /\ \A t \in Servers \ {s} : queue'[t] = queue[t]
  BY <1>2, <1>4 DEF IngressTypes
<1>7. AnswerFacts' /\ CloserFacts' /\ FlushedFacts'
  <2>1. \A p \in Participants : answer'[p] = answer[p] \/ \E v \in Verdicts : answer'[p] = Outcome(v)
    BY DEF items
  <2> QED
    BY <2>1, AnswersEnd
<1>8. ASSUME NEW t \in Servers
      PROVE  PlaceFact(t)' /\ BarrierFact(t)'
  <2>1. \A c \in Closers : /\ QueuedAt(c, t) <=> QueuedAt(c, t)'
                           /\ HoldsAt(c, t) <=> HoldsAt(c, t)'
    BY DEF QueuedAt, HoldsAt
  <2>2. \A p \in Participants \ items : ReadyAt(p, t) => ReadyAt(p, t)' /\ answer'[p].at = answer[p].at
    BY DEF ReadyAt, items
  <2>3. CASE t # s
    <3>1. \A p \in Participants : ReadyAt(p, t) => p \notin items
      BY <1>5, <2>3 DEF ReadyAt
    <3> QED
      BY <1>6, <2>1, <2>2, <2>3, <3>1, PlaceKept, BarrierKept DEF PlaceFacts, BarrierFacts
  <2>4. CASE t = s
    <3>1. batch[s].items \cap items = {} /\ deferred[s] \cap items = {}
      BY <1>1, <1>2 DEF PlaceFact
    <3>2. PlaceFact(s)'
      <4>1. \A p \in Held(queue'[s]) \cup batch'[s].items \cup deferred'[s] : ReadyAt(p, s)'
        BY <1>1, <1>2, <1>3, <1>6, <2>2, <2>4, <3>1 DEF PlaceFact
      <4>2. \A c \in Named(queue'[s]) : QueuedAt(c, s)'
        BY <1>1, <1>2, <1>3, <1>6, <2>1, <2>4 DEF PlaceFact
      <4> QED
        BY <1>1, <1>2, <1>6, <4>1, <4>2 DEF PlaceFact
    <3>3. BarrierFact(s)'
      <4>1. \A p \in batch[s].items \cup deferred[s] : answer'[p].at = answer[p].at
        BY <1>1, <1>3, <2>2, <2>4, <3>1 DEF PlaceFact
      <4> QED
        BY <4>1 DEF BarrierFacts, BarrierFact, HoldsAt
    <3> QED
      BY <2>4, <3>2, <3>3
  <2> QED
    BY <2>3, <2>4
<1> QED
  BY <1>6, <1>7, <1>8 DEF PlaceFacts, BarrierFacts

\* processAnswerBatch.
LEMMA RunAnswersKeeps ==
  ASSUME IngressIInv, NEW s \in Servers, RunAnswers(s)
  PROVE  IngressIInv'
<1> USE DEF IngressIInv
<1> DEFINE items == Head(queue[s]).items
           verdict == [p \in items |-> IF closing[s] THEN "error" ELSE VerdictAt(p)]
           accepted == {p \in items : verdict[p] = "accepted"}
<1>1. /\ queue[s] # << >> /\ Head(queue[s]).kind = "answers"
      /\ queue' = [queue EXCEPT ![s] = Tail(@)]
      /\ answer' = [p \in Participants |-> IF p \in items THEN Outcome(verdict[p]) ELSE answer[p]]
      /\ room' = [room EXCEPT !.version = @ + Cardinality(accepted)]
      /\ timer' = Rescheduled(s, room)
      /\ UNCHANGED << now, closer, batch, deferred, closing, loading, owed, faults, loads >>
  BY DEF RunAnswers
<1>2. \A p \in items : verdict[p] \in Verdicts
  BY DEF VerdictAt, Verdicts
<1>3. items \subseteq Participants
  BY <1>1, HeadLeaves, QueueHolds DEF IngressTypes, PlaceFacts, PlaceFact
<1>4. Cardinality(accepted) \in Nat
  BY <1>3, FS_Subset, FS_CardinalityType, IngressAssumption
<1> HIDE DEF verdict, accepted
<1>5. room' \in RoomRow
  <2> DEFINE version == room.version + Cardinality(accepted)
  <2>1. room \in RoomRow /\ version \in Nat
    BY <1>4 DEF IngressTypes, RoomRow
  <2>2. room' = [room EXCEPT !.version = version]
    BY <1>1
  <2> HIDE DEF version
  <2> QED
    BY <2>1, <2>2 DEF RoomRow
<1>6. answer' \in [Participants -> AnswerRow]
  BY <1>1, <1>2, OutcomeRow DEF IngressTypes
<1>7. /\ \A p \in items : \E v \in Verdicts : answer'[p] = Outcome(v)
      /\ \A p \in Participants \ items : answer'[p] = answer[p]
  BY <1>1, <1>2, <1>3
<1>8. /\ queue' \in [Servers -> Seq(Job)]
      /\ AnswerFacts' /\ PlaceFacts' /\ CloserFacts' /\ FlushedFacts' /\ BarrierFacts'
  BY <1>1, <1>6, <1>7, AnswersRun
<1>9. timer' \in [Servers -> TimerRow \cup {Never}] /\ TimerFacts'
  BY <1>1, RescheduledRow DEF IngressTypes
<1>10. IngressTypes'
  BY <1>1, <1>5, <1>6, <1>8, <1>9 DEF IngressTypes
<1> QED
  BY <1>8, <1>9, <1>10

\* A refused host has raised no barrier.
LEMMA UnauthorizedKeeps ==
  ASSUME IngressIInv, NEW c \in Closers, Unauthorized(c)
  PROVE  IngressIInv'
<1> USE DEF IngressIInv
<1>1. Done \in CloserRow /\ Done.pc = "done" /\ ~Done.holds /\ Done.action = "lock"
  BY DEF Done, Idle, CloserRow, HostActions
<1>2. closer[c].pc = "authenticate" /\ closer' = [closer EXCEPT ![c] = Done]
  BY DEF Unauthorized
<1>3. UNCHANGED << now, answer, batch, deferred, queue, timer, closing >>
  BY DEF Unauthorized
<1>4. /\ closer' \in [Closers -> CloserRow] /\ closer'[c] = Done
      /\ \A d \in Closers \ {c} : closer'[d] = closer[d]
  BY <1>1, <1>2 DEF IngressTypes
<1>5. IngressTypes'
  BY <1>4 DEF IngressTypes, Unauthorized
<1>6. ~closer[c].holds /\ c \notin AutoLocks
  BY <1>2, IngressAssumption DEF CloserFacts, CloserFact, ClosesIngress
<1>7. ASSUME NEW d \in Closers
      PROVE  CloserFact(d)' /\ FlushedFact(d)'
  BY <1>1, <1>3, <1>4, <1>6 DEF CloserFacts, CloserFact, FlushedFacts, FlushedFact, HostActions
<1>8. ASSUME NEW t \in Servers
      PROVE  PlaceFact(t)' /\ BarrierFact(t)'
  <2>1. \A p \in Participants : ReadyAt(p, t) => ReadyAt(p, t)' /\ answer'[p].at = answer[p].at
    BY <1>3 DEF ReadyAt
  <2>2. \A d \in Closers : /\ QueuedAt(d, t) => QueuedAt(d, t)'
                           /\ HoldsAt(d, t) <=> HoldsAt(d, t)'
                           /\ HoldsAt(d, t) => closer'[d].cutoff = closer[d].cutoff
    BY <1>1, <1>2, <1>3, <1>4, <1>6 DEF QueuedAt, HoldsAt
  <2> QED
    BY <1>3, <2>1, <2>2, PlaceKept, BarrierKept DEF PlaceFacts, BarrierFacts
<1>9. AnswerFacts' /\ TimerFacts'
  BY <1>3 DEF AnswerFacts, AnswerFact, TimerFacts
<1> QED
  BY <1>5, <1>7, <1>8, <1>9 DEF PlaceFacts, BarrierFacts, CloserFacts, FlushedFacts

\* A command arrives; one that closes nothing queues at once.
LEMMA SendCommandKeeps ==
  ASSUME IngressIInv, NEW c \in Closers, NEW s \in Servers, NEW action \in HostActions,
         NEW expected \in Nat, SendCommand(c, s, action, expected)
  PROVE  IngressIInv'
<1> USE DEF IngressIInv
<1> DEFINE pc == IF ClosesIngress(action) THEN "authenticate" ELSE "queued"
           new == [closer[c] EXCEPT !.server = s, !.action = action, !.expected = expected,
                                    !.pc = pc]
<1>1. /\ c \in HostCommands /\ closer[c].pc = "idle" /\ closer[c] \in CloserRow
      /\ ~closer[c].holds /\ c \notin AutoLocks
  BY IngressAssumption DEF SendCommand, IngressTypes, CloserFacts, CloserFact
<1>2. UNCHANGED << now, answer, batch, deferred, timer, closing >>
  BY DEF SendCommand
<1>3. /\ new \in CloserRow /\ new.pc = pc /\ new.server = s /\ new.action = action
      /\ ~new.holds /\ new.cutoff = closer[c].cutoff
  <2>1. pc \in {"authenticate", "queued"}
    OBVIOUS
  <2> HIDE DEF pc
  <2> QED
    BY <1>1, <2>1 DEF CloserRow
<1>4. closer' = [closer EXCEPT ![c] = new]
  BY DEF SendCommand
<1> HIDE DEF new
<1>5. /\ closer' \in [Closers -> CloserRow] /\ closer'[c] = new
      /\ \A d \in Closers \ {c} : closer'[d] = closer[d]
  BY <1>3, <1>4 DEF IngressTypes
<1>6. /\ queue[s] \in Seq(Job) /\ PlaceFact(s) /\ Distinct(queue[s])
      /\ Named(queue[s]) \subseteq Closers /\ c \notin Named(queue[s])
  BY <1>1, QueueHolds DEF IngressTypes, PlaceFacts, PlaceFact, QueuedAt
<1>7. /\ queue' \in [Servers -> Seq(Job)] /\ \A t \in Servers \ {s} : queue'[t] = queue[t]
      /\ Distinct(queue'[s]) /\ Held(queue'[s]) = Held(queue[s])
      /\ Named(queue'[s]) \subseteq Named(queue[s]) \cup (IF pc = "queued" THEN {c} ELSE {})
  <2> DEFINE longer == Append(queue[s], CommandJob(c))
  <2>1. /\ longer \in Seq(Job) /\ Distinct(longer) /\ Held(longer) = Held(queue[s])
        /\ Named(longer) = Named(queue[s]) \cup {c}
    BY <1>6, CommandJoins
  <2>2. IF ClosesIngress(action) THEN queue' = queue ELSE queue' = [queue EXCEPT ![s] = longer]
    BY DEF SendCommand
  <2> HIDE DEF longer
  <2> QED
    BY <1>6, <2>1, <2>2 DEF IngressTypes
<1>8. IngressTypes'
  BY <1>5, <1>7 DEF IngressTypes, SendCommand
<1>9. ASSUME NEW d \in Closers
      PROVE  CloserFact(d)' /\ FlushedFact(d)'
  <2>1. CASE d = c
    BY <1>1, <1>3, <1>5, <2>1 DEF CloserFact, FlushedFact
  <2>2. CASE d # c
    BY <1>2, <1>5, <2>2 DEF CloserFacts, CloserFact, FlushedFacts, FlushedFact
  <2> QED
    BY <2>1, <2>2
<1>10. ASSUME NEW t \in Servers
       PROVE  PlaceFact(t)' /\ BarrierFact(t)'
  <2>1. \A p \in Participants : (ReadyAt(p, t) <=> ReadyAt(p, t)') /\ answer'[p].at = answer[p].at
    BY <1>2 DEF ReadyAt
  <2>2. \A d \in Closers : /\ QueuedAt(d, t) => QueuedAt(d, t)'
                           /\ HoldsAt(d, t) <=> HoldsAt(d, t)'
                           /\ HoldsAt(d, t) => closer'[d].cutoff = closer[d].cutoff
    BY <1>1, <1>2, <1>3, <1>5 DEF QueuedAt, HoldsAt
  <2>3. BarrierFact(t)'
    BY <1>2, <2>1, <2>2, BarrierKept DEF PlaceFacts, BarrierFacts
  <2>4. CASE t # s
    <3>1. /\ queue'[t] = queue[t] /\ batch'[t] = batch[t] /\ deferred'[t] = deferred[t]
          /\ closing'[t] = closing[t]
      BY <1>2, <1>7, <2>4
    <3>2. IngressTypes /\ PlaceFact(t)
      BY DEF PlaceFacts
    <3>3. PlaceFact(t)'
      <4> HIDE DEF IngressIInv
      <4> QED
        BY <2>1, <2>2, <3>1, <3>2, PlaceKept
    <3> QED
      BY <2>3, <3>3
  <2>5. CASE t = s
    <3>1. pc = "queued" => QueuedAt(c, s)'
      BY <1>3, <1>5 DEF QueuedAt, ClosesIngress, HostActions
    <3>2. \A d \in Named(queue'[s]) : QueuedAt(d, s)'
      BY <1>6, <1>7, <2>2, <2>5, <3>1 DEF PlaceFact
    <3>3. Held(queue[s]) \cup batch[s].items \cup deferred[s] \subseteq Participants
      BY <1>6, QueueHolds DEF IngressTypes, BatchRow
    <3>4. /\ Distinct(queue'[s]) /\ Held(queue'[s]) = Held(queue[s])
          /\ batch'[s] = batch[s] /\ deferred'[s] = deferred[s] /\ closing'[s] = closing[s]
      BY <1>2, <1>7
    <3>5. \A p \in Held(queue'[s]) \cup batch'[s].items \cup deferred'[s] : ReadyAt(p, s)'
      BY <1>6, <2>1, <2>5, <3>3, <3>4 DEF PlaceFact
    <3>6. PlaceFact(s)'
      BY <1>6, <3>2, <3>4, <3>5 DEF PlaceFact
    <3> QED
      BY <2>3, <2>5, <3>6
  <2> QED
    BY <2>3, <2>4, <2>5
<1>11. AnswerFacts' /\ TimerFacts'
  BY <1>2 DEF AnswerFacts, AnswerFact, TimerFacts
<1> QED
  BY <1>8, <1>9, <1>10, <1>11 DEF PlaceFacts, BarrierFacts, CloserFacts, FlushedFacts

\* A host's command takes its cutoff and raises its barrier.
LEMMA AuthenticateKeeps ==
  ASSUME IngressIInv, NEW c \in Closers, Authenticate(c)
  PROVE  IngressIInv'
<1> USE DEF IngressIInv
<1>1. /\ closer[c] \in CloserRow /\ closer[c].pc = "authenticate" /\ closer[c].server \in Servers
      /\ c \notin AutoLocks /\ now \in Nat /\ now <= now
      /\ c \in HostCommands => closer[c].action \in HostActions
  <2>1. closer[c] \in CloserRow /\ closer[c].pc = "authenticate" /\ CloserFact(c)
    BY DEF Authenticate, IngressTypes, CloserFacts
  <2>2. now \in Nat
    BY IngressAssumption DEF IngressTypes, Times
  <2> QED
    BY <2>1, <2>2 DEF CloserFact, ClosesIngress
<1>2. Register(c, closer[c], closer[c].server, now)
  BY DEF Authenticate
<1>3. UNCHANGED << now, room, answer, timer, closing, loading, owed, faults, loads >>
  BY DEF Authenticate
<1>4. /\ closer' \in [Closers -> CloserRow] /\ queue' \in [Servers -> Seq(Job)]
      /\ batch' \in [Servers -> BatchRow] /\ deferred' \in [Servers -> SUBSET Participants]
      /\ PlaceFacts' /\ CloserFacts' /\ FlushedFacts' /\ BarrierFacts'
  BY <1>1, <1>2, <1>3, RegisterKeeps
<1>5. IngressTypes' /\ AnswerFacts' /\ TimerFacts'
  BY <1>3, <1>4 DEF IngressTypes, AnswerFacts, AnswerFact, TimerFacts
<1> QED
  BY <1>4, <1>5

\* The deadline's timer fires: its cutoff, the deadline, has passed.
LEMMA FireTimerKeeps ==
  ASSUME IngressIInv, NEW c \in Closers, NEW s \in Servers, FireTimer(c, s)
  PROVE  IngressIInv'
<1> USE DEF IngressIInv
<1> DEFINE record == [Idle EXCEPT !.server = s, !.action = "deadline"]
           cutoff == timer[s].deadline
<1>1. record \in CloserRow /\ record.server = s /\ record.action = "deadline"
  BY DEF CloserRow, Idle
<1>2. cutoff \in Nat /\ cutoff < now /\ cutoff <= now
  BY IngressAssumption DEF FireTimer, IngressTypes, TimerRow, TimerFacts, Times
<1>3. Register(c, record, s, cutoff) /\ c \in AutoLocks /\ c \notin HostCommands /\ closer[c].pc = "idle"
  BY IngressAssumption DEF FireTimer
<1> HIDE DEF record, cutoff
<1>4. UNCHANGED << now, room, answer, closing, loading, owed, faults, loads >>
      /\ timer' = [timer EXCEPT ![s] = Never]
  BY DEF FireTimer
<1>5. /\ closer' \in [Closers -> CloserRow] /\ queue' \in [Servers -> Seq(Job)]
      /\ batch' \in [Servers -> BatchRow] /\ deferred' \in [Servers -> SUBSET Participants]
      /\ PlaceFacts' /\ CloserFacts' /\ FlushedFacts' /\ BarrierFacts'
  BY <1>1, <1>2, <1>3, <1>4, RegisterKeeps
<1>6. IngressTypes' /\ AnswerFacts' /\ TimerFacts'
  BY <1>4, <1>5 DEF IngressTypes, AnswerFacts, AnswerFact, TimerFacts
<1> QED
  BY <1>5, <1>6

-----------------------------------------------------------------------------
(* Flushing *)

\* The flush cuts the batch; its barrier has kept later answers out of it.
LEMMA CutBatchKeeps ==
  ASSUME IngressIInv, NEW c \in Closers, CutBatch(c)
  PROVE  IngressIInv'
<1> USE DEF IngressIInv
<1>0. PICK s \in Servers : closer[c].server = s
  BY DEF CutBatch, CloserFacts, CloserFact
<1> DEFINE late == After(batch[s].items, {closer[c].cutoff})
           new == [closer[c] EXCEPT !.pc = "settle"]
<1>1. /\ closer[c] \in CloserRow /\ closer[c].pc = "ready"
      /\ closer[c].holds \/ closing[s]
  BY <1>0 DEF CutBatch, IngressTypes, CloserFacts, CloserFact
<1>2. UNCHANGED << now, answer, timer, closing >>
  BY DEF CutBatch
<1>3. /\ new \in CloserRow /\ new.pc = "settle" /\ new.server = s /\ new.holds = closer[c].holds
      /\ new.cutoff = closer[c].cutoff /\ new.action = closer[c].action
  BY <1>0, <1>1 DEF CloserRow
<1>4. closer' = [closer EXCEPT ![c] = new]
  BY DEF CutBatch
<1> HIDE DEF new
<1>5. /\ closer' \in [Closers -> CloserRow] /\ closer'[c] = new
      /\ \A d \in Closers \ {c} : closer'[d] = closer[d]
  BY <1>3, <1>4 DEF IngressTypes
<1>6. /\ queue[s] \in Seq(Job) /\ PlaceFact(s) /\ BarrierFact(s)
      /\ batch[s].items \subseteq Participants /\ deferred[s] \subseteq Participants
      /\ Held(queue[s]) \subseteq Participants /\ Named(queue[s]) \subseteq Closers
  BY <1>1, QueueHolds DEF IngressTypes, BatchRow, PlaceFacts, BarrierFacts
\* The batch holds nothing back that its own barrier would.
<1>7. late = {}
  <2> SUFFICES ASSUME NEW p \in batch[s].items, answer[p].at > closer[c].cutoff
               PROVE  FALSE
    BY DEF After
  <2>1. closer[c].holds
    BY <1>1, <1>6 DEF PlaceFact
  <2>2. answer[p].at <= closer[c].cutoff
    BY <1>0, <1>6, <2>1 DEF BarrierFact, HoldsAt
  <2>3. answer[p].at \in Nat /\ closer[c].cutoff \in Nat
    BY <1>1, <1>6, IngressAssumption DEF IngressTypes, AnswerRow, CloserRow, Times
  <2> QED
    BY <2>2, <2>3
<1>8. /\ Process(s, queue[s], batch[s].items) /\ batch' = [batch EXCEPT ![s] = NoBatch]
      /\ deferred' = deferred
  BY <1>0, <1>7 DEF CutBatch, IngressTypes
<1> HIDE DEF late
<1>9. /\ batch' \in [Servers -> BatchRow] /\ batch'[s].items = {}
      /\ \A t \in Servers \ {s} : batch'[t] = batch[t]
  BY <1>1, <1>8 DEF IngressTypes, NoBatch, BatchRow
<1>10. /\ queue' \in [Servers -> Seq(Job)] /\ \A t \in Servers \ {s} : queue'[t] = queue[t]
       /\ Distinct(queue'[s]) /\ Named(queue'[s]) = Named(queue[s])
       /\ Held(queue'[s]) = Held(queue[s]) \cup batch[s].items
  BY <1>1, <1>6, <1>8, Processing DEF PlaceFact
<1>11. IngressTypes' /\ AnswerFacts' /\ TimerFacts'
  BY <1>2, <1>5, <1>8, <1>9, <1>10
     DEF IngressTypes, AnswerFacts, AnswerFact, TimerFacts, CutBatch
<1>12. ASSUME NEW d \in Closers
       PROVE  CloserFact(d)' /\ FlushedFact(d)'
  <2>1. CASE d = c
    BY <1>0, <1>1, <1>2, <1>3, <1>5, <2>1 DEF CloserFacts, CloserFact, FlushedFact
  <2>2. CASE d # c
    BY <1>2, <1>5, <2>2 DEF CloserFacts, CloserFact, FlushedFacts, FlushedFact
  <2> QED
    BY <2>1, <2>2
<1>13. ASSUME NEW t \in Servers
       PROVE  PlaceFact(t)' /\ BarrierFact(t)'
  <2>1. \A p \in Participants : ReadyAt(p, t) => ReadyAt(p, t)' /\ answer'[p].at = answer[p].at
    BY <1>2 DEF ReadyAt
  <2>2. \A d \in Closers : /\ QueuedAt(d, t) => QueuedAt(d, t)'
                           /\ HoldsAt(d, t) <=> HoldsAt(d, t)'
                           /\ HoldsAt(d, t) => closer'[d].cutoff = closer[d].cutoff
    BY <1>0, <1>1, <1>2, <1>3, <1>5 DEF QueuedAt, HoldsAt
  <2>3. CASE t # s
    BY <1>2, <1>8, <1>9, <1>10, <2>1, <2>2, <2>3, PlaceKept, BarrierKept
       DEF PlaceFacts, BarrierFacts
  <2>4. CASE t = s
    <3>1. \A p \in Held(queue'[s]) \cup batch'[s].items \cup deferred'[s] : ReadyAt(p, s)'
      BY <1>6, <1>8, <1>9, <1>10, <2>1, <2>4 DEF PlaceFact
    <3>2. \A d \in Named(queue'[s]) : QueuedAt(d, s)'
      BY <1>6, <1>10, <2>2, <2>4 DEF PlaceFact
    <3>3. PlaceFact(s)'
      BY <1>2, <1>6, <1>8, <1>9, <1>10, <3>1, <3>2 DEF PlaceFact
    <3>4. BarrierFact(s)'
      <4>1. ASSUME NEW p \in deferred'[s]
            PROVE  \E d \in Closers : HoldsAt(d, s)' /\ closer'[d].cutoff < answer'[p].at
        <5>1. PICK d \in Closers : HoldsAt(d, s) /\ closer[d].cutoff < answer[p].at
          BY <1>6, <1>8 DEF BarrierFact
        <5> QED
          BY <1>2, <2>2, <2>4, <5>1
      <4> QED
        BY <1>9, <4>1 DEF BarrierFact
    <3> QED
      BY <2>4, <3>3, <3>4
  <2> QED
    BY <2>3, <2>4
<1> QED
  BY <1>11, <1>12, <1>13 DEF PlaceFacts, BarrierFacts, CloserFacts, FlushedFacts

\* The flush looks again, and queues its command when nothing is left.
LEMMA FlushedKeeps ==
  ASSUME IngressIInv, NEW c \in Closers, Flushed(c)
  PROVE  IngressIInv'
<1> USE DEF IngressIInv
<1>0. PICK s \in Servers, cutoff \in Nat : closer[c].server = s /\ closer[c].cutoff = cutoff
  BY DEF Flushed, CloserFacts, CloserFact, IngressTypes, CloserRow
<1> DEFINE new == Waiting(closer[c], s, cutoff)
           longer == Enqueued(queue[s], c, s, cutoff)
<1>1. /\ closer[c] \in CloserRow /\ closer[c].pc = "settle"
      /\ closer[c].holds \/ closing[s]
  BY <1>0 DEF Flushed, IngressTypes, CloserFacts, CloserFact, CloserRow
<1>2. UNCHANGED << now, answer, batch, deferred, timer, closing >>
  BY DEF Flushed
<1>3. /\ new \in CloserRow /\ new.cutoff = cutoff /\ new.server = s
      /\ new.action = closer[c].action /\ new.holds = closer[c].holds
      /\ new.pc = IF Ingress(s, cutoff) = {} THEN "queued" ELSE "ready"
  BY <1>0, <1>1, WaitingRow
<1>4. closer' = [closer EXCEPT ![c] = new] /\ queue' = [queue EXCEPT ![s] = longer]
  BY <1>0, <1>1 DEF Flushed, IngressTypes
<1>5. /\ queue[s] \in Seq(Job) /\ PlaceFact(s) /\ Distinct(queue[s])
      /\ batch[s].items \subseteq Participants /\ deferred[s] \subseteq Participants
      /\ Held(queue[s]) \subseteq Participants /\ Named(queue[s]) \subseteq Closers
      /\ c \notin Named(queue[s])
  BY <1>1, QueueHolds DEF IngressTypes, BatchRow, PlaceFacts, PlaceFact, QueuedAt
<1>6. /\ longer \in Seq(Job) /\ Distinct(longer) /\ Held(longer) = Held(queue[s])
      /\ Named(longer) = Named(queue[s]) \cup (IF Ingress(s, cutoff) = {} THEN {c} ELSE {})
  BY <1>1, <1>5, Enqueuing
<1> HIDE DEF new, longer
<1>7. /\ closer' \in [Closers -> CloserRow] /\ closer'[c] = new
      /\ \A d \in Closers \ {c} : closer'[d] = closer[d]
      /\ queue' \in [Servers -> Seq(Job)] /\ queue'[s] = longer
      /\ \A t \in Servers \ {s} : queue'[t] = queue[t]
  BY <1>1, <1>3, <1>4, <1>6 DEF IngressTypes
<1>8. IngressTypes' /\ AnswerFacts' /\ TimerFacts'
  BY <1>2, <1>7 DEF IngressTypes, AnswerFacts, AnswerFact, TimerFacts, Flushed
<1>9. ASSUME NEW d \in Closers
      PROVE  CloserFact(d)' /\ FlushedFact(d)'
  <2>1. CASE d # c
    BY <1>2, <1>7, <2>1 DEF CloserFacts, CloserFact, FlushedFacts, FlushedFact
  <2>2. CASE d = c
    <3>1. CloserFact(c)'
      BY <1>0, <1>1, <1>2, <1>3, <1>7 DEF CloserFacts, CloserFact
    <3>2. FlushedFact(c)'
      <4>1. CASE Ingress(s, cutoff) = {} /\ ~closing[s]
        <5>1. \A p \in Participants : answer[p].server = s => cutoff < answer[p].at
          BY <1>1, <4>1, NothingUnderWay
        <5>2. \A p \in Participants : answer[p].at \in Nat
          BY IngressAssumption DEF IngressTypes, AnswerRow, Times
        <5> QED
          BY <1>2, <1>3, <1>7, <5>1, <5>2 DEF FlushedFact
      <4>2. CASE Ingress(s, cutoff) # {} \/ closing[s]
        BY <1>2, <1>3, <1>7, <4>2 DEF FlushedFact
      <4> QED
        BY <4>1, <4>2
    <3> QED
      BY <2>2, <3>1, <3>2
  <2> QED
    BY <2>1, <2>2
<1>10. ASSUME NEW t \in Servers
       PROVE  PlaceFact(t)' /\ BarrierFact(t)'
  <2>1. \A p \in Participants : ReadyAt(p, t) => ReadyAt(p, t)' /\ answer'[p].at = answer[p].at
    BY <1>2 DEF ReadyAt
  <2>2. \A d \in Closers : /\ QueuedAt(d, t) => QueuedAt(d, t)'
                           /\ HoldsAt(d, t) <=> HoldsAt(d, t)'
                           /\ HoldsAt(d, t) => closer'[d].cutoff = closer[d].cutoff
    BY <1>0, <1>1, <1>2, <1>3, <1>7 DEF QueuedAt, HoldsAt
  <2>3. BarrierFact(t)'
    BY <1>2, <2>1, <2>2, BarrierKept DEF PlaceFacts, BarrierFacts
  <2>4. CASE t # s
    BY <1>2, <1>7, <2>1, <2>2, <2>3, <2>4, PlaceKept DEF PlaceFacts
  <2>5. CASE t = s
    <3>1. Ingress(s, cutoff) = {} => QueuedAt(c, s)'
      BY <1>1, <1>2, <1>3, <1>7 DEF QueuedAt
    <3>2. \A d \in Named(queue'[s]) : QueuedAt(d, s)'
      BY <1>5, <1>6, <1>7, <2>2, <2>5, <3>1 DEF PlaceFact
    <3>3. Held(queue'[s]) = Held(queue[s]) /\ Distinct(queue'[s])
      BY <1>6, <1>7
    <3>4. PlaceFact(s)'
      BY <1>2, <1>5, <2>1, <2>5, <3>2, <3>3 DEF PlaceFact
    <3> QED
      BY <2>3, <2>5, <3>4
  <2> QED
    BY <2>3, <2>4, <2>5
<1> QED
  BY <1>8, <1>9, <1>10 DEF PlaceFacts, BarrierFacts, CloserFacts, FlushedFacts

-----------------------------------------------------------------------------
(* Commands and failures *)

\* The command at the head of the queue ends, and what its barrier alone held
\* back is processed.
LEMMA ReleaseKeeps ==
  ASSUME IngressIInv, NEW s \in Servers, NEW c, queue[s] # << >>, Head(queue[s]).kind = "command",
         c = Head(queue[s]).by, Release(c, s), UNCHANGED << now, answer, batch, closing >>
  PROVE  /\ closer' \in [Closers -> CloserRow] /\ queue' \in [Servers -> Seq(Job)]
         /\ deferred' \in [Servers -> SUBSET Participants]
         /\ PlaceFacts' /\ CloserFacts' /\ FlushedFacts' /\ BarrierFacts'
<1> USE DEF IngressIInv
<1> DEFINE rest == Tail(queue[s])
           held == After(deferred[s], Cutoffs(Holders(s) \ {c}))
           new == IF c \in AutoLocks THEN Idle ELSE Done
           freed == IF closer[c].holds THEN deferred[s] \ held ELSE {}
<1>1. /\ queue[s] \in Seq(Job) /\ PlaceFact(s) /\ BarrierFact(s) /\ Distinct(queue[s])
      /\ batch[s].items \subseteq Participants /\ deferred[s] \subseteq Participants
      /\ Held(queue[s]) \subseteq Participants /\ Named(queue[s]) \subseteq Closers
  BY QueueHolds DEF IngressTypes, BatchRow, PlaceFacts, PlaceFact, BarrierFacts
<1>2. /\ rest \in Seq(Job) /\ Distinct(rest) /\ Held(rest) \subseteq Held(queue[s])
      /\ c \in Named(queue[s]) /\ Named(rest) = Named(queue[s]) \ {c}
  BY <1>1, HeadLeaves
<1>3. c \in Closers /\ closer[c].pc = "queued" /\ closer[c].server = s
  BY <1>1, <1>2 DEF PlaceFact, QueuedAt
<1>4. /\ new \in CloserRow /\ ~new.holds /\ new.action = "lock"
      /\ new.pc = IF c \in AutoLocks THEN "idle" ELSE "done"
  BY DEF Done, Idle, CloserRow, HostActions
<1>5. closer' = [closer EXCEPT ![c] = new]
  BY DEF Release
<1> HIDE DEF new
<1>6. /\ closer' \in [Closers -> CloserRow] /\ closer'[c] = new
      /\ \A d \in Closers \ {c} : closer'[d] = closer[d]
  BY <1>3, <1>4, <1>5 DEF IngressTypes
<1>7. held \subseteq deferred[s]
  BY DEF After
\* What goes on being held has another holder; what is freed has none.
<1>8. /\ \A p \in held : \E d \in Closers \ {c} : HoldsAt(d, s) /\ closer[d].cutoff < answer[p].at
      /\ \A p \in freed : \A d \in Closers \ {c} : HoldsAt(d, s) => answer[p].at <= closer[d].cutoff
  <2>0. Holders(s) \ {c} = {d \in Closers \ {c} : HoldsAt(d, s)}
    BY DEF Holders, HoldsAt
  <2>1. /\ \A p \in Participants : answer[p].at \in Nat
        /\ \A d \in Closers : closer[d].cutoff \in Nat
    BY IngressAssumption DEF IngressTypes, AnswerRow, CloserRow, Times
  <2>2. ASSUME NEW p \in held
        PROVE  \E d \in Closers \ {c} : HoldsAt(d, s) /\ closer[d].cutoff < answer[p].at
    <3>1. PICK d \in Closers \ {c} : HoldsAt(d, s) /\ answer[p].at > closer[d].cutoff
      BY <2>0 DEF After, Cutoffs
    <3>2. p \in Participants
      BY <1>1, <1>7
    <3> QED
      BY <2>1, <3>1, <3>2
  <2>3. ASSUME NEW p \in freed, NEW d \in Closers \ {c}, HoldsAt(d, s)
        PROVE  answer[p].at <= closer[d].cutoff
    <3>1. p \in deferred[s] /\ p \notin held
      OBVIOUS
    <3>2. ~(answer[p].at > closer[d].cutoff)
      BY <2>0, <2>3, <3>1 DEF After, Cutoffs
    <3>3. p \in Participants
      BY <1>1, <3>1
    <3> HIDE DEF freed, held
    <3> QED
      BY <2>1, <3>2, <3>3
  <2> QED
    BY <2>2, <2>3
<1>9. /\ deferred' = [deferred EXCEPT ![s] = deferred[s] \ freed]
      /\ queue' = [queue EXCEPT ![s] = rest] \/ Process(s, rest, freed)
      /\ closer[c].holds \/ queue' = [queue EXCEPT ![s] = rest]
  BY <1>7 DEF Release, IngressTypes
<1>10. freed \subseteq deferred[s] /\ (closer[c].holds => freed = deferred[s] \ held)
       /\ (~closer[c].holds => freed = {})
  OBVIOUS
<1>11. closer[c].holds => Process(s, rest, freed)
  BY DEF Release
<1> HIDE DEF held, freed, rest
<1>12. /\ queue' \in [Servers -> Seq(Job)] /\ \A t \in Servers \ {s} : queue'[t] = queue[t]
       /\ Distinct(queue'[s]) /\ Held(queue'[s]) = Held(rest) \cup freed
       /\ Named(queue'[s]) = Named(rest)
  <2>1. CASE closer[c].holds
    <3>1. Held(rest) \cap freed = {} /\ freed \in SUBSET Participants
      BY <1>1, <1>2, <1>10 DEF PlaceFact
    <3> QED
      BY <1>2, <1>11, <2>1, <3>1, Processing
  <2>2. CASE ~closer[c].holds
    BY <1>2, <1>9, <1>10, <2>2 DEF IngressTypes
  <2> QED
    BY <2>1, <2>2
<1>13. /\ deferred' \in [Servers -> SUBSET Participants] /\ deferred'[s] = deferred[s] \ freed
       /\ \A t \in Servers \ {s} : deferred'[t] = deferred[t]
  BY <1>1, <1>9 DEF IngressTypes
<1>14. ASSUME NEW d \in Closers
       PROVE  CloserFact(d)' /\ FlushedFact(d)'
  <2>1. CASE d = c
    BY <1>4, <1>6, <2>1, IngressAssumption DEF CloserFact, FlushedFact, HostActions
  <2>2. CASE d # c
    BY <1>6, <2>2 DEF CloserFacts, CloserFact, FlushedFacts, FlushedFact
  <2> QED
    BY <2>1, <2>2
<1>15. ASSUME NEW t \in Servers
       PROVE  PlaceFact(t)' /\ BarrierFact(t)'
  <2>1. \A p \in Participants : ReadyAt(p, t) => ReadyAt(p, t)' /\ answer'[p].at = answer[p].at
    BY DEF ReadyAt
  <2>2. /\ \A d \in Closers \ {c} : /\ QueuedAt(d, t) => QueuedAt(d, t)'
                                    /\ HoldsAt(d, t) <=> HoldsAt(d, t)'
                                    /\ closer'[d] = closer[d]
        /\ ~HoldsAt(c, t)'
    BY <1>4, <1>6 DEF QueuedAt, HoldsAt
  <2>3. CASE t # s
    <3>1. ~QueuedAt(c, t) /\ ~HoldsAt(c, t)
      BY <1>3, <2>3 DEF QueuedAt, HoldsAt
    <3>2. /\ queue'[t] = queue[t] /\ batch'[t] = batch[t] /\ deferred'[t] = deferred[t]
          /\ closing'[t] = closing[t] /\ PlaceFact(t) /\ BarrierFact(t)
      BY <1>12, <1>13, <2>3 DEF PlaceFacts, BarrierFacts
    <3>3. \A d \in Closers : /\ QueuedAt(d, t) => QueuedAt(d, t)'
                             /\ HoldsAt(d, t) <=> HoldsAt(d, t)'
                             /\ HoldsAt(d, t) => closer'[d].cutoff = closer[d].cutoff
      BY <2>2, <3>1
    <3> QED
      BY <2>1, <3>2, <3>3, PlaceKept, BarrierKept
  <2>4. CASE t = s
    <3>1. \A p \in Held(queue'[s]) \cup batch'[s].items \cup deferred'[s] : ReadyAt(p, s)'
      BY <1>1, <1>2, <1>10, <1>12, <1>13, <2>1, <2>4 DEF PlaceFact
    <3>2. \A d \in Named(queue'[s]) : QueuedAt(d, s)'
      BY <1>1, <1>2, <1>12, <2>2, <2>4 DEF PlaceFact
    <3>3. PlaceFact(s)'
      BY <1>1, <1>2, <1>10, <1>12, <1>13, <3>1, <3>2 DEF PlaceFact
    <3>4. BarrierFact(s)'
      <4>1. ASSUME NEW p \in batch'[s].items, NEW d \in Closers, HoldsAt(d, s)'
            PROVE  answer'[p].at <= closer'[d].cutoff
        BY <1>1, <2>2, <2>4, <4>1 DEF BarrierFact
      <4>2. ASSUME NEW p \in deferred'[s]
            PROVE  \E d \in Closers : HoldsAt(d, s)' /\ closer'[d].cutoff < answer'[p].at
        <5>1. p \in deferred[s] /\ p \notin freed
          BY <1>13
        <5>2. CASE closer[c].holds
          <6>1. p \in held
            BY <1>10, <5>1, <5>2
          <6> QED
            BY <1>8, <2>2, <2>4, <6>1
        <5>3. CASE ~closer[c].holds
          <6>1. PICK d \in Closers : HoldsAt(d, s) /\ closer[d].cutoff < answer[p].at
            BY <1>1, <5>1 DEF BarrierFact
          <6>2. d # c
            BY <5>3, <6>1 DEF HoldsAt
          <6> QED
            BY <2>2, <2>4, <6>1, <6>2
        <5> QED
          BY <5>2, <5>3
      <4> QED
        BY <4>1, <4>2 DEF BarrierFact
    <3> QED
      BY <2>4, <3>3, <3>4
  <2> QED
    BY <2>3, <2>4
<1> QED
  BY <1>6, <1>12, <1>13, <1>14, <1>15 DEF PlaceFacts, BarrierFacts, CloserFacts, FlushedFacts

\* What a command makes of the room.
LEMMA CommandRow ==
  ASSUME IngressTypes, NEW c \in Closers
  PROVE  AfterCommand(c) \in RoomRow
<1>1. room \in RoomRow /\ closer[c].cutoff \in Nat /\ now \in Nat
  BY IngressAssumption DEF IngressTypes, CloserRow, Times
<1> DEFINE left == RemainingMs(closer[c].cutoff)
           until == now + room.remaining
           next == room.version + 1
<1>2. room.deadline - closer[c].cutoff \in Int /\ until \in Nat /\ next \in Nat
  BY <1>1 DEF RoomRow
<1>3. left \in Nat
  BY <1>2, MaxWithZero DEF RemainingMs
<1>4. AfterCommand(c) \in
        { [room EXCEPT !.phase = "paused", !.remaining = left, !.deadline = 0, !.version = next],
          [room EXCEPT !.phase = "open", !.deadline = until, !.remaining = 0, !.version = next],
          [room EXCEPT !.phase = "closed", !.deadline = 0, !.remaining = 0, !.version = next] }
  BY DEF AfterCommand
<1> HIDE DEF left, until, next
<1>5. [room EXCEPT !.phase = "paused", !.remaining = left, !.deadline = 0, !.version = next] \in RoomRow
  BY <1>1, <1>2, <1>3 DEF RoomRow
<1>6. [room EXCEPT !.phase = "open", !.deadline = until, !.remaining = 0, !.version = next] \in RoomRow
  BY <1>1, <1>2 DEF RoomRow
<1>7. [room EXCEPT !.phase = "closed", !.deadline = 0, !.remaining = 0, !.version = next] \in RoomRow
  BY <1>1, <1>2 DEF RoomRow
<1> QED
  BY <1>4, <1>5, <1>6, <1>7

\* The command's mutation, applied or not.
LEMMA RunCommandKeeps ==
  ASSUME IngressIInv, NEW s \in Servers, RunCommand(s)
  PROVE  IngressIInv'
<1> USE DEF IngressIInv
<1>1. PICK c : c = Head(queue[s]).by
  OBVIOUS
<1>2. c \in Closers
  BY <1>1, HeadLeaves, QueueHolds DEF RunCommand, IngressTypes, PlaceFacts, PlaceFact
<1>3. PICK next : next = IF ~closing[s] /\ Applies(c) THEN AfterCommand(c) ELSE room
  OBVIOUS
<1>4. next \in RoomRow
  BY <1>2, <1>3, CommandRow DEF IngressTypes
<1>5. /\ queue[s] # << >> /\ Head(queue[s]).kind = "command"
      /\ room' = next /\ timer' = Rescheduled(s, next) /\ owed' \subseteq owed
      /\ Release(c, s)
      /\ UNCHANGED << now, answer, batch, closing, loading, faults, loads >>
  BY <1>1, <1>3 DEF RunCommand
<1>6. /\ closer' \in [Closers -> CloserRow] /\ queue' \in [Servers -> Seq(Job)]
      /\ deferred' \in [Servers -> SUBSET Participants]
      /\ PlaceFacts' /\ CloserFacts' /\ FlushedFacts' /\ BarrierFacts'
  BY <1>1, <1>5, ReleaseKeeps
<1>7. timer' \in [Servers -> TimerRow \cup {Never}] /\ TimerFacts'
  BY <1>4, <1>5, RescheduledRow
<1>8. IngressTypes' /\ AnswerFacts'
  BY <1>4, <1>5, <1>6, <1>7 DEF IngressTypes, AnswerFacts, AnswerFact
<1> QED
  BY <1>6, <1>7, <1>8

\* A mutation that fails.
LEMMA FailJobKeeps ==
  ASSUME IngressIInv, NEW s \in Servers, FailJob(s)
  PROVE  IngressIInv'
<1> USE DEF IngressIInv
<1>1. /\ queue[s] # << >> /\ faults' = faults + 1
      /\ timer' = timer \/ timer' = Rescheduled(s, room)
      /\ UNCHANGED << now, room, batch, closing, loading, owed, loads >>
  BY DEF FailJob
<1>2. timer' \in [Servers -> TimerRow \cup {Never}] /\ TimerFacts'
  <2>1. CASE timer' = timer
    BY <2>1 DEF IngressTypes, TimerFacts
  <2>2. CASE timer' = Rescheduled(s, room)
    BY <2>2, RescheduledRow DEF IngressTypes
  <2> QED
    BY <1>1, <2>1, <2>2
<1>3. CASE Head(queue[s]).kind = "answers"
  <2> DEFINE items == Head(queue[s]).items
  <2>1. /\ answer' = Verdict(items, "error") /\ queue' = [queue EXCEPT ![s] = Tail(@)]
        /\ UNCHANGED << closer, deferred >>
    BY <1>3 DEF FailJob
  <2>2. items \subseteq Participants
    BY <1>1, HeadLeaves, QueueHolds DEF IngressTypes, PlaceFacts, PlaceFact
  <2>3. Outcome("error") \in AnswerRow
    BY OutcomeRow DEF Verdicts
  <2>4. /\ answer' \in [Participants -> AnswerRow]
        /\ \A p \in items : \E v \in Verdicts : answer'[p] = Outcome(v)
        /\ \A p \in Participants \ items : answer'[p] = answer[p]
    BY <2>1, <2>2, <2>3 DEF Verdict, Verdicts, IngressTypes
  <2>5. /\ queue' \in [Servers -> Seq(Job)]
        /\ AnswerFacts' /\ PlaceFacts' /\ CloserFacts' /\ FlushedFacts' /\ BarrierFacts'
    BY <1>1, <1>3, <2>1, <2>4, AnswersRun
  <2>6. IngressTypes'
    BY <1>1, <1>2, <2>1, <2>4, <2>5 DEF IngressTypes
  <2> QED
    BY <1>2, <2>5, <2>6
<1>4. CASE Head(queue[s]).kind = "command"
  <2>1. Release(Head(queue[s]).by, s) /\ UNCHANGED answer
    BY <1>4 DEF FailJob
  <2>2. /\ closer' \in [Closers -> CloserRow] /\ queue' \in [Servers -> Seq(Job)]
        /\ deferred' \in [Servers -> SUBSET Participants]
        /\ PlaceFacts' /\ CloserFacts' /\ FlushedFacts' /\ BarrierFacts'
    BY <1>1, <1>4, <2>1, ReleaseKeeps
  <2>3. IngressTypes' /\ AnswerFacts'
    BY <1>1, <1>2, <2>1, <2>2 DEF IngressTypes, AnswerFacts, AnswerFact
  <2> QED
    BY <1>2, <2>2, <2>3
<1> QED
  BY <1>3, <1>4 DEF FailJob

\* close: what is batched or deferred is rejected and every barrier dropped.
LEMMA CloseKeeps ==
  ASSUME IngressIInv, NEW s \in Servers, Close(s)
  PROVE  IngressIInv'
<1> USE DEF IngressIInv
<1> DEFINE gone == batch[s].items \cup deferred[s]
<1>1. /\ closing' = [closing EXCEPT ![s] = TRUE] /\ answer' = Verdict(gone, "error")
      /\ batch' = [batch EXCEPT ![s] = NoBatch] /\ deferred' = [deferred EXCEPT ![s] = {}]
      /\ timer' = [timer EXCEPT ![s] = Never] /\ faults' = faults + 1 /\ ~closing[s]
      /\ closer' = [c \in Closers |-> IF c \in Holders(s)
                                      THEN [closer[c] EXCEPT !.holds = FALSE] ELSE closer[c]]
      /\ UNCHANGED << now, room, queue, loading, owed, loads >>
  BY DEF Close
<1>2. Outcome("error") \in AnswerRow /\ "error" \in Verdicts
  BY OutcomeRow DEF Verdicts
<1>3. /\ answer' \in [Participants -> AnswerRow]
      /\ \A p \in Participants : answer'[p] = IF p \in gone THEN Outcome("error") ELSE answer[p]
  BY <1>1, <1>2 DEF Verdict, IngressTypes
<1>4. ASSUME NEW c \in Closers
      PROVE  /\ closer'[c] \in CloserRow /\ closer'[c].pc = closer[c].pc
             /\ closer'[c].server = closer[c].server /\ closer'[c].cutoff = closer[c].cutoff
             /\ closer'[c].action = closer[c].action
             /\ closer'[c].holds = (closer[c].holds /\ closer[c].server # s)
  <2>1. closer[c] \in CloserRow
    BY DEF IngressTypes
  <2>2. closer'[c] = IF c \in Holders(s) THEN [closer[c] EXCEPT !.holds = FALSE] ELSE closer[c]
    BY <1>1
  <2> QED
    BY <2>1, <2>2 DEF CloserRow, Holders
<1>5. /\ closing' \in [Servers -> BOOLEAN] /\ closing'[s]
      /\ \A t \in Servers \ {s} : closing'[t] = closing[t]
      /\ batch' \in [Servers -> BatchRow] /\ batch'[s].items = {} /\ deferred'[s] = {}
      /\ deferred' \in [Servers -> SUBSET Participants]
      /\ \A t \in Servers \ {s} : batch'[t] = batch[t] /\ deferred'[t] = deferred[t]
  BY <1>1 DEF IngressTypes, NoBatch, BatchRow
<1>6. closer' \in [Closers -> CloserRow]
  BY <1>1, <1>4
<1>7. IngressTypes' /\ TimerFacts'
  <2>1. timer' \in [Servers -> TimerRow \cup {Never}] /\ TimerFacts'
    BY <1>1 DEF IngressTypes, TimerFacts
  <2>2. faults' \in Nat
    BY <1>1 DEF IngressTypes
  <2> QED
    BY <1>1, <1>3, <1>5, <1>6, <2>1, <2>2 DEF IngressTypes
<1>8. AnswerFacts'
  BY <1>2, <1>3, OutcomeRow DEF AnswerFacts, AnswerFact
<1>9. ASSUME NEW d \in Closers
      PROVE  CloserFact(d)' /\ FlushedFact(d)'
  <2>1. \A t \in Servers : closing[t] => closing'[t]
    BY <1>5
  <2>2. CloserFact(d)'
    <3>1. CloserFact(d) /\ now' = now
      BY <1>1 DEF CloserFacts
    <3>2. closer[d].holds => closer'[d].holds \/ closing'[closer[d].server]
      BY <1>4, <1>5
    <3>3. closer'[d].holds => closer[d].holds
      BY <1>4
    <3> QED
      BY <1>4, <2>1, <3>1, <3>2, <3>3 DEF CloserFact
  <2>3. \A p \in Participants : answer'[p].server # Nobody => answer'[p] = answer[p]
    BY <1>2, <1>3, OutcomeRow
  <2>4. FlushedFact(d)'
    BY <1>4, <1>5, <2>3, IngressAssumption DEF FlushedFacts, FlushedFact, CloserFacts, CloserFact
  <2> QED
    BY <2>2, <2>4
<1>10. ASSUME NEW t \in Servers
       PROVE  PlaceFact(t)' /\ BarrierFact(t)'
  <2>1. gone \subseteq Participants /\ \A p \in gone : ReadyAt(p, s)
    BY DEF PlaceFacts, PlaceFact, IngressTypes, BatchRow
  <2>2. \A c \in Closers : QueuedAt(c, t) => QueuedAt(c, t)'
    BY <1>4, <1>5 DEF QueuedAt
  <2>3. \A p \in Participants \ gone : ReadyAt(p, t) => ReadyAt(p, t)' /\ answer'[p].at = answer[p].at
    BY <1>3 DEF ReadyAt
  <2>4. CASE t # s
    <3>1. \A p \in Participants : ReadyAt(p, t) => p \notin gone
      BY <2>1, <2>4 DEF ReadyAt
    <3>2. \A c \in Closers : /\ HoldsAt(c, t) <=> HoldsAt(c, t)'
                             /\ closer'[c].cutoff = closer[c].cutoff
      BY <1>4, <2>4 DEF HoldsAt
    <3> QED
      BY <1>1, <1>5, <2>2, <2>3, <2>4, <3>1, <3>2, PlaceKept, BarrierKept
         DEF PlaceFacts, BarrierFacts
  <2>5. CASE t = s
    <3>1. /\ PlaceFact(s) /\ Held(queue[s]) \subseteq Participants
          /\ Named(queue[s]) \subseteq Closers
      BY QueueHolds DEF IngressTypes, PlaceFacts
    <3>2. \A p \in Held(queue[s]) : ReadyAt(p, s)'
      BY <2>3, <2>5, <3>1 DEF PlaceFact
    <3>3. PlaceFact(s)'
      BY <1>1, <1>5, <2>2, <2>5, <3>1, <3>2 DEF PlaceFact
    <3>4. BarrierFact(s)'
      BY <1>5 DEF BarrierFact
    <3> QED
      BY <2>5, <3>3, <3>4
  <2> QED
    BY <2>4, <2>5
<1> QED
  BY <1>7, <1>8, <1>9, <1>10 DEF PlaceFacts, BarrierFacts, CloserFacts, FlushedFacts

-----------------------------------------------------------------------------
(* An answer takes its place *)

\* The batch an answer joins.
LEMMA JoinedRow ==
  ASSUME IngressTypes, NEW p \in Participants, NEW s \in Servers
  PROVE  Joined(p, s) \in BatchRow /\ Joined(p, s).items = batch[s].items \cup {p}
<1>1. now \in Nat /\ MaxBatchWait \in Nat /\ BatchWindow \in Nat /\ MaxTime \in Nat
  BY IngressAssumption DEF IngressTypes, Times
<1>2. Awaiting \subseteq Participants \cup {Nobody}
  BY DEF Awaiting
<1>3. PICK force \in Nat, awaiting \in SUBSET (Participants \cup {Nobody}) :
        force = now + MaxBatchWait /\ awaiting = Awaiting
  BY <1>1, <1>2
<1> DEFINE first == [NoBatch EXCEPT !.force = force, !.awaiting = awaiting]
           b == IF batch[s] = NoBatch THEN first ELSE batch[s]
<1>4. first \in BatchRow /\ first.items = {}
  BY DEF NoBatch, BatchRow
<1>5. batch[s] \in BatchRow /\ NoBatch.items = {}
  BY DEF IngressTypes, NoBatch
<1> HIDE DEF first
<1>6. b \in BatchRow /\ b.items = batch[s].items
  BY <1>4, <1>5
<1>7. Joined(p, s) = [items |-> b.items \cup {p}, due |-> QuietUntil(b.force),
                      force |-> b.force, awaiting |-> b.awaiting \ {p}]
  BY <1>3 DEF Joined, first
<1> HIDE DEF b
<1>8. QuietUntil(b.force) \in Nat
  BY <1>1, <1>6, LeastOfThree DEF QuietUntil, BatchRow
<1> QED
  BY <1>6, <1>7, <1>8 DEF BatchRow

\* An answer that has been looked up takes its place: behind a barrier, in the
\* batch, or with a complete batch in the queue.
LEMMA ResolveKeeps ==
  ASSUME IngressIInv, NEW p \in Participants, Resolve(p)
  PROVE  IngressIInv'
<1> USE DEF IngressIInv
<1>1. PICK s \in Servers : answer[p].server = s
  BY DEF Resolve, AnswerFacts, AnswerFact, IngressTypes, AnswerRow
<1>2. /\ answer[p].stage = "resolving"
      /\ UNCHANGED << now, room, closer, timer, closing, loading, owed, faults, loads >>
  BY DEF Resolve
<1>3. TimerFacts'
  BY <1>2 DEF TimerFacts
<1>4. CASE closing[s]
  <2>1. answer' = [answer EXCEPT ![p] = Outcome("error")] /\ UNCHANGED << batch, deferred, queue >>
    BY <1>1, <1>4 DEF Resolve
  <2>2. Outcome("error") \in AnswerRow /\ "error" \in Verdicts
    BY OutcomeRow DEF Verdicts
  <2>3. /\ answer' \in [Participants -> AnswerRow] /\ answer'[p] = Outcome("error")
        /\ \A q \in Participants \ {p} : answer'[q] = answer[q]
    BY <2>1, <2>2 DEF IngressTypes
  <2>4. IngressTypes'
    BY <1>2, <2>1, <2>3 DEF IngressTypes
  <2>5. AnswerFacts' /\ CloserFacts' /\ FlushedFacts'
    BY <1>2, <2>2, <2>3, AnswersEnd
  <2>6. ASSUME NEW t \in Servers
        PROVE  PlaceFact(t)' /\ BarrierFact(t)'
    <3>1. \A q \in Participants : ReadyAt(q, t) => ReadyAt(q, t)' /\ answer'[q].at = answer[q].at
      BY <1>2, <2>3 DEF ReadyAt
    <3>2. \A c \in Closers : /\ QueuedAt(c, t) <=> QueuedAt(c, t)'
                             /\ HoldsAt(c, t) <=> HoldsAt(c, t)'
      BY <1>2 DEF QueuedAt, HoldsAt
    <3> QED
      BY <1>2, <2>1, <3>1, <3>2, PlaceKept, BarrierKept DEF PlaceFacts, BarrierFacts
  <2> QED
    BY <1>3, <2>4, <2>5, <2>6 DEF PlaceFacts, BarrierFacts
<1>5. CASE ~closing[s]
  <2> DEFINE b == Joined(p, s)
             full == Complete(b)
  <2>1. /\ answer' = [answer EXCEPT ![p] = [answer[p] EXCEPT !.stage = "ready"]]
        /\ HeldBack(p, s) =>
             deferred' = [deferred EXCEPT ![s] = deferred[s] \cup {p}] /\ UNCHANGED << batch, queue >>
        /\ ~HeldBack(p, s) =>
             /\ deferred' = deferred
             /\ batch' = [batch EXCEPT ![s] = IF full THEN NoBatch ELSE b]
             /\ IF full THEN Process(s, queue[s], b.items) ELSE UNCHANGED queue
    BY <1>1, <1>5 DEF Resolve, IngressTypes
  <2>2. [answer[p] EXCEPT !.stage = "ready"] \in AnswerRow
    <3>1. answer[p] \in AnswerRow
      BY DEF IngressTypes
    <3> QED
      BY <3>1 DEF AnswerRow, Stages
  <2>3. /\ answer' \in [Participants -> AnswerRow] /\ ReadyAt(p, s)' /\ answer'[p].at = answer[p].at
        /\ answer'[p].server = answer[p].server /\ answer'[p].stage = "ready"
        /\ \A q \in Participants \ {p} : answer'[q] = answer[q]
    <3>1. answer[p] \in AnswerRow
      BY DEF IngressTypes
    <3> QED
      BY <1>1, <2>1, <2>2, <3>1 DEF IngressTypes, AnswerRow, ReadyAt
  <2>4. AnswerFacts' /\ CloserFacts'
    BY <1>1, <1>2, <2>3, IngressAssumption DEF AnswerFacts, AnswerFact, CloserFacts, CloserFact
  <2>5. FlushedFacts'
    BY <1>2, <2>3 DEF FlushedFacts, FlushedFact
  <2>6. \A t \in Servers : \A q \in Participants : ReadyAt(q, t) =>
           q # p /\ ReadyAt(q, t)' /\ answer'[q].at = answer[q].at
    BY <1>2, <2>3 DEF ReadyAt
  <2>7. \A t \in Servers : \A c \in Closers : /\ QueuedAt(c, t) <=> QueuedAt(c, t)'
                                              /\ HoldsAt(c, t) <=> HoldsAt(c, t)'
    BY <1>2 DEF QueuedAt, HoldsAt
  <2>8. /\ queue[s] \in Seq(Job) /\ PlaceFact(s) /\ BarrierFact(s) /\ Distinct(queue[s])
        /\ Held(queue[s]) \subseteq Participants /\ Named(queue[s]) \subseteq Closers
        /\ batch[s].items \subseteq Participants /\ deferred[s] \subseteq Participants
        /\ p \notin Held(queue[s]) /\ p \notin batch[s].items /\ p \notin deferred[s]
    BY <1>2, QueueHolds
       DEF IngressTypes, BatchRow, PlaceFacts, PlaceFact, BarrierFacts, ReadyAt
  <2>9. b \in BatchRow /\ b.items = batch[s].items \cup {p} /\ NoBatch \in BatchRow /\ NoBatch.items = {}
    BY JoinedRow DEF NoBatch, BatchRow
  <2> HIDE DEF b, full
  <2>10. /\ batch' \in [Servers -> BatchRow] /\ deferred' \in [Servers -> SUBSET Participants]
         /\ \A t \in Servers \ {s} : batch'[t] = batch[t] /\ deferred'[t] = deferred[t]
         /\ deferred'[s] = IF HeldBack(p, s) THEN deferred[s] \cup {p} ELSE deferred[s]
         /\ batch'[s].items = IF HeldBack(p, s) THEN batch[s].items
                              ELSE IF full THEN {} ELSE batch[s].items \cup {p}
    <3>1. CASE HeldBack(p, s)
      <4>1. deferred' = [deferred EXCEPT ![s] = deferred[s] \cup {p}] /\ batch' = batch
        BY <2>1, <3>1
      <4> QED
        BY <2>8, <3>1, <4>1 DEF IngressTypes
    <3>2. CASE ~HeldBack(p, s)
      <4> DEFINE kept == IF full THEN NoBatch ELSE b
      <4>1. kept \in BatchRow /\ kept.items = IF full THEN {} ELSE batch[s].items \cup {p}
        BY <2>9
      <4>2. deferred' = deferred /\ batch' = [batch EXCEPT ![s] = kept]
        BY <2>1, <3>2
      <4> HIDE DEF kept
      <4> QED
        BY <3>2, <4>1, <4>2 DEF IngressTypes
    <3> QED
      BY <3>1, <3>2
  <2>11. /\ queue' \in [Servers -> Seq(Job)] /\ \A t \in Servers \ {s} : queue'[t] = queue[t]
         /\ Distinct(queue'[s]) /\ Named(queue'[s]) = Named(queue[s])
         /\ Held(queue'[s]) = IF full /\ ~HeldBack(p, s) THEN Held(queue[s]) \cup batch[s].items \cup {p}
                              ELSE Held(queue[s])
    <3>1. CASE full /\ ~HeldBack(p, s)
      <4>1. Held(queue[s]) \cap b.items = {} /\ b.items \in SUBSET Participants
        BY <2>8, <2>9 DEF PlaceFact
      <4>2. Process(s, queue[s], b.items)
        BY <2>1, <3>1
      <4>3. /\ queue' \in [Servers -> Seq(Job)] /\ \A t \in Servers \ {s} : queue'[t] = queue[t]
            /\ Distinct(queue'[s]) /\ Named(queue'[s]) = Named(queue[s])
            /\ Held(queue'[s]) = Held(queue[s]) \cup b.items
        BY <2>8, <4>1, <4>2, Processing
      <4> QED
        BY <2>9, <3>1, <4>3
    <3>2. CASE ~(full /\ ~HeldBack(p, s))
      <4>1. queue' = queue
        BY <2>1, <3>2
      <4> QED
        BY <2>8, <3>2, <4>1 DEF IngressTypes
    <3> QED
      BY <3>1, <3>2
  <2>12. IngressTypes'
    BY <1>2, <2>3, <2>10, <2>11 DEF IngressTypes
  <2>13. ASSUME NEW t \in Servers
         PROVE  PlaceFact(t)' /\ BarrierFact(t)'
    <3>1. CASE t # s
      BY <1>2, <2>6, <2>7, <2>10, <2>11, <3>1, PlaceKept, BarrierKept
         DEF PlaceFacts, BarrierFacts
    <3>2. CASE t = s
      <4>1. Held(queue'[s]) \cup batch'[s].items \cup deferred'[s] =
              Held(queue[s]) \cup batch[s].items \cup deferred[s] \cup {p}
        BY <2>10, <2>11
      <4>2. \A q \in Held(queue'[s]) \cup batch'[s].items \cup deferred'[s] : ReadyAt(q, s)'
        BY <2>3, <2>6, <2>8, <4>1 DEF PlaceFact
      <4>3. \A c \in Named(queue'[s]) : QueuedAt(c, s)'
        BY <2>7, <2>8, <2>11 DEF PlaceFact
      <4>4. /\ batch'[s].items \cap deferred'[s] = {}
            /\ Held(queue'[s]) \cap (batch'[s].items \cup deferred'[s]) = {}
        BY <2>8, <2>10, <2>11 DEF PlaceFact
      <4>5. PlaceFact(s)'
        BY <1>2, <1>5, <2>11, <4>2, <4>3, <4>4 DEF PlaceFact
      <4>6. /\ \A q \in Participants : answer'[q].at = answer[q].at /\ answer[q].at \in Nat
            /\ \A c \in Closers : closer'[c] = closer[c] /\ closer[c].cutoff \in Nat
        <5>1. /\ \A q \in Participants : answer[q].at \in Nat
              /\ \A c \in Closers : closer[c].cutoff \in Nat
          BY IngressAssumption DEF IngressTypes, AnswerRow, CloserRow, Times
        <5> QED
          BY <1>2, <2>3, <5>1
      <4>7. HeldBack(p, s) <=> \E c \in Closers : HoldsAt(c, s) /\ answer[p].at > closer[c].cutoff
        BY DEF HeldBack, After, Cutoffs, Holders, HoldsAt
      <4>8. BarrierFact(s)'
        <5>1. ASSUME NEW q \in batch'[s].items, NEW c \in Closers, HoldsAt(c, s)'
              PROVE  answer'[q].at <= closer'[c].cutoff
          <6>1. HoldsAt(c, s) /\ q \in Participants
            BY <2>7, <2>8, <2>10, <5>1
          <6>2. CASE q = p
            <7>1. ~HeldBack(p, s)
              BY <2>8, <2>10, <6>2
            <7> QED
              BY <4>6, <4>7, <6>1, <6>2, <7>1
          <6>3. CASE q # p
            <7>1. q \in batch[s].items
              BY <2>10, <6>3
            <7> QED
              BY <2>8, <4>6, <6>1, <7>1 DEF BarrierFact
          <6> QED
            BY <6>2, <6>3
        <5>2. ASSUME NEW q \in deferred'[s]
              PROVE  \E c \in Closers : HoldsAt(c, s)' /\ closer'[c].cutoff < answer'[q].at
          <6>1. CASE q = p
            <7>1. HeldBack(p, s)
              BY <2>8, <2>10, <6>1
            <7>2. PICK c \in Closers : HoldsAt(c, s) /\ answer[p].at > closer[c].cutoff
              BY <4>7, <7>1
            <7> QED
              BY <2>7, <4>6, <6>1, <7>2
          <6>2. CASE q # p
            <7>1. q \in deferred[s] /\ q \in Participants
              BY <2>8, <2>10, <6>2
            <7>2. PICK c \in Closers : HoldsAt(c, s) /\ closer[c].cutoff < answer[q].at
              BY <2>8, <7>1 DEF BarrierFact
            <7> QED
              BY <2>7, <4>6, <7>1, <7>2
          <6> QED
            BY <6>1, <6>2
        <5> QED
          BY <5>1, <5>2 DEF BarrierFact
      <4> QED
        BY <3>2, <4>5, <4>8
    <3> QED
      BY <3>1, <3>2
  <2> QED
    BY <1>3, <2>4, <2>5, <2>12, <2>13 DEF PlaceFacts, BarrierFacts
<1> QED
  BY <1>4, <1>5

-----------------------------------------------------------------------------
(* The invariant holds *)

\* Nothing is under way at first.
LEMMA IngressInit == Init => IngressIInv
<1> SUFFICES ASSUME Init
             PROVE  IngressIInv
  OBVIOUS
<1>1. /\ {LockDelay, FirstDeadline, MaxTime} \subseteq Nat /\ LockDelay # 0
      /\ FirstDeadline < FirstDeadline + LockDelay /\ FirstDeadline + LockDelay \in Nat /\ 0 \in Times
  BY IngressAssumption DEF Times
<1>2. Idle \in CloserRow /\ Idle.pc = "idle" /\ ~Idle.holds /\ Idle.action = "lock"
  BY DEF Idle, CloserRow, HostActions
<1>3. NoBatch \in BatchRow /\ NoBatch.items = {}
  BY DEF NoBatch, BatchRow
<1>4. << >> \in Seq(Job) /\ Held(<< >>) = {} /\ Named(<< >>) = {} /\ Distinct(<< >>)
  BY EmptySeq DEF Held, Named, Distinct
<1>5. Outcome("unsent") \in AnswerRow /\ Outcome("unsent").server = Nobody
      /\ Outcome("unsent").stage = "unsent"
  BY <1>1 DEF Outcome, AnswerRow, Stages
<1>6. /\ \A p \in Participants : answer[p] = Outcome("unsent")
      /\ \A c \in Closers : closer[c] = Idle
      /\ \A s \in Servers : /\ batch[s] = NoBatch /\ deferred[s] = {} /\ queue[s] = << >>
                            /\ timer[s] = [deadline |-> FirstDeadline, due |-> FirstDeadline + LockDelay]
                            /\ closing[s] = FALSE /\ loading[s] = Never
  BY DEF Init
<1>7. IngressTypes
  <2>1. /\ answer \in [Participants -> AnswerRow] /\ closer \in [Closers -> CloserRow]
        /\ batch \in [Servers -> BatchRow] /\ deferred \in [Servers -> SUBSET Participants]
        /\ queue \in [Servers -> Seq(Job)]
    BY <1>2, <1>3, <1>4, <1>5 DEF Init
  <2>2. timer \in [Servers -> TimerRow \cup {Never}]
    BY <1>1 DEF Init, TimerRow
  <2>3. /\ room \in RoomRow /\ loading \in [Servers -> RoomRow \cup {Never}]
        /\ closing \in [Servers -> BOOLEAN] /\ now \in Times
        /\ owed \subseteq Participants /\ faults \in Nat /\ loads \in Nat
    BY <1>1 DEF Init, RoomRow
  <2> QED
    BY <2>1, <2>2, <2>3 DEF IngressTypes
<1>8. AnswerFacts
  BY <1>5, <1>6 DEF AnswerFacts, AnswerFact
<1>9. PlaceFacts /\ BarrierFacts
  BY <1>3, <1>4, <1>6 DEF PlaceFacts, PlaceFact, BarrierFacts, BarrierFact
<1>10. TimerFacts
  BY <1>1, <1>6 DEF TimerFacts
<1>11. CloserFacts /\ FlushedFacts
  <2> SUFFICES ASSUME NEW c \in Closers
               PROVE  CloserFact(c) /\ FlushedFact(c)
    BY DEF CloserFacts, FlushedFacts
  <2>1. closer[c].pc = "idle" /\ ~closer[c].holds /\ closer[c].action \in HostActions
    BY <1>2, <1>6 DEF HostActions
  <2> QED
    BY <2>1 DEF CloserFact, FlushedFact
<1> QED
  BY <1>7, <1>8, <1>9, <1>10, <1>11 DEF IngressIInv

\* Every step keeps the inductive invariant.
LEMMA IngressStep == IngressIInv /\ Next => IngressIInv'
<1> SUFFICES ASSUME IngressIInv, Next
             PROVE  IngressIInv'
  OBVIOUS
<1>1. CASE \E p \in Participants : \/ \E s \in Servers : Receive(p, s)
                                   \/ Resolve(p) \/ LookupFails(p)
  BY <1>1, ReceiveKeeps, ResolveKeeps, LookupFailsKeeps
<1>2. CASE \E c \in Closers, s \in Servers, action \in HostActions, ahead \in 0..MaxAhead :
             SendCommand(c, s, action, room.version + ahead)
  <2>1. PICK c \in Closers, s \in Servers, action \in HostActions, ahead \in 0..MaxAhead :
               SendCommand(c, s, action, room.version + ahead)
    BY <1>2
  <2>2. room.version + ahead \in Nat
    BY IngressAssumption DEF IngressIInv, IngressTypes, RoomRow
  <2> QED
    BY <2>1, <2>2, SendCommandKeeps
<1>3. CASE \E c \in Closers : \/ \E s \in Servers : FireTimer(c, s)
                              \/ Authenticate(c) \/ Unauthorized(c) \/ CutBatch(c) \/ Flushed(c)
  BY <1>3, FireTimerKeeps, AuthenticateKeeps, UnauthorizedKeeps, CutBatchKeeps, FlushedKeeps
<1>4. CASE \E s \in Servers : \/ DispatchBatch(s) \/ RunAnswers(s) \/ RunCommand(s)
                              \/ FailJob(s) \/ BeginLoad(s) \/ EndLoad(s) \/ Close(s)
  BY <1>4, DispatchBatchKeeps, RunAnswersKeeps, RunCommandKeeps, FailJobKeeps,
     BeginLoadKeeps, EndLoadKeeps, CloseKeeps
<1>5. CASE Tick
  BY <1>5, TickKeeps
<1> QED
  BY <1>1, <1>2, <1>3, <1>4, <1>5 DEF Next

\* So does a step that changes nothing.
LEMMA IngressStutter == IngressIInv /\ UNCHANGED vars => IngressIInv'
<1> SUFFICES ASSUME IngressIInv, UNCHANGED vars
             PROVE  IngressIInv'
  OBVIOUS
<1>1. UNCHANGED << now, room, answer, closer, batch, deferred, queue, timer, closing, loading,
                   owed, faults, loads >>
  BY DEF vars
<1>2. IngressTypes' /\ TimerFacts'
  BY <1>1 DEF IngressIInv, IngressTypes, TimerFacts
<1>3. now <= now' /\ now' \in Times
  BY <1>1, IngressAssumption DEF IngressIInv, IngressTypes, Times
<1> QED
  BY <1>1, <1>2, <1>3, Elsewhere DEF IngressIInv

\* The inductive invariant implies the one the runs check.
LEMMA IngressIsEnough == IngressIInv => IngressInv
<1> SUFFICES ASSUME IngressIInv
             PROVE  IngressInv
  OBVIOUS
<1> USE DEF IngressIInv
<1>1. TypeOK
  BY DEF TypeOK, IngressTypes, RoomRow, AnswerRow, CloserRow, PlaceFacts, PlaceFact, ReadyAt
<1>2. /\ \A p \in Participants : answer[p].at \in Nat
      /\ \A c \in Closers : closer[c].cutoff \in Nat
      /\ \A s \in Servers : batch[s].items \subseteq Participants /\ deferred[s] \subseteq Participants
  BY IngressAssumption DEF IngressTypes, AnswerRow, CloserRow, BatchRow, Times
<1>3. BarrierSplits
  <2> SUFFICES ASSUME NEW s \in Servers
               PROVE  /\ After(batch[s].items, Cutoffs(Holders(s))) = {}
                      /\ After(deferred[s], Cutoffs(Holders(s))) = deferred[s]
    BY DEF BarrierSplits
  <2>1. \A t : t \in Cutoffs(Holders(s)) <=> \E c \in Closers : HoldsAt(c, s) /\ t = closer[c].cutoff
    BY DEF Cutoffs, Holders, HoldsAt
  <2>2. ASSUME NEW p \in batch[s].items, NEW t \in Cutoffs(Holders(s)), answer[p].at > t
        PROVE  FALSE
    <3>1. PICK c \in Closers : HoldsAt(c, s) /\ t = closer[c].cutoff
      BY <2>1
    <3>2. answer[p].at <= closer[c].cutoff
      BY <3>1 DEF BarrierFacts, BarrierFact
    <3> QED
      BY <1>2, <2>2, <3>1, <3>2
  <2>3. ASSUME NEW p \in deferred[s]
        PROVE  \E t \in Cutoffs(Holders(s)) : answer[p].at > t
    <3>1. PICK c \in Closers : HoldsAt(c, s) /\ closer[c].cutoff < answer[p].at
      BY DEF BarrierFacts, BarrierFact
    <3> QED
      BY <1>2, <2>1, <3>1
  <2> QED
    BY <2>2, <2>3 DEF After
<1>4. FlushedBeforeClose
  <2> SUFFICES ASSUME NEW c \in Closers, closer[c].pc = "queued", closer[c].holds,
                      NEW p \in Participants, answer[p].server = closer[c].server,
                      ~closing[closer[c].server], answer[p].at < closer[c].cutoff
               PROVE  FALSE
    BY DEF FlushedBeforeClose
  <2>1. closer[c].cutoff <= answer[p].at
    BY DEF FlushedFacts, FlushedFact
  <2> QED
    BY <1>2, <2>1
<1> QED
  BY <1>1, <1>3, <1>4 DEF IngressInv

\* In every state a batch holds nothing a barrier holds back, what is deferred has
\* a closer that will release it, and a command that closes the question joins the
\* mutation queue when every answer received before its cutoff is settled
\* (registerAnswerIngressBarrier, flushAnswersReceivedBy): for any number of
\* servers, answers and commands, through failures, stray loads and shutdowns.
THEOREM IngressIsSafe == Spec => []IngressInv
<1>1. Spec => []IngressIInv
  BY IngressInit, IngressStep, IngressStutter, PTL DEF Spec
<1> QED
  BY <1>1, IngressIsEnough, PTL

-----------------------------------------------------------------------------

\* An answer that is owed, when the room and what is closing stay as they are.
LEMMA OwedKept ==
  ASSUME IngressTypes, OwedFacts, owed' \subseteq owed, room'.phase = room.phase,
         room'.deadline = room.deadline,
         \A s \in Servers : closing[s] => closing'[s],
         \A p \in Participants :
            \/ answer'[p] = answer[p]
            \/ answer'[p].server = Nobody /\ answer'[p].stage \in {"accepted", "error"}
            \/ /\ answer'[p].server = answer[p].server /\ answer'[p].at = answer[p].at
               /\ answer'[p].stage = "ready"
  PROVE  OwedFacts'
<1> SUFFICES ASSUME NEW p \in owed'
             PROVE  OwedFact(p)'
  BY DEF OwedFacts
<1>1. p \in Participants /\ OwedFact(p) /\ answer[p].server \in Servers \cup {Nobody}
  BY DEF IngressTypes, AnswerRow, OwedFacts
<1> QED
  BY <1>1 DEF OwedFact

\* Answers are run while the room is open and within the deadline, those that
\* are owed at least.
LEMMA AnswersOwed ==
  ASSUME IngressIInv, OwedFacts, NEW s \in Servers, RunAnswers(s)
  PROVE  OwedFacts'
<1> DEFINE items == Head(queue[s]).items
           verdict(p) == IF closing[s] THEN "error" ELSE VerdictAt(p)
<1>1. /\ queue[s] # << >> /\ UNCHANGED << owed, closing >>
      /\ room'.phase = room.phase /\ room'.deadline = room.deadline
      /\ \A p \in Participants :
           answer'[p] = IF p \in items THEN Outcome(verdict(p)) ELSE answer[p]
  BY DEF RunAnswers, IngressIInv, IngressTypes, RoomRow
<1>2. \A p \in items : ReadyAt(p, s)
  BY <1>1, HeadLeaves DEF IngressIInv, IngressTypes, PlaceFacts, PlaceFact
<1> HIDE DEF items
<1> SUFFICES ASSUME NEW p \in owed'
             PROVE  OwedFact(p)'
  BY DEF OwedFacts
<1>3. p \in Participants /\ OwedFact(p) /\ p \in owed
  BY <1>1 DEF IngressIInv, IngressTypes, OwedFacts
<1>4. CASE p \notin items
  BY <1>1, <1>3, <1>4 DEF OwedFact
<1>5. CASE p \in items
  <2>1. answer[p].server = s /\ s # Nobody
    BY <1>2, <1>5, IngressAssumption DEF ReadyAt
  <2>2. ~closing[s] => room.phase = "open" /\ answer[p].at <= room.deadline
    BY <1>3, <2>1 DEF OwedFact
  <2>3. answer[p].at \in Nat /\ room.deadline \in Nat
    BY <1>3, IngressAssumption DEF IngressIInv, IngressTypes, AnswerRow, RoomRow, Times
  <2>4. verdict(p) \in {"accepted", "error"}
    BY <2>2, <2>3 DEF VerdictAt
  <2>5. answer'[p].server = Nobody /\ answer'[p].stage \in {"accepted", "error"}
    <3>1. answer'[p] = Outcome(verdict(p))
      BY <1>1, <1>3, <1>5
    <3> HIDE DEF verdict
    <3> QED
      BY <2>4, <3>1 DEF Outcome
  <2> QED
    BY <2>5 DEF OwedFact
<1> QED
  BY <1>4, <1>5

\* A command that closes the question has cut off what is still under way.
LEMMA CommandOwes ==
  ASSUME IngressIInv, OwedFacts, \A s, q \in Servers : s = q, NEW s \in Servers, RunCommand(s)
  PROVE  OwedFacts'
<1> DEFINE c == Head(queue[s]).by
           applies == ~closing[s] /\ Applies(c)
<1>1. /\ room' = IF applies THEN AfterCommand(c) ELSE room
      /\ owed' = IF applies THEN owed \ CutOff(c) ELSE owed
      /\ UNCHANGED << answer, closing >>
  BY DEF RunCommand
<1>2. c \in Closers /\ QueuedAt(c, s)
  <2>1. /\ queue[s] \in Seq(Job) /\ queue[s] # << >> /\ Distinct(queue[s])
        /\ Head(queue[s]).kind = "command" /\ PlaceFact(s)
    BY DEF RunCommand, IngressIInv, IngressTypes, PlaceFacts, PlaceFact
  <2> QED
    BY <2>1, HeadLeaves, QueueHolds DEF PlaceFact
<1> SUFFICES ASSUME NEW p \in owed'
             PROVE  OwedFact(p)'
  BY DEF OwedFacts
<1>3. p \in owed /\ p \in Participants /\ OwedFact(p)
  BY <1>1 DEF IngressIInv, IngressTypes, OwedFacts
<1>4. CASE ~applies
  BY <1>1, <1>3, <1>4 DEF OwedFact
<1>5. CASE applies
  <2> SUFFICES ASSUME answer[p].server # Nobody, ~closing[answer[p].server]
               PROVE  FALSE
    BY <1>1, <1>3 DEF OwedFact
  <2>1. answer[p].server = s
    BY <1>3 DEF IngressIInv, IngressTypes, AnswerRow
  <2>2. room.phase = "open" /\ p \notin CutOff(c)
    BY <1>1, <1>3, <1>5 DEF OwedFact
  <2>3. closer[c].action # "resume"
    <3>1. CASE c \in AutoLocks
      BY <1>2, <3>1 DEF IngressIInv, CloserFacts, CloserFact, QueuedAt
    <3>2. CASE c \notin AutoLocks
      <4>1. room.phase \in StartsIn(closer[c].action)
        BY <1>5, <3>2 DEF Applies
      <4> HIDE DEF c
      <4> QED
        BY <2>2, <4>1 DEF StartsIn
    <3> QED
      BY <3>1, <3>2
  <2>4. closer[c].pc = "queued" /\ closer[c].holds /\ closer[c].server = s /\ ~closing[s]
    BY <1>2, <1>5, <2>3 DEF QueuedAt
  <2>5. /\ closer[c].cutoff <= answer[p].at
        /\ c \in AutoLocks => closer[c].cutoff < answer[p].at
    BY <1>2, <1>3, <2>1, <2>4 DEF IngressIInv, FlushedFacts, FlushedFact
  <2>6. c \notin AutoLocks => ClosesIngress(closer[c].action)
    BY <1>2, <2>3 DEF IngressIInv, CloserFacts, CloserFact, Closers, HostActions, ClosesIngress
  <2>7. closer[c].cutoff \in Nat /\ answer[p].at \in Nat
    BY SMTT(30), <1>2, <1>3, IngressAssumption
       DEF IngressIInv, IngressTypes, CloserRow, AnswerRow, Times
  <2> QED
    BY <1>3, <2>2, <2>5, <2>6, <2>7 DEF CutOff
<1> QED
  BY <1>4, <1>5

\* Every step of a single server keeps its promise to the answers that are owed.
LEMMA OwedStep ==
  ASSUME IngressIInv, OwedFacts, \A s, q \in Servers : s = q, Next
  PROVE  OwedFacts'
<1>1. IngressTypes
  BY DEF IngressIInv
<1>2. ASSUME NEW p \in Participants, NEW s \in Servers, Receive(p, s)
      PROVE  OwedFacts'
  <2>1. /\ answer' = [answer EXCEPT ![p] = [stage |-> "resolving", server |-> s, at |-> now]]
        /\ owed' = IF room.phase = "open" /\ now <= room.deadline THEN owed \cup {p} ELSE owed
        /\ answer[p].stage = "unsent" /\ UNCHANGED << room, closing >>
    BY <1>2 DEF Receive
  <2>2. p \notin owed
    BY <2>1 DEF OwedFacts, OwedFact
  <2> SUFFICES ASSUME NEW q \in owed'
               PROVE  OwedFact(q)'
    BY DEF OwedFacts
  <2> QED
    BY <1>1, <2>1, <2>2 DEF IngressTypes, OwedFacts, OwedFact
<1>3. ASSUME NEW p \in Participants, Resolve(p) \/ LookupFails(p)
      PROVE  OwedFacts'
  <2>1. UNCHANGED << owed, room, closing >>
    BY <1>3 DEF Resolve, LookupFails
  <2>2. answer' = [answer EXCEPT ![p] = Outcome("error")] \/ answer' = [answer EXCEPT ![p].stage = "ready"]
    BY <1>3 DEF Resolve, LookupFails
  <2>3. /\ \A q \in Participants \ {p} : answer'[q] = answer[q]
        /\ \/ answer'[p].server = Nobody /\ answer'[p].stage = "error"
           \/ /\ answer'[p].server = answer[p].server /\ answer'[p].at = answer[p].at
              /\ answer'[p].stage = "ready"
    BY <1>1, <2>2 DEF IngressTypes, AnswerRow, Outcome
  <2> QED
    BY <1>1, <2>1, <2>3, OwedKept
<1>4. ASSUME NEW s \in Servers, FailJob(s) \/ Close(s)
      PROVE  OwedFacts'
  <2>1. /\ UNCHANGED << owed, room >> /\ \A t \in Servers : closing[t] => closing'[t]
        /\ answer' = answer \/ \E items : answer' = Verdict(items, "error")
    BY <1>1, <1>4 DEF FailJob, Close, IngressTypes
  <2>2. \A q \in Participants : \/ answer'[q] = answer[q]
                                \/ answer'[q].server = Nobody /\ answer'[q].stage = "error"
    BY <2>1 DEF Verdict, Outcome
  <2> QED
    BY <1>1, <2>1, <2>2, OwedKept
<1>5. ASSUME UNCHANGED << owed, room, answer, closing >>
      PROVE  OwedFacts'
  BY <1>5 DEF OwedFacts, OwedFact
<1>6. ASSUME NEW c \in Closers,
             \/ \E s \in Servers : FireTimer(c, s)
             \/ \E s \in Servers, action \in HostActions, ahead \in 0..MaxAhead :
                  SendCommand(c, s, action, room.version + ahead)
             \/ Authenticate(c) \/ Unauthorized(c) \/ CutBatch(c) \/ Flushed(c)
      PROVE  UNCHANGED << owed, room, answer, closing >>
  BY <1>6 DEF FireTimer, SendCommand, Authenticate, Unauthorized, CutBatch, Flushed
<1>7. ASSUME Tick \/ \E s \in Servers : DispatchBatch(s) \/ BeginLoad(s) \/ EndLoad(s)
      PROVE  UNCHANGED << owed, room, answer, closing >>
  BY <1>7 DEF Tick, DispatchBatch, BeginLoad, EndLoad
<1> QED
  BY <1>2, <1>3, <1>4, <1>5, <1>6, <1>7, AnswersOwed, CommandOwes DEF Next

\* An answer a single server received while the question was open and within its
\* deadline is not refused, unless a host's command it does not precede cuts it
\* off, and never late: neither batching, nor a slow look-up, nor the deadline's
\* own lock stands in its way (answer, queueAnswer, hostCommand, autoLock).
THEOREM OnTimeAnswersAreCounted ==
  ASSUME \A s, q \in Servers : s = q
  PROVE  Spec => []OnTimeAnswersCount
<1>1. Init => OwedFacts
  BY DEF Init, OwedFacts
<1>2. IngressIInv /\ OwedFacts /\ [Next]_vars => OwedFacts'
  <2>1. IngressIInv /\ OwedFacts /\ Next => OwedFacts'
    BY OwedStep
  <2>2. OwedFacts /\ UNCHANGED vars => OwedFacts'
    BY DEF OwedFacts, OwedFact, vars
  <2> QED
    BY <2>1, <2>2
<1>3. OwedFacts => OnTimeAnswersCount
  BY DEF OwedFacts, OwedFact, OnTimeAnswersCount
<1> QED
  BY <1>1, <1>2, <1>3, IngressInit, IngressStep, IngressStutter, PTL DEF Spec
=============================================================================
