-------------------------- MODULE PresentationProofs --------------------------
(* Proofs about a live Presentation: for any deck, any number of windows that *)
(* command it and participants who answer it, and one participant's page,     *)
(* with every step of any of them at any time.                                *)
EXTENDS MCPresentation, FiniteSetTheorems, SequenceTheorems, TLAPS

\* The whole of it: the windows, the others in the room and one page. MCPresentation
\* checks scenes of it, in each of which only some of these steps are taken.
PresentationInit == RoomInit({Me}) /\ CommandsInit /\ AnswersInit

PresentationNext ==
    \/ CommandsNext /\ UNCHANGED answersVars
    \/ AnswersNext /\ UNCHANGED commandVars

PresentationSpec ==
    PresentationInit /\ [][PresentationNext]_<< roomVars, commandVars, answersVars >>

-------------------------------------------------------------------------------
(* The room: what a step of anyone does to its durable record.                *)

\* The timeline is a sequence, whatever its entries are made of.
IsTimeline == \E S : timeline \in Seq(S)

\* The last entry of the timeline is the transition that led to the room's present state.
LastEntryIsNow ==
    /\ room.revision = Len(timeline)
    /\ Len(timeline) = 0 => room.phase = "lobby"
    /\ Len(timeline) > 0 =>
          LET e == timeline[Len(timeline)]
          IN  /\ e.phase = room.phase /\ e.block = CurrentId(room) /\ e.at \in Nat
              /\ room.phase = "question_open" =>
                    /\ room.opened = e.at
                    /\ room.closes = IF room.flex THEN None ELSE e.at + TimeLimit

RoomStands ==
    /\ IsTimeline /\ LastEntryIsNow /\ clock \in Nat /\ room.flex \in BOOLEAN
    /\ room.closes \in Nat \cup {None}
    /\ IsFiniteSet(roster) /\ IsFiniteSet(responses)

\* The steps of the room, whoever takes them.
RoomMoves ==
    /\ \E t, cmd : ApplyTransition(t, cmd)
    /\ UNCHANGED << roster, responses, fenced, clock >>
RoomJoined == (\E p : roster' = roster \cup {p}) /\ UNCHANGED << room, timeline, responses, clock >>
RoomTicks == clock' = clock + 1 /\ UNCHANGED << room, timeline, roster, responses >>
RoomKept == UNCHANGED << room, timeline, roster, responses, clock >>

\* An answer is saved as acceptResponse saves it.
RoomAnswered ==
    /\ \E a : ResponseWindowOpen(a) /\ Unanswered(a) /\ responses' = responses \cup {a}
    /\ UNCHANGED << room, timeline, roster, clock >>

\* Whatever the windows do, the room moves by a transition, by its clock, or not at all.
LEMMA CommandsRoom ==
  ASSUME CommandsNext
  PROVE  RoomMoves \/ RoomTicks \/ RoomKept
<1>1. ASSUME NEW w \in Windows, NEW n \in Attempts, Commit(w, n) PROVE RoomMoves
  BY <1>1 DEF Commit, RoomMoves
<1>2. ASSUME NEW w \in Windows,
             \/ \E kind \in CommandKinds : Run(w, kind)
             \/ Retry(w) \/ Acknowledge(w) \/ AckTimeout(w) \/ ChangePass(w)
             \/ \E n \in Attempts :
                   \/ Authorize(w, n) \/ Prepare(w, n) \/ CommitRefused(w, n)
                   \/ RacedReplay(w, n) \/ RequestFails(w, n)
      PROVE  RoomKept
  BY <1>2 DEF Run, Retry, Send, Acknowledge, AckTimeout, Settle, ChangePass, Authorize, Prepare,
              CommitRefused, RacedReplay, RequestFails, roomVars, RoomKept
<1>3. CASE ArchiveOrRestoreSource
  BY <1>3 DEF ArchiveOrRestoreSource, roomVars, RoomKept
<1>4. CASE OthersMoveOn
  BY <1>4 DEF OthersMoveOn, AdvanceByRest, StartWorkspaceDeletion, Tick, RoomMoves, RoomTicks,
              RoomKept
<1> QED
  BY <1>1, <1>2, <1>3, <1>4 DEF CommandsNext

\* A transition is recorded, and the record of the earlier ones stays.
LEMMA MovedRoom ==
  ASSUME RoomStands, NEW t, NEW cmd, ApplyTransition(t, cmd),
         UNCHANGED << roster, responses, clock >>
  PROVE  /\ RoomStands' /\ Len(timeline) \in Nat /\ Len(timeline') = Len(timeline) + 1
         /\ \A i \in 1..Len(timeline) : timeline'[i] = timeline[i]
         /\ DOMAIN timeline = 1..Len(timeline) /\ DOMAIN timeline' = 1..Len(timeline')
         /\ room'.revision = room.revision + 1 /\ room'.flex = room.flex
<1> DEFINE e == Entry(t, cmd)
<1>1. timeline' = Append(timeline, e) /\ room' = Moved(t)
  BY DEF ApplyTransition
<1>2. e.phase = t.phase /\ e.at = clock
      /\ e.block = IF t.index = 0 THEN None ELSE t.blocks[t.index].id
  BY DEF Entry
<1> HIDE DEF e
<1>3. PICK S : timeline \in Seq(S)
  BY DEF RoomStands, IsTimeline
<1>4. timeline \in Seq(S \cup {e})
  BY <1>3, SeqMonotonic
<1>5. /\ timeline' \in Seq(S \cup {e}) /\ Len(timeline') = Len(timeline) + 1
      /\ \A i \in 1..Len(timeline) : timeline'[i] = timeline[i]
      /\ timeline'[Len(timeline) + 1] = e
  BY <1>1, <1>4, AppendProperties
<1>6. Len(timeline) \in Nat /\ DOMAIN timeline = 1..Len(timeline)
      /\ DOMAIN timeline' = 1..Len(timeline')
  BY <1>4, <1>5, LenProperties
<1>7. /\ room'.phase = t.phase /\ room'.index = t.index /\ room'.blocks = t.blocks
      /\ room'.revision = room.revision + 1 /\ room'.flex = room.flex
      /\ room'.opened = Window(t).opened /\ room'.closes = Window(t).closes
  BY <1>1 DEF Moved
<1>8. /\ room'.closes \in Nat \cup {None}
      /\ t.phase = "question_open" =>
            room'.opened = clock /\ room'.closes = IF room.flex THEN None ELSE clock + TimeLimit
  BY <1>7, RoomAssumption DEF Window, RoomStands
<1>9. CurrentId(room') = IF t.index = 0 THEN None ELSE t.blocks[t.index].id
  BY <1>7 DEF CurrentId
<1>10. LastEntryIsNow'
  <2>1. room'.revision = Len(timeline') /\ Len(timeline') > 0
    BY <1>5, <1>6, <1>7 DEF RoomStands, LastEntryIsNow
  <2>2. timeline'[Len(timeline')] = e
    BY <1>5
  <2>3. clock \in Nat
    BY DEF RoomStands
  <2> QED
    BY <1>2, <1>7, <1>8, <1>9, <2>1, <2>2, <2>3 DEF LastEntryIsNow
<1>11. IsTimeline'
  BY <1>5 DEF IsTimeline
<1> QED
  BY <1>5, <1>6, <1>7, <1>8, <1>10, <1>11 DEF RoomStands

-------------------------------------------------------------------------------
(* What is seen of the room: each snapshot, reading and view is of one moment. *)

Moment(x) == [seq |-> x.seq, rev |-> x.rev, phase |-> x.phase, closes |-> x.closes]

Now == [seq |-> EventSeq(room, roster, responses), rev |-> room.revision,
        phase |-> room.phase, closes |-> room.closes]

\* A snapshot in the mail that the page will apply.
Readable(m) == m.for = "rest" \/ m.snap # None

ReadingMoment ==
    [seq |-> reading.seq, rev |-> reading.row.revision, phase |-> reading.row.phase,
     closes |-> reading.row.closes]

Known ==
    {Now, Moment(client.view)}
        \cup {Moment(m.snap) : m \in {n \in mail : Readable(n)}}
        \cup {Moment(emission[e].snap) : e \in {f \in Emissions : EmissionAt(f, "replied")}}
        \cup (IF reading = NoReading THEN {} ELSE {ReadingMoment})

\* Moments are ordered alike by sequence and by revision, and one revision is one state.
Ordered(x, y) ==
    /\ x.seq <= y.seq => x.rev <= y.rev
    /\ x.rev = y.rev => x.phase = y.phase /\ x.closes = y.closes

Past(x) == x.seq \in 0..EventSeq(room, roster, responses) /\ x.rev \in 0..room.revision
           /\ x.closes \in Nat \cup {None}

MomentsStand ==
    /\ \A x \in Known : Past(x)
    /\ \A x, y \in Known : Ordered(x, y)

\* The room goes on: its revision and its tables grow, and a revision is one state.
RoomGrows ==
    /\ RoomStands /\ RoomStands'
    /\ room.revision <= room'.revision /\ (room'.revision = room.revision => room' = room)
    /\ roster \subseteq roster' /\ responses \subseteq responses'
    /\ room'.flex = room.flex

\* Counting what a room has.
LEMMA CountsGrow ==
  ASSUME NEW S, NEW T, IsFiniteSet(T), S \subseteq T
  PROVE  Cardinality(S) \in Nat /\ Cardinality(T) \in Nat /\ Cardinality(S) <= Cardinality(T)
  BY FS_Subset, FS_CardinalityType

\* The present moment moves forward.
LEMMA NowMoves ==
  ASSUME RoomGrows
  PROVE  /\ Now.seq \in Nat /\ Now.seq' \in Nat /\ Now.rev \in Nat /\ Now.rev' \in Nat
         /\ Now.seq <= Now.seq' /\ Now.rev <= Now.rev'
         /\ Now.seq' = Now.seq => Now.rev' = Now.rev
         /\ Now.rev' = Now.rev => Now.phase' = Now.phase /\ Now.closes' = Now.closes
         /\ Now.closes' \in Nat \cup {None}
<1>1. /\ Cardinality(roster) \in Nat /\ Cardinality(roster') \in Nat
      /\ Cardinality(roster) <= Cardinality(roster')
  BY CountsGrow DEF RoomGrows, RoomStands
<1>2. /\ Cardinality(responses) \in Nat /\ Cardinality(responses') \in Nat
      /\ Cardinality(responses) <= Cardinality(responses')
  BY CountsGrow DEF RoomGrows, RoomStands
<1>3. room.revision \in Nat /\ room'.revision \in Nat
  <2>1. \A S, s : s \in Seq(S) => Len(s) \in Nat
    BY LenProperties
  <2> QED
    BY <2>1 DEF RoomGrows, RoomStands, IsTimeline, LastEntryIsNow
<1>4. room.revision <= room'.revision /\ (room'.revision = room.revision => room' = room)
      /\ room'.closes \in Nat \cup {None}
  BY DEF RoomGrows, RoomStands
<1> QED
  BY <1>1, <1>2, <1>3, <1>4 DEF Now, EventSeq

\* Whatever is known afterwards was known before or is of the present moment.
LEMMA MomentsStay ==
  ASSUME RoomGrows, MomentsStand, Known' \subseteq Known \cup {Now, Now'}
  PROVE  MomentsStand'
<1> DEFINE n == Now
           s == n.seq
           r == n.rev
<1>1. PICK m : m = Now'
  OBVIOUS
<1>2. /\ s \in Nat /\ m.seq \in Nat /\ r \in Nat /\ m.rev \in Nat
      /\ s <= m.seq /\ r <= m.rev /\ (m.seq = s => m.rev = r)
      /\ (m.rev = r => m.phase = n.phase /\ m.closes = n.closes)
      /\ m.closes \in Nat \cup {None}
  BY <1>1, NowMoves
<1>3. /\ s = EventSeq(room, roster, responses) /\ r = room.revision
      /\ m.seq = EventSeq(room', roster', responses') /\ m.rev = room'.revision
  BY <1>1 DEF Now
<1>4. /\ n \in Known
      /\ \A x \in Known : x.seq \in 0..s /\ x.rev \in 0..r /\ x.closes \in Nat \cup {None}
  BY <1>3 DEF MomentsStand, Known, Past
<1>5. Known' \subseteq Known \cup {m}
  BY <1>1, <1>4
<1>6. \A x \in Known : Ordered(x, n) /\ Ordered(n, x)
  BY <1>4 DEF MomentsStand
<1> HIDE DEF n
<1>7. ASSUME NEW x \in Known' PROVE Past(x)'
  <2>1. x.seq \in 0..m.seq /\ x.rev \in 0..m.rev /\ x.closes \in Nat \cup {None}
    BY <1>2, <1>4, <1>5
  <2> QED
    BY <1>3, <2>1 DEF Past
<1>8. ASSUME NEW x \in Known PROVE Ordered(x, m) /\ Ordered(m, x)
  <2>1. x.seq \in 0..s /\ x.rev \in 0..r
    BY <1>4
  <2>2. Ordered(x, n) /\ Ordered(n, x)
    BY <1>6
  <2>3. x.rev <= m.rev /\ (m.seq <= x.seq => m.rev <= x.rev)
    BY <1>2, <2>1, <2>2 DEF Ordered
  <2>4. x.rev = m.rev => x.phase = m.phase /\ x.closes = m.closes
    <3>1. x.rev = m.rev => r = m.rev
      BY <1>2, <2>1
    <3> QED
      BY <1>2, <2>2, <3>1 DEF Ordered
  <2> QED
    BY <2>3, <2>4 DEF Ordered
<1>9. Ordered(m, m)
  BY <1>2 DEF Ordered
<1>10. ASSUME NEW x \in Known', NEW y \in Known' PROVE Ordered(x, y)
  BY <1>5, <1>8, <1>9 DEF MomentsStand
<1> QED
  BY <1>7, <1>10 DEF MomentsStand, Ordered

-------------------------------------------------------------------------------
(* Snapshots and the page that shows them.                                    *)

\* An answer of the page's participant to a block, under one of its keys.
MineSaved(block, k) == \E a \in responses : a.p = Me /\ a.key = k /\ a.block = block
SavedKey(k) == \E a \in responses : a.p = Me /\ a.key = k

\* A snapshot shows answers that are saved, and is open as its own time says.
SnapStands(s) ==
    /\ s = [seq |-> s.seq, rev |-> s.rev, joined |-> s.joined, answers |-> s.answers,
            phase |-> s.phase, block |-> s.block, mine |-> s.mine, closes |-> s.closes,
            at |-> s.at, accepting |-> s.accepting]
    /\ s.at \in Nat /\ s.closes \in Nat \cup {None}
    /\ s.accepting \in BOOLEAN
    /\ s.accepting <=> s.phase = "question_open" /\ (s.closes = None \/ s.at <= s.closes)
    /\ \A k \in s.mine : MineSaved(s.block, k)

Exact(s) == s.seq = s.rev + s.joined + s.answers

\* The page's fence is its view's; a question shown as closed is kept closed by it.
PageStands(c) ==
    /\ c = [link |-> c.link, sub |-> c.sub, told |-> c.told, view |-> c.view, fence |-> c.fence]
    /\ c.sub = [key |-> c.sub.key, block |-> c.sub.block, expected |-> c.sub.expected,
                replayed |-> c.sub.replayed, timer |-> c.sub.timer]
    /\ c.sub.key \in Keys \cup {None}
    /\ c.told \in [Keys -> {None, "saved", "different", "failed"}]
    /\ c.view = [seq |-> c.view.seq, rev |-> c.view.rev, joined |-> c.view.joined,
                 answers |-> c.view.answers, phase |-> c.view.phase, block |-> c.view.block,
                 mine |-> c.view.mine, closes |-> c.view.closes, at |-> c.view.at,
                 accepting |-> c.view.accepting]
    /\ c.fence = [seq |-> c.view.seq, rev |-> c.view.rev, at |-> c.fence.at]
    /\ c.fence.at \in Nat /\ c.view.accepting \in BOOLEAN
    /\ ~c.view.accepting => \/ c.view.phase # "question_open"
                            \/ c.view.closes # None /\ c.fence.at > c.view.closes
    /\ \A k \in c.view.mine : MineSaved(c.view.block, k)

\* The page never goes back from c to d.
NotBack(c, d) ==
    /\ d.view.rev >= c.view.rev /\ d.view.seq >= c.view.seq
    /\ (d.view.seq = c.view.seq /\ ~c.view.accepting) => ~d.view.accepting

\* What is told about c's submission is so.
Truthful(c, told) ==
    /\ told \in {"saved", "different", "failed"}
    /\ told = "saved" => SavedKey(c.sub.key)
    /\ told = "different" => \E k : k # c.sub.key /\ MineSaved(c.sub.block, k)

\* From c to d the submission stays the same one, or it ends and is told of truthfully.
SameSubmission(c, d) ==
    /\ d.sub.key = c.sub.key /\ d.sub.block = c.sub.block /\ d.sub.expected = c.sub.expected
    /\ d.told = c.told
EndsSubmission(c, d) ==
    /\ c.sub.key # None /\ d.sub = NoSubmission
    /\ \E told : Truthful(c, told) /\ d.told = [c.told EXCEPT ![c.sub.key] = told]
SubmissionGoes(c, d) == SameSubmission(c, d) \/ EndsSubmission(c, d)

\* The fence lets a snapshot in that is newer than the view, by any of three clocks.
LEMMA ShownPage ==
  ASSUME NEW c, PageStands(c), NEW s, SnapStands(s), Moment(c.view).seq \in Nat,
         Moment(c.view).rev \in Nat, Moment(c.view).closes \in Nat \cup {None},
         Moment(s).seq \in Nat, Moment(s).rev \in Nat,
         Ordered(Moment(c.view), Moment(s)), Ordered(Moment(s), Moment(c.view))
  PROVE  /\ PageStands(Shown(c, s)) /\ NotBack(c, Shown(c, s)) /\ SameSubmission(c, Shown(c, s))
         /\ Shown(c, s).sub = c.sub /\ Shown(c, s).link = c.link
         /\ Shown(c, s).view = c.view \/ Shown(c, s).view = s
<1>1. /\ c.view.seq \in Nat /\ c.view.rev \in Nat /\ s.seq \in Nat /\ s.rev \in Nat
      /\ c.view.closes \in Nat \cup {None}
      /\ c.view.seq <= s.seq => c.view.rev <= s.rev
      /\ s.seq <= c.view.seq => s.rev <= c.view.rev
      /\ s.rev = c.view.rev => s.phase = c.view.phase /\ s.closes = c.view.closes
  BY DEF Moment, Ordered
<1>2. CASE ~Applies(c.fence, s)
  <2>1. Shown(c, s) = c
    BY <1>2 DEF Shown
  <2> QED
    BY <1>1, <2>1 DEF NotBack, SameSubmission
<1>3. CASE Applies(c.fence, s)
  <2> DEFINE d == Shown(c, s)
  <2>1. d = [c EXCEPT !.view = s, !.fence = Fence(s)]
    BY <1>3 DEF Shown
  <2>2. c = [link |-> c.link, sub |-> c.sub, told |-> c.told, view |-> c.view, fence |-> c.fence]
    BY DEF PageStands
  <2>3. d.link = c.link /\ d.sub = c.sub /\ d.told = c.told /\ d.view = s
        /\ d.fence = [seq |-> s.seq, rev |-> s.rev, at |-> s.at]
        /\ d = [link |-> d.link, sub |-> d.sub, told |-> d.told, view |-> d.view, fence |-> d.fence]
    BY <2>1, <2>2 DEF Fence
  <2> HIDE DEF d
  <2>4. c.fence.seq = c.view.seq /\ c.fence.rev = c.view.rev /\ c.fence.at \in Nat
    BY DEF PageStands
  <2>5. /\ s.seq > c.view.seq \/ (s.seq = c.view.seq /\ s.rev > c.view.rev)
           \/ (s.seq = c.view.seq /\ s.rev = c.view.rev /\ s.at > c.fence.at)
    BY <1>3, <2>4 DEF Applies
  <2>6. s.seq >= c.view.seq /\ s.rev >= c.view.rev
    BY <1>1, <2>5
  <2>7. ASSUME s.seq = c.view.seq, ~c.view.accepting PROVE ~s.accepting
    <3>1. s.rev = c.view.rev /\ s.at > c.fence.at
      BY <1>1, <2>5, <2>7
    <3>2. s.phase = c.view.phase /\ s.closes = c.view.closes
      BY <1>1, <3>1
    <3>3. /\ s.at \in Nat
          /\ s.accepting <=> s.phase = "question_open" /\ (s.closes = None \/ s.at <= s.closes)
      BY DEF SnapStands
    <3>4. CASE c.view.phase # "question_open"
      BY <3>2, <3>3, <3>4
    <3>5. CASE c.view.closes # None /\ c.fence.at > c.view.closes
      <4>1. ~(s.closes = None \/ s.at <= s.closes)
        BY <1>1, <2>4, <3>1, <3>2, <3>3, <3>5
      <4> QED
        BY <3>3, <4>1
    <3> QED
      BY <2>7, <3>4, <3>5 DEF PageStands
  <2>8. NotBack(c, d)
    BY <2>3, <2>6, <2>7 DEF NotBack
  <2>9. /\ s.at \in Nat /\ s.accepting \in BOOLEAN
        /\ ~s.accepting => s.phase # "question_open" \/ (s.closes # None /\ s.at > s.closes)
    <3>1. /\ s.at \in Nat /\ s.closes \in Nat \cup {None} /\ s.accepting \in BOOLEAN
          /\ s.accepting <=> s.phase = "question_open" /\ (s.closes = None \/ s.at <= s.closes)
      BY DEF SnapStands
    <3>2. ~(s.closes = None \/ s.at <= s.closes) => s.closes # None /\ s.at > s.closes
      BY <3>1
    <3> QED
      BY <3>1, <3>2
  <2>10. PageStands(d)
    <3>1. /\ d.sub = [key |-> d.sub.key, block |-> d.sub.block, expected |-> d.sub.expected,
                      replayed |-> d.sub.replayed, timer |-> d.sub.timer]
          /\ d.sub.key \in Keys \cup {None}
          /\ d.told \in [Keys -> {None, "saved", "different", "failed"}]
      BY <2>3 DEF PageStands
    <3>2. /\ d.view = [seq |-> d.view.seq, rev |-> d.view.rev, joined |-> d.view.joined,
                       answers |-> d.view.answers, phase |-> d.view.phase, block |-> d.view.block,
                       mine |-> d.view.mine, closes |-> d.view.closes, at |-> d.view.at,
                       accepting |-> d.view.accepting]
          /\ \A k \in d.view.mine : MineSaved(d.view.block, k)
      BY <2>3 DEF SnapStands
    <3>3. /\ d.fence.at = s.at
          /\ d.fence = [seq |-> d.view.seq, rev |-> d.view.rev, at |-> d.fence.at]
      BY <2>3
    <3>4. /\ d.fence.at \in Nat /\ d.view.accepting \in BOOLEAN
          /\ ~d.view.accepting => \/ d.view.phase # "question_open"
                                  \/ d.view.closes # None /\ d.fence.at > d.view.closes
      BY <2>3, <2>9, <3>3
    <3> QED
      BY <2>3, <3>1, <3>2, <3>3, <3>4 DEF PageStands
  <2>11. SameSubmission(c, d)
    BY <2>3 DEF SameSubmission
  <2> QED
    BY <2>3, <2>8, <2>10, <2>11 DEF d
<1> QED
  BY <1>2, <1>3

\* A page whose view stays is at the same place.
LEMMA SameView ==
  ASSUME NEW c, NEW d, d.view = c.view, c.view.rev \in Nat, c.view.seq \in Nat
  PROVE  NotBack(c, d)
  BY DEF NotBack

\* The submission ends, and its user is told what is so.
LEMMA EndedPage ==
  ASSUME NEW c, PageStands(c), c.sub.key # None, NEW told, Truthful(c, told)
  PROVE  /\ PageStands(Ended(c, told)) /\ EndsSubmission(c, Ended(c, told))
         /\ Ended(c, told).view = c.view /\ Ended(c, told).link = c.link
         /\ Ended(c, told).sub = NoSubmission
<1> DEFINE d == Ended(c, told)
<1>1. c = [link |-> c.link, sub |-> c.sub, told |-> c.told, view |-> c.view, fence |-> c.fence]
      /\ c.told \in [Keys -> {None, "saved", "different", "failed"}] /\ c.sub.key \in Keys
  BY DEF PageStands
<1>2. d = [c EXCEPT !.sub = NoSubmission, !.told[c.sub.key] = told]
  BY DEF Ended
<1> HIDE DEF d
<1>3. /\ d.sub = NoSubmission /\ d.link = c.link /\ d.view = c.view /\ d.fence = c.fence
      /\ d.told = [c.told EXCEPT ![c.sub.key] = told]
      /\ d = [link |-> d.link, sub |-> d.sub, told |-> d.told, view |-> d.view, fence |-> d.fence]
  BY <1>1, <1>2
<1>4. d.told \in [Keys -> {None, "saved", "different", "failed"}]
  BY <1>1, <1>3 DEF Truthful
<1>5. d.sub = [key |-> d.sub.key, block |-> d.sub.block, expected |-> d.sub.expected,
               replayed |-> d.sub.replayed, timer |-> d.sub.timer]
      /\ d.sub.key \in Keys \cup {None}
  BY <1>3 DEF NoSubmission
<1>6. PageStands(d)
  BY <1>3, <1>4, <1>5 DEF PageStands
<1>7. EndsSubmission(c, d)
  BY <1>1, <1>3 DEF EndsSubmission
<1> QED
  BY <1>3, <1>6, <1>7 DEF d

\* Only the submission's timer, its replay or the page's link change.
LEMMA TimedPage ==
  ASSUME NEW c, PageStands(c), NEW d,
         d = [link |-> d.link, sub |-> d.sub, told |-> d.told, view |-> d.view, fence |-> d.fence],
         d.view = c.view, d.fence = c.fence, d.told = c.told,
         d.sub = [key |-> c.sub.key, block |-> c.sub.block, expected |-> c.sub.expected,
                  replayed |-> d.sub.replayed, timer |-> d.sub.timer]
  PROVE  PageStands(d) /\ SameSubmission(c, d)
<1>1. d.sub.key = c.sub.key /\ d.sub.block = c.sub.block /\ d.sub.expected = c.sub.expected
  OBVIOUS
<1> QED
  BY <1>1 DEF PageStands, SameSubmission

\* The submission is emitted again, or only waits a moment longer.
LEMMA ReplayedPage ==
  ASSUME NEW c, PageStands(c), NEW timer
  PROVE  /\ PageStands(Replayed(c, timer)) /\ SameSubmission(c, Replayed(c, timer))
         /\ Replayed(c, timer).view = c.view /\ Replayed(c, timer).link = c.link
<1> DEFINE d == Replayed(c, timer)
<1>1. c = [link |-> c.link, sub |-> c.sub, told |-> c.told, view |-> c.view, fence |-> c.fence]
      /\ c.sub = [key |-> c.sub.key, block |-> c.sub.block, expected |-> c.sub.expected,
                  replayed |-> c.sub.replayed, timer |-> c.sub.timer]
  BY DEF PageStands
<1>2. d = [c EXCEPT !.sub.replayed = TRUE, !.sub.timer = timer]
  BY DEF Replayed
<1> HIDE DEF d
<1>3. d.sub = [c.sub EXCEPT !.replayed = TRUE, !.timer = timer]
  BY <1>1, <1>2
<1>4. /\ d.link = c.link /\ d.view = c.view /\ d.fence = c.fence /\ d.told = c.told
      /\ d = [link |-> d.link, sub |-> d.sub, told |-> d.told, view |-> d.view, fence |-> d.fence]
  BY <1>1, <1>2
<1>5. d.sub = [key |-> c.sub.key, block |-> c.sub.block, expected |-> c.sub.expected,
               replayed |-> d.sub.replayed, timer |-> d.sub.timer]
  BY <1>1, <1>3
<1>6. PageStands(d) /\ SameSubmission(c, d)
  BY <1>4, <1>5, TimedPage
<1> QED
  BY <1>4, <1>6 DEF d

\* Reconciled with its view, a submission goes on, is replayed, or ends truthfully.
LEMMA ReconciledPage ==
  ASSUME NEW c, PageStands(c)
  PROVE  /\ PageStands(Reconciled(c)) /\ SubmissionGoes(c, Reconciled(c))
         /\ Reconciled(c).view = c.view /\ Reconciled(c).link = c.link
<1>1. \/ Reconciled(c) = c
      \/ \E timer : Reconciled(c) = Replayed(c, timer)
      \/ c.sub.key # None /\ Reconciled(c) = Ended(c, "failed")
      \/ /\ c.sub.key # None /\ Reconciled(c) = Ended(c, "saved")
         /\ c.view.block = c.sub.block /\ c.sub.key \in c.view.mine
      \/ /\ c.sub.key # None /\ Reconciled(c) = Ended(c, "different")
         /\ c.view.block = c.sub.block /\ c.view.mine # {} /\ c.sub.key \notin c.view.mine
  BY DEF Reconciled
<1>2. CASE Reconciled(c) = c
  BY <1>2 DEF SubmissionGoes, SameSubmission
<1>3. ASSUME NEW timer, Reconciled(c) = Replayed(c, timer)
      PROVE  /\ PageStands(Reconciled(c)) /\ SubmissionGoes(c, Reconciled(c))
             /\ Reconciled(c).view = c.view /\ Reconciled(c).link = c.link
  BY <1>3, ReplayedPage DEF SubmissionGoes
<1>4. ASSUME NEW told, c.sub.key # None, Reconciled(c) = Ended(c, told), Truthful(c, told)
      PROVE  /\ PageStands(Reconciled(c)) /\ SubmissionGoes(c, Reconciled(c))
             /\ Reconciled(c).view = c.view /\ Reconciled(c).link = c.link
  BY <1>4, EndedPage DEF SubmissionGoes
<1>5. Truthful(c, "failed")
  BY DEF Truthful
<1>6. ASSUME c.view.block = c.sub.block, c.sub.key \in c.view.mine PROVE Truthful(c, "saved")
  BY <1>6 DEF Truthful, PageStands, MineSaved, SavedKey
<1>7. ASSUME c.view.block = c.sub.block, c.view.mine # {}, c.sub.key \notin c.view.mine
      PROVE  Truthful(c, "different")
  BY <1>7 DEF Truthful, PageStands
<1> QED
  BY <1>1, <1>2, <1>3, <1>4, <1>5, <1>6, <1>7

-------------------------------------------------------------------------------
(* The inductive invariant.                                                   *)

\* What the submission under way was given to.
SubStands == client.sub.key # None => client.sub.expected \in 0..room.revision

\* A reading counts no more than what it will show, so a sequence that is still the
\* same when it is confirmed counts exactly that.
ReadingFact(r) ==
    \/ r = NoReading
    \/ /\ r = [for |-> r.for, row |-> r.row, seq |-> r.seq, data |-> r.data,
               attempt |-> r.attempt]
       /\ r.for \in {"sync", "broadcast", "rest"}
       /\ r.data = None =>
             r.seq <= r.row.revision + Cardinality(roster) + Cardinality(responses)
       /\ r.data # None =>
             /\ r.data.joined \subseteq roster /\ r.data.answers \subseteq responses
             /\ r.seq <= r.row.revision + Cardinality(r.data.joined)
                            + Cardinality(r.data.answers)

MailFact(m) ==
    /\ Readable(m) => SnapStands(m.snap)
    /\ m.for # "rest" /\ m.snap # None => Exact(m.snap)

\* A submission that may still be saved under the revision it was given to has the
\* elapsed time of that revision's question.
EmissionFact(e, em) ==
    /\ em = [stage |-> em.stage, block |-> em.block, expected |-> em.expected, at |-> em.at,
             elapsed |-> em.elapsed, snap |-> em.snap]
    /\ em.stage \in {"sent", "received", "ready"} => em.expected \in 0..room.revision
    /\ em.stage \in {"received", "ready"} => em.at \in Nat
    /\ em.stage = "ready" /\ em.expected = room.revision => em.elapsed = Elapsed(em.at)
    /\ em.stage \in {"saved", "replied"} => SavedKey(e[1])
    /\ em.stage = "replied" => SnapStands(em.snap) /\ Exact(em.snap)
    /\ em.stage # "replied" => em.snap = None

EmissionsStand ==
    DOMAIN emission = Emissions /\ \A e \in Emissions : EmissionFact(e, emission[e])

InFlight(em) == em.stage \in {"sent", "received", "ready"}
AnsweredBlock(b) == \E a \in responses : a.p = Me /\ a.block = b

\* What was told of a submission is so and stays so, whatever of it is still on its way;
\* that of the submission under way is for its question, and of one to come there is none.
KeyFact(k, c, f) ==
    /\ c.told[k] = "saved" => SavedKey(k)
    /\ c.told[k] = "different" =>
          /\ ~SavedKey(k)
          /\ \A e \in Emissions : e[1] = k /\ InFlight(f[e]) => AnsweredBlock(f[e].block)
    /\ c.sub.key = k =>
          /\ c.told[k] = None
          /\ \A a \in responses : a.p = Me /\ a.key = k => a.block = c.sub.block
          /\ \A e \in Emissions : e[1] = k /\ InFlight(f[e]) => f[e].block = c.sub.block
    /\ c.told[k] = None /\ c.sub.key # k =>
          /\ ~SavedKey(k)
          /\ \A e \in Emissions : e[1] = k => f[e].stage = "none"

KeysStand == \A k \in Keys : KeyFact(k, client, emission)

PresentationIInv ==
    /\ RoomStands /\ AnswersAreTimely /\ MomentsStand /\ PageStands(client) /\ SubStands
    /\ ReadingFact(reading) /\ (\A m \in mail : MailFact(m)) /\ EmissionsStand /\ KeysStand

\* A step that leaves the room alone, moves it on, or adds to what it has.
LEMMA RoomGoes ==
  ASSUME RoomStands, RoomMoves \/ RoomJoined \/ RoomTicks \/ RoomKept \/ RoomAnswered
  PROVE  RoomGrows
<1>1. CASE RoomMoves
  <2>1. PICK t, cmd : ApplyTransition(t, cmd)
    BY <1>1 DEF RoomMoves
  <2>2. UNCHANGED << roster, responses, clock >>
    BY <1>1 DEF RoomMoves
  <2>3. RoomStands' /\ Len(timeline) \in Nat /\ room'.revision = room.revision + 1
        /\ room'.flex = room.flex
    BY <2>1, <2>2, MovedRoom
  <2>4. room.revision \in Nat
    BY <2>3 DEF RoomStands, LastEntryIsNow
  <2> QED
    BY <2>2, <2>3, <2>4 DEF RoomGrows
<1>2. CASE RoomJoined \/ RoomTicks \/ RoomKept \/ RoomAnswered
  <2>1. room' = room /\ timeline' = timeline
    BY <1>2 DEF RoomJoined, RoomTicks, RoomKept, RoomAnswered
  <2>2. clock' \in Nat
    BY <1>2 DEF RoomJoined, RoomTicks, RoomKept, RoomAnswered, RoomStands
  <2>3. IsTimeline' /\ LastEntryIsNow'
    BY <2>1 DEF RoomStands, IsTimeline, LastEntryIsNow
  <2>4. roster \subseteq roster' /\ IsFiniteSet(roster')
    <3>1. \A p : IsFiniteSet(roster \cup {p})
      BY FS_AddElement DEF RoomStands
    <3> QED
      BY <1>2, <3>1 DEF RoomJoined, RoomTicks, RoomKept, RoomAnswered, RoomStands
  <2>5. responses \subseteq responses' /\ IsFiniteSet(responses')
    <3>1. \A a : IsFiniteSet(responses \cup {a})
      BY FS_AddElement DEF RoomStands
    <3> QED
      BY <1>2, <3>1 DEF RoomJoined, RoomTicks, RoomKept, RoomAnswered, RoomStands
  <2>6. room.revision \in Nat
    <3>1. \A S, s : s \in Seq(S) => Len(s) \in Nat
      BY LenProperties
    <3> QED
      BY <3>1 DEF RoomStands, IsTimeline, LastEntryIsNow
  <2> QED
    BY <2>1, <2>2, <2>3, <2>4, <2>5, <2>6 DEF RoomGrows, RoomStands
<1> QED
  BY <1>1, <1>2

\* Answers that were accepted stay timely when a transition is recorded.
LEMMA MovesTimely ==
  ASSUME RoomStands, AnswersAreTimely, RoomMoves
  PROVE  AnswersAreTimely'
<1>1. PICK t, cmd : ApplyTransition(t, cmd)
  BY DEF RoomMoves
<1>2. UNCHANGED << roster, responses, clock >>
  BY DEF RoomMoves
<1>3. /\ Len(timeline) \in Nat /\ Len(timeline') = Len(timeline) + 1
      /\ \A i \in 1..Len(timeline) : timeline'[i] = timeline[i]
      /\ DOMAIN timeline = 1..Len(timeline) /\ DOMAIN timeline' = 1..Len(timeline')
      /\ room'.flex = room.flex
  BY <1>1, <1>2, MovedRoom
<1>4. \A i \in DOMAIN timeline : i \in DOMAIN timeline' /\ timeline'[i] = timeline[i]
  BY <1>3
<1> QED
  BY <1>2, <1>3, <1>4 DEF AnswersAreTimely

\* An answer saved in its window, timed by its question, is timely.
LEMMA AnsweredTimely ==
  ASSUME RoomStands, AnswersAreTimely, NEW a, ResponseWindowOpen(a), Unanswered(a),
         a.at \in Nat, a.elapsed = Elapsed(a.at),
         responses' = responses \cup {a}, UNCHANGED << room, timeline >>
  PROVE  AnswersAreTimely'
<1>1. PICK S : timeline \in Seq(S)
  BY DEF RoomStands, IsTimeline
<1>2. Len(timeline) \in Nat /\ DOMAIN timeline = 1..Len(timeline)
  BY <1>1, LenProperties
<1>3. /\ room.phase = "question_open" /\ room.revision = a.expected /\ room.opened <= a.at
      /\ room.closes # None => a.at <= room.closes
      /\ CurrentId(room) = a.block
  BY DEF ResponseWindowOpen
<1>4. a.expected = Len(timeline) /\ a.expected \in DOMAIN timeline
  BY <1>2, <1>3 DEF RoomStands, LastEntryIsNow
<1> DEFINE e == timeline[a.expected]
<1>5. /\ e.phase = "question_open" /\ e.block = a.block /\ e.at \in Nat /\ room.opened = e.at
      /\ room.closes = IF room.flex THEN None ELSE e.at + TimeLimit
  BY <1>2, <1>3, <1>4 DEF RoomStands, LastEntryIsNow
<1>6. room.flex \in BOOLEAN /\ TimeLimit \in Nat /\ None \notin Nat
  BY RoomAssumption DEF RoomStands
<1> HIDE DEF e
<1>7. e.at <= a.at
  BY <1>3, <1>5
<1>8. ~room.flex => a.at <= e.at + TimeLimit
  BY <1>3, <1>5, <1>6
<1>9. a.elapsed = a.at - e.at
  <2>1. room.opened \in Nat /\ room.opened # None /\ ~(a.at < room.opened)
    BY <1>5, <1>6, <1>7
  <2>2. CASE room.flex
    BY <1>5, <2>1, <2>2 DEF Elapsed
  <2>3. CASE ~room.flex
    <3>1. a.elapsed = Least(TimeLimit, a.at - room.opened)
      BY <2>1, <2>3 DEF Elapsed
    <3>2. a.at - room.opened \in Nat /\ a.at - room.opened <= TimeLimit
      BY <1>5, <1>6, <1>7, <1>8, <2>1, <2>3
    <3>3. Least(TimeLimit, a.at - room.opened) = a.at - room.opened
      BY <1>6, <3>2 DEF Least
    <3> QED
      BY <1>5, <3>1, <3>3
  <2> QED
    BY <2>2, <2>3
<1>10. /\ a.expected \in DOMAIN timeline
       /\ timeline[a.expected].phase = "question_open" /\ timeline[a.expected].block = a.block
       /\ timeline[a.expected].at <= a.at
       /\ (room.flex \/ a.at <= timeline[a.expected].at + TimeLimit)
       /\ a.elapsed = a.at - timeline[a.expected].at
  BY <1>4, <1>5, <1>7, <1>8, <1>9 DEF e
<1>11. ASSUME NEW b \in responses', NEW other \in responses', other.p = b.p, other.block = b.block
       PROVE  other = b
  <2>1. CASE b = a /\ other = a
    BY <2>1
  <2>2. CASE b \in responses /\ other \in responses
    BY <1>11, <2>2 DEF AnswersAreTimely
  <2>3. CASE (b = a /\ other \in responses) \/ (b \in responses /\ other = a)
    BY <1>11, <2>3 DEF Unanswered
  <2> QED
    BY <1>11, <2>1, <2>2, <2>3
<1>12. ASSUME NEW b \in responses'
       PROVE  /\ b.expected \in DOMAIN timeline
              /\ timeline[b.expected].phase = "question_open"
              /\ timeline[b.expected].block = b.block /\ timeline[b.expected].at <= b.at
              /\ (room.flex \/ b.at <= timeline[b.expected].at + TimeLimit)
              /\ b.elapsed = b.at - timeline[b.expected].at
  BY <1>10, <1>12 DEF AnswersAreTimely
<1> QED
  BY <1>11, <1>12 DEF AnswersAreTimely

-------------------------------------------------------------------------------
(* What stays true while the room goes on.                                    *)

\* A snapshot keeps showing answers that are saved.
LEMMA SnapFrame ==
  ASSUME NEW s, SnapStands(s), responses \subseteq responses'
  PROVE  SnapStands(s)'
<1>1. \A k \in s.mine : MineSaved(s.block, k)'
  BY DEF SnapStands, MineSaved
<1> QED
  BY <1>1 DEF SnapStands

\* So does the page.
LEMMA PageFrame ==
  ASSUME NEW c, PageStands(c), responses \subseteq responses'
  PROVE  PageStands(c)'
<1>1. \A k \in c.view.mine : MineSaved(c.view.block, k)'
  BY DEF PageStands, MineSaved
<1> QED
  BY <1>1 DEF PageStands

\* A letter on its way is what it was.
LEMMA MailFrame ==
  ASSUME NEW m, MailFact(m), responses \subseteq responses'
  PROVE  MailFact(m)'
<1>1. Readable(m) => SnapStands(m.snap)'
  BY SnapFrame DEF MailFact
<1> QED
  BY <1>1 DEF MailFact, Exact, Readable

\* What a reading counts stays within what the room has.
LEMMA ReadingFrame ==
  ASSUME RoomGrows, NEW r, ReadingFact(r), r # NoReading => r.row.revision \in Nat /\ r.seq \in Nat
  PROVE  ReadingFact(r)'
<1>1. CASE r = NoReading
  BY <1>1 DEF ReadingFact
<1>2. CASE r # NoReading
  <2>1. /\ Cardinality(roster) \in Nat /\ Cardinality(roster') \in Nat
        /\ Cardinality(roster) <= Cardinality(roster')
    BY CountsGrow DEF RoomGrows, RoomStands
  <2>2. /\ Cardinality(responses) \in Nat /\ Cardinality(responses') \in Nat
        /\ Cardinality(responses) <= Cardinality(responses')
    BY CountsGrow DEF RoomGrows, RoomStands
  <2>3. r.data = None => r.seq <= r.row.revision + Cardinality(roster') + Cardinality(responses')
    BY <1>2, <2>1, <2>2 DEF ReadingFact
  <2>4. roster \subseteq roster' /\ responses \subseteq responses'
    BY DEF RoomGrows
  <2> QED
    BY <1>2, <2>3, <2>4 DEF ReadingFact
<1> QED
  BY <1>1, <1>2

\* A submission that may still be saved keeps the time that its question gives it.
LEMMA EmissionFrame ==
  ASSUME RoomGrows, room.revision \in Nat, room'.revision \in Nat,
         NEW e, NEW em, EmissionFact(e, em)
  PROVE  EmissionFact(e, em)'
<1>1. /\ room.revision <= room'.revision /\ (room'.revision = room.revision => room' = room)
      /\ responses \subseteq responses'
  BY DEF RoomGrows
<1>2. em.stage \in {"sent", "received", "ready"} => em.expected \in 0..room'.revision
  BY <1>1 DEF EmissionFact
<1>3. ASSUME em.stage = "ready", em.expected = room'.revision PROVE em.elapsed = Elapsed(em.at)'
  <2>1. em.expected \in 0..room.revision
    BY <1>3 DEF EmissionFact
  <2>2. room' = room
    BY <1>1, <1>3, <2>1
  <2> QED
    BY <1>3, <2>2 DEF EmissionFact, Elapsed
<1>4. em.stage \in {"saved", "replied"} => SavedKey(e[1])'
  BY <1>1 DEF EmissionFact, SavedKey
<1>5. em.stage = "replied" => SnapStands(em.snap)'
  BY <1>1, SnapFrame DEF EmissionFact
<1> QED
  BY <1>2, <1>3, <1>4, <1>5 DEF EmissionFact, Exact

\* What was told of a submission stays so while nothing is saved under its key.
LEMMA KeyFrame ==
  ASSUME NEW k, NEW c, NEW f, KeyFact(k, c, f), responses \subseteq responses',
         \A a \in responses' : a \in responses \/ a.p # Me \/ a.key # k
  PROVE  KeyFact(k, c, f)'
<1>1. SavedKey(k)' <=> SavedKey(k)
  BY DEF SavedKey
<1>2. \A b : AnsweredBlock(b) => AnsweredBlock(b)'
  BY DEF AnsweredBlock
<1>3. c.sub.key = k => \A a \in responses' : a.p = Me /\ a.key = k => a.block = c.sub.block
  BY DEF KeyFact
<1> QED
  BY <1>1, <1>2, <1>3 DEF KeyFact, InFlight

-------------------------------------------------------------------------------
(* Two kinds of step: the room's, and those that leave the room alone.        *)

\* What is in flight afterwards was in flight, or is the submission emitted again.
EmissionsGo(c, d, f, g) ==
    \A e \in Emissions :
        /\ InFlight(g[e]) =>
              \/ InFlight(f[e]) /\ g[e].block = f[e].block
              \/ SameSubmission(c, d) /\ c.sub.key = e[1] /\ g[e].block = c.sub.block
        /\ f[e].stage = "none" =>
              g[e].stage = "none" \/ (SameSubmission(c, d) /\ c.sub.key = e[1])

\* What the page tells of its submissions follows from what it was shown: one whose
\* question another answer of the participant settles was not saved and cannot be.
LEMMA KeysGo ==
  ASSUME AnswersAreTimely, NEW k \in Keys, NEW c, NEW d, NEW f, NEW g, PageStands(c),
         KeyFact(k, c, f), SubmissionGoes(c, d), EmissionsGo(c, d, f, g)
  PROVE  KeyFact(k, d, g)
<1>1. k # None /\ None \notin {"saved", "different", "failed"}
  BY AnswersAssumption
<1>2. CASE SameSubmission(c, d)
  <2>1. d.told = c.told /\ d.sub.key = c.sub.key /\ d.sub.block = c.sub.block
    BY <1>2 DEF SameSubmission
  <2>2. CASE c.sub.key = k
    <3>1. c.told[k] = None
      BY <2>2 DEF KeyFact
    <3>2. \A e \in Emissions : e[1] = k /\ InFlight(g[e]) => g[e].block = d.sub.block
      BY <2>1, <2>2 DEF KeyFact, EmissionsGo
    <3> QED
      BY <1>1, <2>1, <2>2, <3>1, <3>2 DEF KeyFact
  <2>3. CASE c.sub.key # k
    <3>1. \A e \in Emissions : e[1] = k =>
             /\ InFlight(g[e]) => InFlight(f[e]) /\ g[e].block = f[e].block
             /\ f[e].stage = "none" => g[e].stage = "none"
      BY <2>3 DEF EmissionsGo
    <3> QED
      BY <2>1, <2>3, <3>1 DEF KeyFact
  <2> QED
    BY <2>2, <2>3
<1>3. CASE ~SameSubmission(c, d) /\ EndsSubmission(c, d)
  <2>1. PICK told : Truthful(c, told) /\ d.told = [c.told EXCEPT ![c.sub.key] = told]
    BY <1>3 DEF EndsSubmission
  <2>2. d.sub.key = None /\ c.told \in [Keys -> {None, "saved", "different", "failed"}]
    BY <1>3 DEF EndsSubmission, NoSubmission, PageStands
  <2>3. \A e \in Emissions : /\ InFlight(g[e]) => InFlight(f[e]) /\ g[e].block = f[e].block
                             /\ f[e].stage = "none" => g[e].stage = "none"
    BY <1>3 DEF EmissionsGo
  <2>4. CASE c.sub.key = k
    <3>1. d.told[k] = told /\ told # None
      BY <1>1, <2>1, <2>2, <2>4 DEF Truthful
    <3>2. told = "saved" => SavedKey(k)
      BY <2>1, <2>4 DEF Truthful
    <3>3. ASSUME told = "different"
          PROVE  /\ ~SavedKey(k)
                 /\ \A e \in Emissions : e[1] = k /\ InFlight(g[e]) => AnsweredBlock(g[e].block)
      <4>1. PICK other : other # k /\ MineSaved(c.sub.block, other)
        BY <2>1, <2>4, <3>3 DEF Truthful
      <4>2. PICK b \in responses : b.p = Me /\ b.key = other /\ b.block = c.sub.block
        BY <4>1 DEF MineSaved
      <4>3. ASSUME NEW a \in responses, a.p = Me, a.key = k PROVE FALSE
        <5>1. a.block = c.sub.block
          BY <2>4, <4>3 DEF KeyFact
        <5>2. a = b
          BY <4>2, <4>3, <5>1 DEF AnswersAreTimely
        <5> QED
          BY <4>1, <4>2, <4>3, <5>2
      <4>4. \A e \in Emissions : e[1] = k /\ InFlight(g[e]) => g[e].block = c.sub.block
        BY <2>3, <2>4 DEF KeyFact
      <4> QED
        BY <4>2, <4>3, <4>4 DEF SavedKey, AnsweredBlock
    <3> QED
      BY <1>1, <2>2, <3>1, <3>2, <3>3 DEF KeyFact
  <2>5. CASE c.sub.key # k
    <3>1. d.told[k] = c.told[k]
      BY <2>1, <2>2, <2>5
    <3> QED
      BY <1>1, <2>2, <2>3, <2>5, <3>1 DEF KeyFact
  <2> QED
    BY <2>4, <2>5
<1> QED
  BY <1>2, <1>3 DEF SubmissionGoes

\* The moments known are at numbers that the room has.
LEMMA KnownNumbers ==
  ASSUME RoomStands, MomentsStand
  PROVE  /\ room.revision \in Nat
         /\ \A x \in Known : x.seq \in Nat /\ x.rev \in Nat /\ x.closes \in Nat \cup {None}
         /\ \A x \in Known : x.rev <= room.revision
         /\ reading # NoReading => reading.row.revision \in Nat /\ reading.seq \in Nat
<1>1. room.revision \in Nat
  <2>1. \A S, s : s \in Seq(S) => Len(s) \in Nat
    BY LenProperties
  <2> QED
    BY <2>1 DEF RoomStands, IsTimeline, LastEntryIsNow
<1>2. EventSeq(room, roster, responses) \in Nat
  BY <1>1, FS_CardinalityType DEF RoomStands, EventSeq
<1>3. \A x \in Known : /\ x.seq \in Nat /\ x.rev \in Nat /\ x.closes \in Nat \cup {None}
                       /\ x.rev <= room.revision
  BY <1>1, <1>2 DEF MomentsStand, Past
<1>4. reading # NoReading => ReadingMoment \in Known
  BY DEF Known
<1>5. ReadingMoment.seq = reading.seq /\ ReadingMoment.rev = reading.row.revision
  BY DEF ReadingMoment
<1> QED
  BY <1>1, <1>3, <1>4, <1>5

\* A step of the room leaves the page's record true.
LEMMA RoomStep ==
  ASSUME PresentationIInv, RoomGrows, AnswersAreTimely', UNCHANGED answersVars,
         \A a \in responses' : a \in responses \/ a.p # Me
  PROVE  PresentationIInv'
<1> USE DEF PresentationIInv
<1>1. /\ client' = client /\ reading' = reading /\ mail' = mail /\ emission' = emission
      /\ reconc' = reconc
  BY DEF answersVars
<1>2. RoomStands' /\ responses \subseteq responses' /\ room.revision <= room'.revision
  BY DEF RoomGrows
<1>3. /\ room.revision \in Nat
      /\ reading # NoReading => reading.row.revision \in Nat /\ reading.seq \in Nat
  BY KnownNumbers
<1>4. room'.revision \in Nat
  <2>1. \A S, s : s \in Seq(S) => Len(s) \in Nat
    BY LenProperties
  <2> QED
    BY <1>2, <2>1 DEF RoomStands, IsTimeline, LastEntryIsNow
<1>5. Known' \subseteq Known \cup {Now, Now'}
  BY <1>1 DEF Known, ReadingMoment, EmissionAt
<1>6. MomentsStand'
  BY <1>5, MomentsStay
<1>7. PageStands(client)'
  <2>1. PICK c : c = client
    OBVIOUS
  <2>2. PageStands(c)'
    BY <1>2, <2>1, PageFrame
  <2> QED
    BY <1>1, <2>1, <2>2 DEF PageStands, MineSaved
<1>8. SubStands'
  BY <1>1, <1>2, <1>3, <1>4 DEF SubStands
<1>9. ReadingFact(reading)'
  <2>1. PICK r : r = reading
    OBVIOUS
  <2>2. ReadingFact(r)'
    BY <1>3, <2>1, ReadingFrame
  <2> QED
    BY <1>1, <2>1, <2>2 DEF ReadingFact
<1>10. ASSUME NEW m \in mail' PROVE MailFact(m)'
  BY <1>1, <1>2, MailFrame
<1>11. ASSUME NEW e \in Emissions PROVE EmissionFact(e, emission[e])'
  <2>1. PICK em : em = emission[e]
    OBVIOUS
  <2>2. EmissionFact(e, em)
    BY <2>1 DEF EmissionsStand
  <2>3. EmissionFact(e, em)'
    BY <1>3, <1>4, <2>2, EmissionFrame
  <2> QED
    BY <1>1, <2>1, <2>3
<1>12. ASSUME NEW k \in Keys PROVE KeyFact(k, client, emission)'
  <2>1. PICK c, f : c = client /\ f = emission
    OBVIOUS
  <2>2. KeyFact(k, c, f)
    BY <2>1 DEF KeysStand
  <2>3. KeyFact(k, c, f)'
    BY <1>2, <2>2, KeyFrame
  <2> QED
    BY <1>1, <2>1, <2>3
<1> QED
  BY <1>1, <1>2, <1>6, <1>7, <1>8, <1>9, <1>10, <1>11, <1>12 DEF EmissionsStand, KeysStand

\* So does a step that leaves the room alone, when what it brings was of some moment
\* and what it tells is so.
LEMMA LocalFrame ==
  ASSUME PresentationIInv, UNCHANGED << room, timeline, roster, responses, clock >>,
         PageStands(client'),
         client'.sub.key # None => client'.sub.expected \in 0..room.revision,
         ReadingFact(reading'), \A m \in mail' : MailFact(m),
         DOMAIN emission' = Emissions, \A e \in Emissions : EmissionFact(e, emission'[e]),
         Known' \subseteq Known \cup {Now}, \A k \in Keys : KeyFact(k, client', emission')
  PROVE  PresentationIInv'
<1> USE DEF PresentationIInv
<1>1. RoomGrows
  BY RoomGoes DEF RoomKept
<1>2. RoomStands' /\ MomentsStand'
  BY <1>1, MomentsStay DEF RoomGrows
<1>3. AnswersAreTimely'
  BY DEF AnswersAreTimely
<1>4. PageStands(client)'
  BY DEF PageStands, MineSaved
<1>5. SubStands'
  BY DEF SubStands
<1>6. ReadingFact(reading)'
  BY DEF ReadingFact
<1>7. ASSUME NEW m \in mail' PROVE MailFact(m)'
  BY <1>1, MailFrame DEF RoomGrows
<1>8. ASSUME NEW e \in Emissions PROVE EmissionFact(e, emission[e])'
  <2>1. PICK em : em = emission'[e]
    OBVIOUS
  <2>2. room.revision \in Nat
    BY KnownNumbers
  <2>3. EmissionFact(e, em)'
    BY <1>1, <2>1, <2>2, EmissionFrame
  <2> QED
    BY <2>1, <2>3
<1>9. ASSUME NEW k \in Keys PROVE KeyFact(k, client, emission)'
  <2>1. PICK d, g : d = client' /\ g = emission'
    OBVIOUS
  <2>2. KeyFact(k, d, g)'
    BY <2>1, KeyFrame
  <2> QED
    BY <2>1, <2>2
<1> QED
  BY <1>2, <1>3, <1>4, <1>5, <1>6, <1>7, <1>8, <1>9 DEF EmissionsStand, KeysStand

\* In particular one in which the submission under way goes on or ends truthfully.
LEMMA LocalStep ==
  ASSUME PresentationIInv, UNCHANGED << room, timeline, roster, responses, clock >>,
         PageStands(client'), SubmissionGoes(client, client'),
         EmissionsGo(client, client', emission, emission'),
         ReadingFact(reading'), \A m \in mail' : MailFact(m),
         DOMAIN emission' = Emissions, \A e \in Emissions : EmissionFact(e, emission'[e]),
         Known' \subseteq Known \cup {Now}
  PROVE  PresentationIInv'
<1>1. client'.sub.key # None => client'.sub.expected \in 0..room.revision
  <2>1. CASE SameSubmission(client, client')
    BY <2>1 DEF SameSubmission, PresentationIInv, SubStands
  <2>2. CASE EndsSubmission(client, client')
    BY <2>2 DEF EndsSubmission, NoSubmission
  <2> QED
    BY <2>1, <2>2 DEF SubmissionGoes
<1>2. ASSUME NEW k \in Keys PROVE KeyFact(k, client', emission')
  <2>1. PICK c, d, f, g : c = client /\ d = client' /\ f = emission /\ g = emission'
    OBVIOUS
  <2>2. KeyFact(k, d, g)
    BY <2>1, KeysGo DEF PresentationIInv, KeysStand
  <2> QED
    BY <2>1, <2>2
<1> QED
  BY <1>1, <1>2, LocalFrame

-------------------------------------------------------------------------------
(* The server's readings and submissions.                                     *)

\* A page that stays, with nothing new in flight.
LEMMA QuietPage ==
  ASSUME UNCHANGED << client, emission >>
  PROVE  SubmissionGoes(client, client') /\ EmissionsGo(client, client', emission, emission')
  BY DEF SubmissionGoes, SameSubmission, EmissionsGo

\* A snapshot of saved answers shows saved answers.
LEMMA SnapshotStands ==
  ASSUME NEW r, NEW seq, NEW joined, NEW answers, answers \subseteq responses,
         r.closes \in Nat \cup {None}, clock \in Nat
  PROVE  /\ SnapStands(Snapshot(r, seq, joined, answers))
         /\ Moment(Snapshot(r, seq, joined, answers)) =
               [seq |-> seq, rev |-> r.revision, phase |-> r.phase, closes |-> r.closes]
         /\ Exact(Snapshot(r, seq, joined, answers)) <=>
               seq = r.revision + Cardinality(joined) + Cardinality(answers)
<1> DEFINE s == Snapshot(r, seq, joined, answers)
<1>1. s = [seq |-> seq, rev |-> r.revision, joined |-> Cardinality(joined),
           answers |-> Cardinality(answers), phase |-> r.phase, block |-> CurrentId(r),
           mine |-> MineAmong(r, answers), closes |-> r.closes, at |-> clock,
           accepting |-> r.phase = "question_open" /\ (r.closes = None \/ clock <= r.closes)]
  BY DEF Snapshot
<1> HIDE DEF s
<1>2. /\ s.seq = seq /\ s.rev = r.revision /\ s.joined = Cardinality(joined)
      /\ s.answers = Cardinality(answers) /\ s.phase = r.phase /\ s.block = CurrentId(r)
      /\ s.mine = MineAmong(r, answers) /\ s.closes = r.closes /\ s.at = clock
      /\ s = [seq |-> s.seq, rev |-> s.rev, joined |-> s.joined, answers |-> s.answers,
              phase |-> s.phase, block |-> s.block, mine |-> s.mine, closes |-> s.closes,
              at |-> s.at, accepting |-> s.accepting]
  BY <1>1
<1>3. s.accepting = (r.phase = "question_open" /\ (r.closes = None \/ clock <= r.closes))
  BY <1>1, Zenon
<1>4. s.accepting \in BOOLEAN
      /\ (s.accepting <=> s.phase = "question_open" /\ (s.closes = None \/ s.at <= s.closes))
  BY <1>2, <1>3
<1>5. \A k \in s.mine : MineSaved(s.block, k)
  BY <1>2 DEF MineAmong, MineSaved
<1>6. SnapStands(s)
  BY <1>2, <1>4, <1>5 DEF SnapStands
<1>7. Moment(s) = [seq |-> seq, rev |-> r.revision, phase |-> r.phase, closes |-> r.closes]
  BY <1>2 DEF Moment
<1>8. Exact(s) <=> seq = r.revision + Cardinality(joined) + Cardinality(answers)
  BY <1>2 DEF Exact
<1> QED
  BY <1>6, <1>7, <1>8 DEF s

\* A reading starts with a row and its sequence.
LEMMA ReadingStarts ==
  ASSUME PresentationIInv, UNCHANGED << room, timeline, roster, responses, clock >>,
         UNCHANGED << client, emission, mail >>, NEW for \in {"sync", "broadcast", "rest"},
         NEW attempt,
         reading' = [for |-> for, row |-> room, seq |-> EventSeq(room, roster, responses),
                     data |-> None, attempt |-> attempt]
  PROVE  PresentationIInv'
<1> USE DEF PresentationIInv
<1>1. /\ reading'.for = for /\ reading'.row = room /\ reading'.data = None
      /\ reading'.seq = EventSeq(room, roster, responses) /\ reading'.attempt = attempt
  OBVIOUS
<1>2. /\ room.revision \in Nat /\ Cardinality(roster) \in Nat /\ Cardinality(responses) \in Nat
  BY KnownNumbers, FS_CardinalityType DEF RoomStands
<1>3. ReadingFact(reading')
  BY <1>1, <1>2 DEF ReadingFact, EventSeq
<1>4. ReadingMoment' = Now
  BY <1>1 DEF ReadingMoment, Now
<1>5. Known' \subseteq Known \cup {Now}
  BY <1>4 DEF Known, Now, EmissionAt
<1> QED
  BY <1>3, <1>5, QuietPage, LocalStep DEF EmissionsStand

\* The reading is posted as a snapshot, or nothing is.
LEMMA ReadingPosted ==
  ASSUME PresentationIInv, UNCHANGED << room, timeline, roster, responses, clock >>,
         UNCHANGED << client, emission >>, NEW snap, Post(snap), reading # NoReading,
         \/ snap = None /\ reading.for # "rest"
         \/ /\ SnapStands(snap) /\ Moment(snap) = ReadingMoment
            /\ reading.for = "rest" \/ Exact(snap)
  PROVE  PresentationIInv'
<1> USE DEF PresentationIInv
<1> DEFINE m == [for |-> reading.for, snap |-> snap]
<1>1. mail' = mail \cup {m} /\ reading' = NoReading
  BY DEF Post
<1>2. m.for = reading.for /\ m.snap = snap
  OBVIOUS
<1> HIDE DEF m
<1>3. MailFact(m)
  BY <1>2 DEF MailFact, Readable
<1>4. ReadingMoment \in Known
  BY DEF Known
<1>5. Readable(m) => Moment(m.snap) \in Known
  BY <1>2, <1>4 DEF Readable
<1>6. Known' \subseteq Known \cup {Now}
  <2>1. Now' = Now
    BY DEF Now
  <2>2. ASSUME NEW x \in Known' PROVE x \in Known
    <3>1. \/ x = Now \/ x = Moment(client.view)
          \/ \E n \in mail' : Readable(n) /\ x = Moment(n.snap)
          \/ \E e \in Emissions : EmissionAt(e, "replied") /\ x = Moment(emission[e].snap)
      BY <1>1, <2>1 DEF Known, EmissionAt
    <3>2. CASE x = Now \/ x = Moment(client.view)
               \/ \E e \in Emissions : EmissionAt(e, "replied") /\ x = Moment(emission[e].snap)
      BY <3>2 DEF Known
    <3>3. ASSUME NEW n \in mail', Readable(n), x = Moment(n.snap) PROVE x \in Known
      <4>1. CASE n = m
        BY <1>5, <3>3, <4>1
      <4>2. CASE n \in mail
        BY <3>3, <4>2 DEF Known
      <4> QED
        BY <1>1, <3>3, <4>1, <4>2
    <3> QED
      BY <3>1, <3>2, <3>3
  <2> QED
    BY <2>2
<1>7. ReadingFact(reading')
  BY <1>1 DEF ReadingFact
<1> QED
  BY <1>1, <1>3, <1>6, <1>7, QuietPage, LocalStep DEF EmissionsStand

\* Every step of a reading. One that is confirmed counts what it shows, because
\* nothing that it counts is ever taken away.
LEMMA ReadingSteps ==
  ASSUME PresentationIInv,
         (\E for \in {"sync", "broadcast", "rest"} : StartReading(for)) \/ ReadData \/ Confirm
  PROVE  PresentationIInv' /\ UNCHANGED client
<1> USE DEF PresentationIInv
<1>1. ASSUME NEW for \in {"sync", "broadcast", "rest"}, StartReading(for)
      PROVE  PresentationIInv' /\ UNCHANGED client
  BY <1>1, ReadingStarts DEF StartReading, roomVars
<1>2. CASE ReadData
  <2>1. /\ UNCHANGED << room, timeline, roster, responses, clock >>
        /\ UNCHANGED << client, emission, mail >> /\ reading # NoReading
    BY <1>2 DEF ReadData, roomVars
  <2>2. reading' = [reading EXCEPT !.data = [joined |-> roster, answers |-> responses]]
        /\ reading.data = None
    BY <1>2 DEF ReadData
  <2>3. reading = [for |-> reading.for, row |-> reading.row, seq |-> reading.seq,
                   data |-> reading.data, attempt |-> reading.attempt]
        /\ reading.for \in {"sync", "broadcast", "rest"}
        /\ reading.seq <= reading.row.revision + Cardinality(roster) + Cardinality(responses)
    BY <2>1, <2>2 DEF ReadingFact
  <2>4. /\ reading'.for = reading.for /\ reading'.row = reading.row /\ reading'.seq = reading.seq
        /\ reading'.data = [joined |-> roster, answers |-> responses]
        /\ reading'.attempt = reading.attempt
        /\ reading' = [for |-> reading'.for, row |-> reading'.row, seq |-> reading'.seq,
                       data |-> reading'.data, attempt |-> reading'.attempt]
    BY <2>2, <2>3
  <2>5. reading'.data.joined = roster /\ reading'.data.answers = responses
    BY <2>4
  <2>6. ReadingFact(reading')
    BY <2>3, <2>4, <2>5 DEF ReadingFact
  <2>7. ReadingMoment' = ReadingMoment
    BY <2>4 DEF ReadingMoment
  <2>8. Known' \subseteq Known \cup {Now}
    BY <2>1, <2>7 DEF Known, Now, EmissionAt
  <2> QED
    BY <2>1, <2>6, <2>8, QuietPage, LocalStep DEF EmissionsStand
<1>3. CASE Confirm
  <2> DEFINE s == Snapshot(reading.row, reading.seq, reading.data.joined, reading.data.answers)
  <2>1. /\ UNCHANGED << room, timeline, roster, responses, clock >>
        /\ UNCHANGED << client, emission >> /\ reading # NoReading /\ reading.data # None
    BY <1>3 DEF Confirm, roomVars
  <2>2. /\ reading.for \in {"sync", "broadcast", "rest"}
        /\ reading.data.joined \subseteq roster /\ reading.data.answers \subseteq responses
        /\ reading.seq <= reading.row.revision + Cardinality(reading.data.joined)
                             + Cardinality(reading.data.answers)
    BY <2>1 DEF ReadingFact
  <2>3. /\ reading.row.revision \in Nat /\ reading.seq \in Nat /\ room.revision \in Nat
        /\ reading.row.revision <= room.revision /\ reading.row.closes \in Nat \cup {None}
    <3>1. ReadingMoment \in Known
      BY <2>1 DEF Known
    <3>2. ReadingMoment.rev = reading.row.revision /\ ReadingMoment.closes = reading.row.closes
      BY DEF ReadingMoment
    <3> QED
      BY <2>1, <3>1, <3>2, KnownNumbers
  <2>4. SnapStands(s) /\ Moment(s) = ReadingMoment
        /\ (Exact(s) <=> reading.seq = reading.row.revision + Cardinality(reading.data.joined)
                                          + Cardinality(reading.data.answers))
    BY <2>2, <2>3, SnapshotStands DEF RoomStands, ReadingMoment
  <2> HIDE DEF s
  <2>5. ASSUME EventSeq(room, roster, responses) = reading.seq PROVE Exact(s)
    <3>1. /\ Cardinality(roster) \in Nat /\ Cardinality(reading.data.joined) \in Nat
          /\ Cardinality(reading.data.joined) <= Cardinality(roster)
      BY <2>2, CountsGrow DEF RoomStands
    <3>2. /\ Cardinality(responses) \in Nat /\ Cardinality(reading.data.answers) \in Nat
          /\ Cardinality(reading.data.answers) <= Cardinality(responses)
      BY <2>2, CountsGrow DEF RoomStands
    <3>3. reading.seq = room.revision + Cardinality(roster) + Cardinality(responses)
      BY <2>5 DEF EventSeq
    <3>4. reading.seq = reading.row.revision + Cardinality(reading.data.joined)
                           + Cardinality(reading.data.answers)
      BY <2>2, <2>3, <3>1, <3>2, <3>3
    <3> QED
      BY <2>4, <3>4
  <2>6. CASE reading.for = "rest" \/ EventSeq(room, roster, responses) = reading.seq
    <3>1. Post(s)
      BY <1>3, <2>6 DEF Confirm, s
    <3> QED
      BY <2>1, <2>4, <2>5, <2>6, <3>1, ReadingPosted
  <2>7. CASE ~(reading.for = "rest" \/ EventSeq(room, roster, responses) = reading.seq)
             /\ reading.attempt < ReadAttempts
    <3>1. /\ reading' = [reading EXCEPT !.row = room, !.data = None, !.attempt = @ + 1,
                                        !.seq = EventSeq(room, roster, responses)]
          /\ UNCHANGED mail
      BY <1>3, <2>7 DEF Confirm
    <3>2. reading = [for |-> reading.for, row |-> reading.row, seq |-> reading.seq,
                     data |-> reading.data, attempt |-> reading.attempt]
      BY <2>1 DEF ReadingFact
    <3>3. reading' = [for |-> reading.for, row |-> room,
                      seq |-> EventSeq(room, roster, responses), data |-> None,
                      attempt |-> reading.attempt + 1]
      BY <3>1, <3>2
    <3> QED
      BY <2>1, <2>2, <3>1, <3>3, ReadingStarts
  <2>8. CASE ~(reading.for = "rest" \/ EventSeq(room, roster, responses) = reading.seq)
             /\ ~(reading.attempt < ReadAttempts)
    <3>1. Post(None)
      BY <1>3, <2>8 DEF Confirm
    <3> QED
      BY <2>1, <2>8, <3>1, ReadingPosted
  <2> QED
    BY <2>6, <2>7, <2>8
<1> QED
  BY <1>1, <1>2, <1>3

\* One emission becomes em, and the others stay.
LEMMA OneEmission ==
  ASSUME DOMAIN emission = Emissions, NEW e \in Emissions, NEW em,
         emission' = [emission EXCEPT ![e] = em]
  PROVE  /\ DOMAIN emission' = Emissions /\ emission'[e] = em
         /\ \A o \in Emissions : o # e => emission'[o] = emission[o]
  OBVIOUS

\* A server's step of one emission that saves nothing.
LEMMA EmissionStep ==
  ASSUME PresentationIInv, UNCHANGED << room, timeline, roster, responses, clock >>,
         UNCHANGED << client, reading, mail >>, NEW e \in Emissions, NEW em,
         emission' = [emission EXCEPT ![e] = em], EmissionFact(e, em),
         emission[e].stage # "none",
         InFlight(em) => InFlight(emission[e]) /\ em.block = emission[e].block,
         em.stage = "replied" => Moment(em.snap) = Now
  PROVE  PresentationIInv'
<1> USE DEF PresentationIInv
<1>1. /\ DOMAIN emission' = Emissions /\ emission'[e] = em
      /\ \A o \in Emissions : o # e => emission'[o] = emission[o]
  BY OneEmission DEF EmissionsStand
<1>2. EmissionsGo(client, client', emission, emission')
  BY <1>1 DEF EmissionsGo
<1>3. SubmissionGoes(client, client')
  BY DEF SubmissionGoes, SameSubmission
<1>4. \A o \in Emissions : EmissionFact(o, emission'[o])
  BY <1>1 DEF EmissionsStand
<1>5. Known' \subseteq Known \cup {Now}
  <2>1. Now' = Now
    BY DEF Now
  <2>2. ASSUME NEW x \in Known' PROVE x \in Known \cup {Now}
    <3>1. \/ x = Now \/ x = Moment(client.view) \/ \E n \in mail : Readable(n) /\ x = Moment(n.snap)
          \/ reading # NoReading /\ x = ReadingMoment
          \/ \E o \in Emissions : emission'[o].stage = "replied" /\ x = Moment(emission'[o].snap)
      BY <2>1 DEF Known, EmissionAt, ReadingMoment
    <3>2. ASSUME NEW o \in Emissions, emission'[o].stage = "replied", x = Moment(emission'[o].snap)
          PROVE  x \in Known \cup {Now}
      BY <1>1, <3>2 DEF Known, EmissionAt
    <3> QED
      BY <3>1, <3>2 DEF Known
  <2> QED
    BY <2>2
<1> QED
  BY <1>1, <1>2, <1>3, <1>4, <1>5, LocalStep

\* An emission at another stage, with one more of its fields changed.
WithAt(em, stage, x) == [em EXCEPT !.stage = stage, !.at = x]
WithElapsed(em, stage, x) == [em EXCEPT !.stage = stage, !.elapsed = x]
WithSnap(em, stage, x) == [em EXCEPT !.stage = stage, !.snap = x]

\* An emission whose record is well formed keeps its form.
LEMMA EmissionFields ==
  ASSUME NEW em, NEW stage, NEW x,
         em = [stage |-> em.stage, block |-> em.block, expected |-> em.expected, at |-> em.at,
               elapsed |-> em.elapsed, snap |-> em.snap]
  PROVE  /\ WithAt(em, stage, x) =
               [stage |-> stage, block |-> em.block, expected |-> em.expected, at |-> x,
                elapsed |-> em.elapsed, snap |-> em.snap]
         /\ WithElapsed(em, stage, x) =
               [stage |-> stage, block |-> em.block, expected |-> em.expected, at |-> em.at,
                elapsed |-> x, snap |-> em.snap]
         /\ WithSnap(em, stage, x) =
               [stage |-> stage, block |-> em.block, expected |-> em.expected, at |-> em.at,
                elapsed |-> em.elapsed, snap |-> x]
<1>1. PICK y : y = [em EXCEPT !.stage = stage]
  OBVIOUS
<1>2. y = [stage |-> stage, block |-> em.block, expected |-> em.expected, at |-> em.at,
           elapsed |-> em.elapsed, snap |-> em.snap]
  BY <1>1
<1>3. [y EXCEPT !.at = x] =
         [stage |-> stage, block |-> em.block, expected |-> em.expected, at |-> x,
          elapsed |-> em.elapsed, snap |-> em.snap]
  BY <1>2
<1>4. [y EXCEPT !.elapsed = x] =
         [stage |-> stage, block |-> em.block, expected |-> em.expected, at |-> em.at,
          elapsed |-> x, snap |-> em.snap]
  BY <1>2
<1>5. [y EXCEPT !.snap = x] =
         [stage |-> stage, block |-> em.block, expected |-> em.expected, at |-> em.at,
          elapsed |-> em.elapsed, snap |-> x]
  BY <1>2
<1> QED
  BY <1>1, <1>3, <1>4, <1>5 DEF WithAt, WithElapsed, WithSnap

\* A submission is received, read in its context, answered or fails.
LEMMA SubmissionSteps ==
  ASSUME PresentationIInv, NEW e \in Emissions,
         \/ ReceiveSubmission(e) \/ ReadContext(e) \/ ReadAcknowledgement(e) \/ SubmissionFails(e)
  PROVE  PresentationIInv' /\ UNCHANGED client
<1> USE DEF PresentationIInv
<1>1. /\ UNCHANGED << room, timeline, roster, responses, clock >>
      /\ UNCHANGED << client, reading, mail >>
  BY DEF ReceiveSubmission, ReadContext, ReadAcknowledgement, SubmissionFails, SubmissionKeeps
<1>2. PICK em : em = emission[e]
  OBVIOUS
<1>3. EmissionFact(e, em) /\ DOMAIN emission = Emissions
  BY <1>2 DEF EmissionsStand
<1>4. em = [stage |-> em.stage, block |-> em.block, expected |-> em.expected, at |-> em.at,
            elapsed |-> em.elapsed, snap |-> em.snap]
  BY <1>3 DEF EmissionFact
<1>5. CASE ReceiveSubmission(e)
  <2> DEFINE en == [em EXCEPT !.stage = "received", !.at = clock]
  <2>1. em.stage = "sent" /\ emission' = [emission EXCEPT ![e] = en]
    BY <1>2, <1>3, <1>5 DEF ReceiveSubmission, EmissionAt
  <2>2. /\ en.stage = "received" /\ en.block = em.block /\ en.expected = em.expected
        /\ en.at = clock /\ en.snap = em.snap /\ en.elapsed = em.elapsed
        /\ en = [stage |-> en.stage, block |-> en.block, expected |-> en.expected, at |-> en.at,
                 elapsed |-> en.elapsed, snap |-> en.snap]
    <3>0. en = WithAt(em, "received", clock)
      BY DEF WithAt
    <3>1. en = [stage |-> "received", block |-> em.block, expected |-> em.expected, at |-> clock,
                elapsed |-> em.elapsed, snap |-> em.snap]
      BY <1>4, <3>0, EmissionFields
    <3> HIDE DEF en
    <3> QED
      BY <3>1
  <2> HIDE DEF en
  <2>3. EmissionFact(e, en)
    BY <1>3, <2>1, <2>2 DEF EmissionFact, RoomStands
  <2> QED
    BY <1>1, <1>2, <2>1, <2>2, <2>3, EmissionStep DEF InFlight
<1>6. CASE ReadContext(e)
  <2> DEFINE stage == IF em.at >= LiveExpiresAt THEN "refused" ELSE "ready"
             en == [em EXCEPT !.stage = stage, !.elapsed = Elapsed(em.at)]
  <2>1. em.stage = "received" /\ emission' = [emission EXCEPT ![e] = en]
    BY <1>2, <1>3, <1>6 DEF ReadContext, EmissionAt
  <2>2. stage \in {"ready", "refused"}
    OBVIOUS
  <2> HIDE DEF stage
  <2>3. /\ en.stage = stage /\ en.block = em.block /\ en.expected = em.expected
        /\ en.at = em.at /\ en.snap = em.snap /\ en.elapsed = Elapsed(em.at)
        /\ en = [stage |-> en.stage, block |-> en.block, expected |-> en.expected, at |-> en.at,
                 elapsed |-> en.elapsed, snap |-> en.snap]
    <3>0. en = WithElapsed(em, stage, Elapsed(em.at))
      BY DEF WithElapsed
    <3>1. en = [stage |-> stage, block |-> em.block, expected |-> em.expected, at |-> em.at,
                elapsed |-> Elapsed(em.at), snap |-> em.snap]
      BY <1>4, <3>0, EmissionFields
    <3> HIDE DEF en
    <3> QED
      BY <3>1
  <2> HIDE DEF en
  <2>4. EmissionFact(e, en)
    BY <1>3, <2>1, <2>2, <2>3 DEF EmissionFact
  <2> QED
    BY <1>1, <1>2, <2>1, <2>2, <2>3, <2>4, EmissionStep DEF InFlight
<1>7. CASE ReadAcknowledgement(e)
  <2> DEFINE en == [em EXCEPT !.stage = "replied", !.snap = SnapshotNow]
  <2>1. em.stage = "saved" /\ emission' = [emission EXCEPT ![e] = en]
    BY <1>2, <1>3, <1>7 DEF ReadAcknowledgement, EmissionAt
  <2>2. /\ en.stage = "replied" /\ en.block = em.block /\ en.expected = em.expected
        /\ en.at = em.at /\ en.snap = SnapshotNow /\ en.elapsed = em.elapsed
        /\ en = [stage |-> en.stage, block |-> en.block, expected |-> en.expected, at |-> en.at,
                 elapsed |-> en.elapsed, snap |-> en.snap]
    <3>0. en = WithSnap(em, "replied", SnapshotNow)
      BY DEF WithSnap
    <3>1. en = [stage |-> "replied", block |-> em.block, expected |-> em.expected, at |-> em.at,
                elapsed |-> em.elapsed, snap |-> SnapshotNow]
      BY <1>4, <3>0, EmissionFields
    <3> HIDE DEF en
    <3> QED
      BY <3>1
  <2> HIDE DEF en
  <2>3. SnapStands(SnapshotNow) /\ Moment(SnapshotNow) = Now /\ Exact(SnapshotNow)
    BY SnapshotStands DEF SnapshotNow, RoomStands, Now, EventSeq
  <2>4. EmissionFact(e, en)
    BY <1>3, <2>1, <2>2, <2>3 DEF EmissionFact
  <2> QED
    BY <1>1, <1>2, <2>1, <2>2, <2>3, <2>4, EmissionStep DEF InFlight
<1>8. CASE SubmissionFails(e)
  <2> DEFINE en == [em EXCEPT !.stage = "refused"]
  <2>1. em.stage \in {"received", "ready", "saved"} /\ emission' = [emission EXCEPT ![e] = en]
    BY <1>2, <1>3, <1>8 DEF SubmissionFails
  <2>2. /\ en.stage = "refused" /\ en.block = em.block /\ en.expected = em.expected
        /\ en.at = em.at /\ en.snap = em.snap /\ en.elapsed = em.elapsed
        /\ en = [stage |-> en.stage, block |-> en.block, expected |-> en.expected, at |-> en.at,
                 elapsed |-> en.elapsed, snap |-> en.snap]
    BY <1>4
  <2> HIDE DEF en
  <2>3. EmissionFact(e, en)
    BY <1>3, <2>1, <2>2 DEF EmissionFact
  <2> QED
    BY <1>1, <1>2, <2>1, <2>2, <2>3, EmissionStep DEF InFlight
<1> QED
  BY <1>1, <1>5, <1>6, <1>7, <1>8

\* acceptResponse: an answer is saved once, in the window of the question that it was
\* given to, and never for a submission that another answer had settled.
LEMMA AcceptStep ==
  ASSUME PresentationIInv, NEW e \in Emissions, AcceptResponse(e)
  PROVE  PresentationIInv' /\ UNCHANGED client
<1> USE DEF PresentationIInv
<1> DEFINE a == Submitted(e)
           saves == /\ ~KeyIsSaved(e) /\ ~fenced /\ ResponseWindowOpen(a) /\ Unanswered(a)
           stage == IF saves \/ KeyIsSaved(e) THEN "saved" ELSE "refused"
<1>1. PICK em : em = emission[e]
  OBVIOUS
<1>2. EmissionFact(e, em) /\ DOMAIN emission = Emissions
  BY <1>1 DEF EmissionsStand
<1>3. em = [stage |-> em.stage, block |-> em.block, expected |-> em.expected, at |-> em.at,
            elapsed |-> em.elapsed, snap |-> em.snap]
  BY <1>2 DEF EmissionFact
<1> DEFINE en == [em EXCEPT !.stage = stage]
<1>4. /\ em.stage = "ready" /\ emission' = [emission EXCEPT ![e] = en]
      /\ responses' = IF saves THEN responses \cup {a} ELSE responses
  BY <1>1, <1>2 DEF AcceptResponse, EmissionAt
<1>5. /\ UNCHANGED << room, timeline, roster, clock >>
      /\ UNCHANGED << client, reading, mail, reconc >>
  BY DEF AcceptResponse, SubmissionKeeps
<1>6. /\ a.p = Me /\ a.key = e[1] /\ a.block = em.block /\ a.expected = em.expected
      /\ a.at = em.at /\ a.elapsed = em.elapsed
  BY <1>1 DEF Submitted
<1>7. stage \in {"saved", "refused"}
  OBVIOUS
<1>8. stage = "saved" <=> saves \/ KeyIsSaved(e)
  OBVIOUS
<1> HIDE DEF a, stage
<1>9. /\ en.stage = stage /\ en.snap = em.snap /\ en.snap = None
      /\ en = [stage |-> en.stage, block |-> en.block, expected |-> en.expected, at |-> en.at,
               elapsed |-> en.elapsed, snap |-> en.snap]
  BY <1>2, <1>3, <1>4 DEF EmissionFact
<1> HIDE DEF en
<1>10. CASE ~saves
  <2>1. UNCHANGED << room, timeline, roster, responses, clock >>
    BY <1>4, <1>5, <1>10
  <2>2. EmissionFact(e, en)
    BY <1>7, <1>8, <1>9, <1>10 DEF EmissionFact, KeyIsSaved, SavedKey
  <2> QED
    BY <1>1, <1>4, <1>5, <1>7, <1>9, <2>1, <2>2, EmissionStep DEF InFlight
<1>11. CASE saves
  <2>1. responses' = responses \cup {a} /\ ~SavedKey(e[1])
    BY <1>4, <1>11 DEF KeyIsSaved, SavedKey
  <2>2. a.at \in Nat
    BY <1>2, <1>4, <1>6 DEF EmissionFact
  <2>3. a.elapsed = Elapsed(a.at)
    BY <1>2, <1>4, <1>6, <1>11 DEF EmissionFact, ResponseWindowOpen
  <2>4. AnswersAreTimely'
    BY <1>5, <1>11, <2>1, <2>2, <2>3, AnsweredTimely
  <2>5. RoomGrows
    BY <1>5, <1>11, <2>1, RoomGoes DEF RoomAnswered
  <2>6. /\ DOMAIN emission' = Emissions /\ emission'[e] = en
        /\ \A o \in Emissions : o # e => emission'[o] = emission[o]
    BY <1>2, <1>4, OneEmission
  <2>7. Known' \subseteq Known \cup {Now, Now'}
    <3>1. \A o \in Emissions : emission'[o].stage = "replied" =>
             emission'[o] = emission[o] /\ emission[o].stage = "replied"
      BY <1>7, <1>9, <2>6
    <3> QED
      BY <1>5, <3>1 DEF Known, EmissionAt, ReadingMoment
  <2>8. MomentsStand'
    BY <2>5, <2>7, MomentsStay
  <2>9. RoomStands' /\ responses \subseteq responses' /\ room.revision \in Nat
        /\ (reading # NoReading => reading.row.revision \in Nat /\ reading.seq \in Nat)
    BY <2>5, KnownNumbers DEF RoomGrows
  <2>10. PageStands(client)'
    <3>1. PICK c : c = client
      OBVIOUS
    <3>2. PageStands(c)'
      BY <2>9, <3>1, PageFrame
    <3> QED
      BY <1>5, <3>1, <3>2 DEF PageStands, MineSaved
  <2>11. SubStands'
    BY <1>5 DEF SubStands
  <2>12. ReadingFact(reading)'
    <3>1. PICK r : r = reading
      OBVIOUS
    <3>2. ReadingFact(r)'
      BY <2>5, <2>9, <3>1, ReadingFrame
    <3> QED
      BY <1>5, <3>1, <3>2 DEF ReadingFact
  <2>13. ASSUME NEW m \in mail' PROVE MailFact(m)'
    BY <1>5, <2>9, MailFrame
  <2>14. ASSUME NEW o \in Emissions PROVE EmissionFact(o, emission[o])'
    <3>1. CASE o = e
      <4>1. SavedKey(e[1])'
        BY <1>6, <2>1 DEF SavedKey
      <4>2. PICK x : x = en
        OBVIOUS
      <4>3. EmissionFact(e, x)'
        BY <1>7, <1>9, <4>1, <4>2 DEF EmissionFact
      <4> QED
        BY <2>6, <3>1, <4>2, <4>3
    <3>2. CASE o # e
      <4>1. PICK x : x = emission[o]
        OBVIOUS
      <4>2. EmissionFact(o, x)
        BY <4>1 DEF EmissionsStand
      <4>3. EmissionFact(o, x)'
        BY <1>5, <2>5, <2>9, <4>2, EmissionFrame
      <4> QED
        BY <2>6, <3>2, <4>1, <4>3
    <3> QED
      BY <3>1, <3>2
  <2>15. ASSUME NEW k \in Keys PROVE KeyFact(k, client, emission)'
    <3>1. PICK c, f, g : c = client /\ f = emission /\ g = emission'
      OBVIOUS
    <3>2. KeyFact(k, c, f)
      BY <3>1 DEF KeysStand
    <3>3. \A o \in Emissions : InFlight(g[o]) => g[o] = f[o]
      BY <1>7, <1>9, <2>6, <3>1 DEF InFlight
    <3>4. \A o \in Emissions : f[o].stage = "none" => g[o].stage = "none"
      BY <1>1, <1>4, <2>6, <3>1
    <3>5. EmissionsGo(c, c, f, g) /\ SubmissionGoes(c, c)
      BY <3>3, <3>4 DEF EmissionsGo, SubmissionGoes, SameSubmission
    <3>6. KeyFact(k, c, g)
      BY <3>1, <3>2, <3>5, KeysGo
    <3>7. CASE k # e[1]
      <4>1. KeyFact(k, c, g)'
        BY <1>6, <2>1, <3>6, <3>7, KeyFrame
      <4> QED
        BY <1>5, <3>1, <4>1
    <3>8. CASE k = e[1]
      <4>1. SavedKey(k)'
        BY <1>6, <2>1, <3>8 DEF SavedKey
      <4>2. c.told[k] # "different"
        <5>1. ASSUME c.told[k] = "different" PROVE FALSE
          <6>1. AnsweredBlock(em.block)
            BY <1>1, <1>4, <3>1, <3>2, <3>8, <5>1 DEF KeyFact, InFlight
          <6> QED
            BY <1>6, <1>11, <6>1 DEF AnsweredBlock, Unanswered
        <5> QED
          BY <5>1
      <4>3. ~(c.told[k] = None /\ c.sub.key # k)
        BY <1>1, <1>4, <3>1, <3>2, <3>8 DEF KeyFact
      <4>4. ASSUME c.sub.key = k
            PROVE  /\ c.told[k] = None
                   /\ \A b \in responses' : b.p = Me /\ b.key = k => b.block = c.sub.block
                   /\ \A o \in Emissions : o[1] = k /\ InFlight(g[o]) => g[o].block = c.sub.block
        <5>1. em.block = c.sub.block
          BY <1>1, <1>4, <3>1, <3>2, <3>8, <4>4 DEF KeyFact, InFlight
        <5> QED
          BY <1>6, <2>1, <3>6, <4>4, <5>1 DEF KeyFact
      <4>5. KeyFact(k, c, g)'
        BY <4>1, <4>2, <4>3, <4>4 DEF KeyFact
      <4> QED
        BY <1>5, <3>1, <4>5
    <3> QED
      BY <3>7, <3>8
  <2> QED
    BY <1>5, <2>4, <2>6, <2>8, <2>9, <2>10, <2>11, <2>12, <2>13, <2>14, <2>15
       DEF EmissionsStand, KeysStand
<1> QED
  BY <1>5, <1>10, <1>11

-------------------------------------------------------------------------------
(* The page.                                                                  *)

\* A step of the page: it shows what was sent to it, and emits at most its own
\* submission again.
PageStep ==
    /\ UNCHANGED << room, timeline, roster, responses, clock >>
    /\ PageStands(client') /\ SubmissionGoes(client, client') /\ NotBack(client, client')
    /\ Moment(client'.view) \in Known
    /\ \/ emission' = emission
       \/ /\ client.sub.key # None /\ SameSubmission(client, client')
          /\ emission' = Sent(<< client.sub.key, 2 >>, client.sub)
    /\ reading' = reading \/ reading' = NoReading
    /\ mail' \subseteq mail

\* The submission emitted for the n-th time.
LEMMA SubmissionSent ==
  ASSUME DOMAIN emission = Emissions, NEW k \in Keys, NEW n \in {1, 2}, NEW sub,
         emission' = Sent(<< k, n >>, sub)
  PROVE  /\ DOMAIN emission' = Emissions /\ << k, n >> \in Emissions
         /\ emission'[<< k, n >>] =
               [stage |-> "sent", block |-> sub.block, expected |-> sub.expected, at |-> None,
                elapsed |-> None, snap |-> None]
         /\ \A e \in Emissions : e # << k, n >> => emission'[e] = emission[e]
<1>1. << k, n >> \in Emissions
  BY DEF Emissions
<1> DEFINE em == [NoEmission EXCEPT !.stage = "sent", !.block = sub.block,
                                    !.expected = sub.expected]
<1>2. emission' = [emission EXCEPT ![<< k, n >>] = em]
  BY DEF Sent
<1>3. em = [stage |-> "sent", block |-> sub.block, expected |-> sub.expected, at |-> None,
            elapsed |-> None, snap |-> None]
  <2>1. PICK x : x = [NoEmission EXCEPT !.stage = "sent"]
    OBVIOUS
  <2>2. x = [stage |-> "sent", block |-> None, expected |-> None, at |-> None,
             elapsed |-> None, snap |-> None]
    BY <2>1 DEF NoEmission
  <2>3. PICK y : y = [x EXCEPT !.block = sub.block]
    OBVIOUS
  <2>4. y = [stage |-> "sent", block |-> sub.block, expected |-> None, at |-> None,
             elapsed |-> None, snap |-> None]
    BY <2>2, <2>3
  <2>5. em = [y EXCEPT !.expected = sub.expected]
    BY <2>1, <2>3
  <2> QED
    BY <2>4, <2>5
<1> HIDE DEF em
<1>4. \A e : << k, n >> = e => emission'[<< k, n >>] = emission'[e]
  OBVIOUS
<1> QED
  BY <1>1, <1>2, <1>3, OneEmission

\* What is known afterwards of the emissions, when one is sent anew.
LEMMA PageStepStands ==
  ASSUME PresentationIInv, PageStep
  PROVE  PresentationIInv'
<1> USE DEF PresentationIInv
<1>1. /\ UNCHANGED << room, timeline, roster, responses, clock >>
      /\ PageStands(client') /\ SubmissionGoes(client, client')
      /\ Moment(client'.view) \in Known /\ (reading' = reading \/ reading' = NoReading)
      /\ mail' \subseteq mail
  BY DEF PageStep
<1>2. ReadingFact(reading')
  BY <1>1 DEF ReadingFact
<1>3. \A m \in mail' : MailFact(m)
  BY <1>1
<1>4. /\ DOMAIN emission' = Emissions /\ \A e \in Emissions : EmissionFact(e, emission'[e])
      /\ EmissionsGo(client, client', emission, emission')
      /\ \A e \in Emissions : emission'[e].stage = "replied" => emission'[e] = emission[e]
  <2>1. CASE emission' = emission
    BY <2>1 DEF EmissionsStand, EmissionsGo
  <2>2. CASE /\ client.sub.key # None /\ SameSubmission(client, client')
             /\ emission' = Sent(<< client.sub.key, 2 >>, client.sub)
    <3>1. PICK k, sub, e : k = client.sub.key /\ sub = client.sub /\ e = << k, 2 >>
      OBVIOUS
    <3>2. k \in Keys /\ sub.expected \in 0..room.revision
      BY <2>2, <3>1 DEF PageStands, SubStands
    <3>3. /\ DOMAIN emission' = Emissions /\ e \in Emissions
          /\ emission'[e] =
                [stage |-> "sent", block |-> sub.block, expected |-> sub.expected, at |-> None,
                 elapsed |-> None, snap |-> None]
          /\ \A o \in Emissions : o # e => emission'[o] = emission[o]
      BY <2>2, <3>1, <3>2, SubmissionSent DEF EmissionsStand
    <3>4. EmissionFact(e, emission'[e]) /\ emission'[e].stage = "sent"
          /\ emission'[e].block = sub.block
      BY <3>2, <3>3 DEF EmissionFact
    <3>5. \A o \in Emissions : EmissionFact(o, emission'[o])
      BY <3>3, <3>4 DEF EmissionsStand
    <3>6. e[1] = client.sub.key
      BY <3>1
    <3>7. EmissionsGo(client, client', emission, emission')
      BY <2>2, <3>1, <3>3, <3>4, <3>6 DEF EmissionsGo
    <3> QED
      BY <3>3, <3>4, <3>5, <3>7
  <2> QED
    BY <2>1, <2>2 DEF PageStep
<1>5. Known' \subseteq Known \cup {Now}
  <2>1. Now' = Now
    BY <1>1 DEF Now
  <2>2. ASSUME NEW x \in Known' PROVE x \in Known
    <3>1. \/ x = Now \/ x = Moment(client'.view)
          \/ \E n \in mail' : Readable(n) /\ x = Moment(n.snap)
          \/ reading' # NoReading /\ x = ReadingMoment'
          \/ \E o \in Emissions : emission'[o].stage = "replied" /\ x = Moment(emission'[o].snap)
      BY <2>1 DEF Known, EmissionAt
    <3>2. ASSUME reading' # NoReading PROVE ReadingMoment' \in Known
      BY <1>1, <3>2 DEF ReadingMoment, Known
    <3>3. ASSUME NEW o \in Emissions, emission'[o].stage = "replied"
          PROVE  Moment(emission'[o].snap) \in Known
      BY <1>4, <3>3 DEF Known, EmissionAt
    <3>4. ASSUME NEW n \in mail', Readable(n) PROVE Moment(n.snap) \in Known
      BY <1>1, <3>4 DEF Known
    <3>5. Now \in Known
      BY DEF Known
    <3> QED
      BY <1>1, <3>1, <3>2, <3>3, <3>4, <3>5
  <2> QED
    BY <2>2
<1> QED
  BY <1>1, <1>2, <1>3, <1>4, <1>5, LocalStep

\* A submission goes on after it has stayed the same.
LEMMA GoesOn ==
  ASSUME NEW c, NEW d, NEW e, SameSubmission(c, d), SubmissionGoes(d, e)
  PROVE  SubmissionGoes(c, e)
<1>1. CASE SameSubmission(d, e)
  BY <1>1 DEF SubmissionGoes, SameSubmission
<1>2. CASE EndsSubmission(d, e)
  BY <1>2 DEF SubmissionGoes, EndsSubmission, SameSubmission, Truthful
<1> QED
  BY <1>1, <1>2 DEF SubmissionGoes

\* Without a submission there is nothing to reconcile.
LEMMA NothingToReconcile ==
  ASSUME NEW c, c.sub.key = None
  PROVE  Reconciled(c) = c
  BY DEF Reconciled

\* The page goes to d from c, which is client with a snapshot shown.
LEMMA PageGoesOn ==
  ASSUME NEW c, NEW d, PageStands(d), c.sub = client.sub, SubmissionGoes(client, d),
         d.sub.replayed /\ ~c.sub.replayed => c.sub.key # None, PageGoes(c, d)
  PROVE  /\ client' = d
         /\ \/ emission' = emission
            \/ /\ client.sub.key # None /\ SameSubmission(client, client')
               /\ emission' = Sent(<< client.sub.key, 2 >>, client.sub)
<1>1. client' = d
  BY DEF PageGoes
<1>2. CASE ~Emits(c, d)
  BY <1>1, <1>2 DEF PageGoes
<1>3. CASE Emits(c, d)
  <2>1. d.sub.replayed /\ ~c.sub.replayed /\ c.sub.key # None
    BY <1>3 DEF Emits
  <2>2. ~EndsSubmission(client, d)
    BY <2>1 DEF EndsSubmission, NoSubmission
  <2> QED
    BY <1>1, <1>3, <2>1, <2>2 DEF PageGoes, SubmissionGoes
<1> QED
  BY <1>2, <1>3

\* A snapshot arrives: what the page shows of it, with a link of any kind.
LEMMA SnapshotShown ==
  ASSUME PresentationIInv, NEW s, SnapStands(s), Moment(s) \in Known,
         NEW link, NEW c, c = Shown(client, s) \/ c = [Shown(client, s) EXCEPT !.link = link]
  PROVE  /\ PageStands(c) /\ NotBack(client, c) /\ SameSubmission(client, c) /\ c.sub = client.sub
         /\ Moment(c.view) \in Known
<1> USE DEF PresentationIInv
<1>1. PICK p : p = client
  OBVIOUS
<1>2. Moment(p.view) \in Known
  BY <1>1 DEF Known
<1>3. /\ Moment(p.view).seq \in Nat /\ Moment(p.view).rev \in Nat
      /\ Moment(p.view).closes \in Nat \cup {None}
      /\ Moment(s).seq \in Nat /\ Moment(s).rev \in Nat
  BY <1>2, KnownNumbers
<1>4. Ordered(Moment(p.view), Moment(s)) /\ Ordered(Moment(s), Moment(p.view))
  BY <1>2 DEF MomentsStand
<1>5. PICK q : q = Shown(p, s)
  OBVIOUS
<1>6. /\ PageStands(q) /\ NotBack(p, q) /\ SameSubmission(p, q) /\ q.sub = p.sub
      /\ q.view = p.view \/ q.view = s
  BY <1>1, <1>3, <1>4, <1>5, ShownPage
<1>7. Moment(q.view) \in Known
  BY <1>2, <1>6
<1>8. CASE c = q
  BY <1>1, <1>6, <1>7, <1>8
<1>9. CASE c = [q EXCEPT !.link = link]
  <2>1. q = [link |-> q.link, sub |-> q.sub, told |-> q.told, view |-> q.view, fence |-> q.fence]
    BY <1>6 DEF PageStands
  <2>2. /\ c.view = q.view /\ c.fence = q.fence /\ c.told = q.told /\ c.sub = q.sub
        /\ c = [link |-> c.link, sub |-> c.sub, told |-> c.told, view |-> c.view,
                fence |-> c.fence]
    BY <1>9, <2>1
  <2>3. PageStands(c)
    BY <1>6, <2>2 DEF PageStands
  <2> QED
    BY <1>1, <1>6, <1>7, <2>2, <2>3 DEF NotBack, SameSubmission
<1> QED
  BY <1>1, <1>5, <1>8, <1>9

\* A page that is where it was, or reconciled there, has not gone back.
LEMMA StaysThere ==
  ASSUME NEW b, NEW c, NEW d, NotBack(b, c), d.view = c.view
  PROVE  NotBack(b, d)
  BY DEF NotBack

\* The page goes to what is left of its submission once c is reconciled.
LEMMA ReconciledStep ==
  ASSUME PresentationIInv, NEW c, PageStands(c), NotBack(client, c), SameSubmission(client, c),
         c.sub = client.sub, Moment(c.view) \in Known,
         NEW d, d = c \/ d = Reconciled(c), NEW given,
         given = d \/ (d.sub.key # None /\ given = Ended(d, "failed")), PageGoes(c, given),
         UNCHANGED << room, timeline, roster, responses, clock >>,
         reading' = reading \/ reading' = NoReading, mail' \subseteq mail
  PROVE  PageStep
<1>1. PageStands(d) /\ SubmissionGoes(c, d) /\ d.view = c.view
  <2>1. CASE d = c
    BY <2>1 DEF SubmissionGoes, SameSubmission
  <2>2. CASE d = Reconciled(c)
    BY <2>2, ReconciledPage
  <2> QED
    BY <2>1, <2>2
<1>2. d.sub.replayed /\ ~c.sub.replayed => c.sub.key # None
  BY NothingToReconcile
<1>3. PageStands(given) /\ SubmissionGoes(c, given) /\ given.view = c.view
  <2>1. CASE given = d
    BY <1>1, <2>1
  <2>2. CASE d.sub.key # None /\ given = Ended(d, "failed")
    <3>1. Truthful(d, "failed")
      BY DEF Truthful
    <3>2. PageStands(given) /\ EndsSubmission(d, given) /\ given.view = d.view
      BY <1>1, <2>2, <3>1, EndedPage
    <3>3. SameSubmission(c, d)
      BY <1>1, <2>2 DEF SubmissionGoes, EndsSubmission, NoSubmission
    <3>4. SubmissionGoes(c, given)
      BY <3>2, <3>3, GoesOn DEF SubmissionGoes
    <3> QED
      BY <1>1, <3>2, <3>4
  <2> QED
    BY <2>1, <2>2
<1>4. given.sub.replayed /\ ~c.sub.replayed => c.sub.key # None
  <2>1. CASE given = d
    BY <1>2, <2>1
  <2>2. CASE d.sub.key # None /\ given = Ended(d, "failed")
    <3>1. Truthful(d, "failed")
      BY DEF Truthful
    <3>2. given.sub = NoSubmission
      BY <1>1, <2>2, <3>1, EndedPage
    <3>3. ~NoSubmission.replayed
      BY DEF NoSubmission
    <3> QED
      BY <3>2, <3>3
  <2> QED
    BY <2>1, <2>2
<1>5. PICK p : p = client
  OBVIOUS
<1>6. SubmissionGoes(p, given)
  BY <1>3, <1>5, GoesOn
<1>7. NotBack(p, given)
  BY <1>3, <1>5, StaysThere
<1>8. /\ client' = given
      /\ \/ emission' = emission
         \/ /\ client.sub.key # None /\ SameSubmission(client, client')
            /\ emission' = Sent(<< client.sub.key, 2 >>, client.sub)
  BY <1>3, <1>4, <1>5, <1>6, PageGoesOn
<1> QED
  BY <1>3, <1>5, <1>6, <1>7, <1>8 DEF PageStep

\* A letter that the page will apply shows a known moment.
LEMMA ReadableMail ==
  ASSUME PresentationIInv, NEW m \in mail, Readable(m)
  PROVE  SnapStands(m.snap) /\ Moment(m.snap) \in Known
  BY DEF PresentationIInv, MailFact, Known

\* A broadcast, or a reconciliation's answer, is applied.
LEMMA LettersApply ==
  ASSUME PresentationIInv, NEW m \in mail,
         OnEnvelope(m) \/ MailLost(m) \/ SyncAnswered(m) \/ RestAnswered(m)
  PROVE  PageStep
<1> USE DEF PresentationIInv
<1>1. UNCHANGED << room, timeline, roster, responses, clock >> /\ reading' = reading
      /\ mail' \subseteq mail
  BY DEF OnEnvelope, MailLost, SyncAnswered, RestAnswered, WithoutAnswersFor, roomVars
<1>2. CASE MailLost(m)
  <2>1. client' = client /\ emission' = emission
    BY <1>2 DEF MailLost
  <2>2. Moment(client.view) \in Known
    BY DEF Known
  <2>3. NotBack(client, client)
    <3>1. Moment(client.view).seq \in Nat /\ Moment(client.view).rev \in Nat
      BY <2>2, KnownNumbers
    <3> QED
      BY <3>1 DEF Moment, NotBack
  <2> QED
    BY <1>1, <2>1, <2>2, <2>3 DEF PageStep, SubmissionGoes, SameSubmission
<1>3. CASE OnEnvelope(m)
  <2>1. PICK c : c = Shown(client, m.snap)
    OBVIOUS
  <2>2. Readable(m)
    BY <1>3 DEF OnEnvelope, Readable
  <2>3. /\ PageStands(c) /\ NotBack(client, c) /\ SameSubmission(client, c)
        /\ c.sub = client.sub /\ Moment(c.view) \in Known
    BY <2>1, <2>2, ReadableMail, SnapshotShown
  <2>4. PageGoes(c, IF c = client THEN c ELSE Reconciled(c))
    BY <1>3, <2>1 DEF OnEnvelope
  <2>5. PICK d : d = IF c = client THEN c ELSE Reconciled(c)
    OBVIOUS
  <2> QED
    BY <1>1, <2>3, <2>4, <2>5, ReconciledStep
<1>4. ASSUME NEW c, PageStands(c), NotBack(client, c), SameSubmission(client, c),
             c.sub = client.sub, Moment(c.view) \in Known, ReconciliationEnds(c, TRUE)
      PROVE  PageStep
  <2>1. PICK d : d = Reconciled(c)
    OBVIOUS
  <2>2. PICK given : given = IF d.sub.key # None /\ GivesUp(d, TRUE) THEN Ended(d, "failed") ELSE d
    OBVIOUS
  <2>3. PageGoes(c, given)
    BY <1>4, <2>1, <2>2 DEF ReconciliationEnds
  <2> QED
    BY <1>1, <1>4, <2>1, <2>2, <2>3, ReconciledStep
<1>5. CASE SyncAnswered(m)
  <2>1. PICK c : c = [Shown(client, m.snap) EXCEPT !.link = "ready"]
    OBVIOUS
  <2>2. Readable(m) /\ ReconciliationEnds(c, TRUE)
    BY <1>5, <2>1 DEF SyncAnswered, Readable
  <2>3. /\ PageStands(c) /\ NotBack(client, c) /\ SameSubmission(client, c)
        /\ c.sub = client.sub /\ Moment(c.view) \in Known
    BY <2>1, <2>2, ReadableMail, SnapshotShown
  <2> QED
    BY <1>4, <2>2, <2>3
<1>6. CASE RestAnswered(m)
  <2>1. PICK c : c = Shown(client, m.snap)
    OBVIOUS
  <2>2. Readable(m) /\ ReconciliationEnds(c, TRUE)
    BY <1>6, <2>1 DEF RestAnswered, Readable
  <2>3. /\ PageStands(c) /\ NotBack(client, c) /\ SameSubmission(client, c)
        /\ c.sub = client.sub /\ Moment(c.view) \in Known
    BY <2>1, <2>2, ReadableMail, SnapshotShown
  <2> QED
    BY <1>4, <2>2, <2>3
<1> QED
  BY <1>2, <1>3, <1>5, <1>6

\* The page as it is now.
LEMMA PresentPage ==
  ASSUME PresentationIInv
  PROVE  /\ PageStands(client) /\ NotBack(client, client) /\ SameSubmission(client, client)
         /\ Moment(client.view) \in Known /\ client.view.seq \in Nat /\ client.view.rev \in Nat
         /\ client.view.closes \in Nat \cup {None}
<1>1. Moment(client.view) \in Known
  BY DEF Known
<1>2. /\ Moment(client.view).seq \in Nat /\ Moment(client.view).rev \in Nat
      /\ Moment(client.view).closes \in Nat \cup {None}
  BY <1>1, KnownNumbers DEF PresentationIInv
<1> QED
  BY <1>1, <1>2 DEF PresentationIInv, Moment, NotBack, SameSubmission

\* Only the page's link and the timer of its submission change.
LEMMA TimersGo ==
  ASSUME PresentationIInv, NEW d, client' = d, UNCHANGED << emission, reading, mail >>,
         UNCHANGED << room, timeline, roster, responses, clock >>,
         d = [link |-> d.link, sub |-> d.sub, told |-> d.told, view |-> d.view, fence |-> d.fence],
         d.view = client.view, d.fence = client.fence, d.told = client.told,
         d.sub = [key |-> client.sub.key, block |-> client.sub.block,
                  expected |-> client.sub.expected, replayed |-> client.sub.replayed,
                  timer |-> d.sub.timer]
  PROVE  PageStep
<1>1. PICK p : p = client
  OBVIOUS
<1>2. PageStands(p) /\ NotBack(p, p) /\ Moment(p.view) \in Known
  BY <1>1, PresentPage
<1>3. d.sub = [key |-> p.sub.key, block |-> p.sub.block, expected |-> p.sub.expected,
               replayed |-> d.sub.replayed, timer |-> d.sub.timer]
  <2>1. d.sub.replayed = client.sub.replayed
    OBVIOUS
  <2> QED
    BY <1>1, <2>1
<1>4. PageStands(d) /\ SameSubmission(p, d)
  BY <1>1, <1>2, <1>3, TimedPage
<1>5. NotBack(p, d)
  BY <1>1, <1>2, StaysThere
<1> QED
  BY <1>1, <1>2, <1>4, <1>5 DEF PageStep, SubmissionGoes

\* A reconciliation is asked for by a page that waits no longer for its timer.
LEMMA ReconcileGoes ==
  ASSUME PresentationIInv, NEW d, NEW waiters, Reconcile(d, waiters),
         UNCHANGED << emission, reading, mail >>,
         UNCHANGED << room, timeline, roster, responses, clock >>,
         d = [link |-> d.link, sub |-> d.sub, told |-> d.told, view |-> d.view, fence |-> d.fence],
         d.view = client.view, d.fence = client.fence, d.told = client.told,
         d.sub = [key |-> client.sub.key, block |-> client.sub.block,
                  expected |-> client.sub.expected, replayed |-> client.sub.replayed,
                  timer |-> d.sub.timer]
  PROVE  PageStep
<1>1. PICK c : c = client'
  OBVIOUS
<1>2. c = d \/ c = [d EXCEPT !.link = "up"]
  BY <1>1 DEF Reconcile
<1>3. /\ c = [link |-> c.link, sub |-> c.sub, told |-> c.told, view |-> c.view, fence |-> c.fence]
      /\ c.view = d.view /\ c.fence = d.fence /\ c.told = d.told /\ c.sub = d.sub
  <2>1. CASE c = d
    BY <2>1
  <2>2. CASE c = [d EXCEPT !.link = "up"]
    BY <2>2
  <2> QED
    BY <1>2, <2>1, <2>2
<1>4. c.sub = [key |-> client.sub.key, block |-> client.sub.block,
               expected |-> client.sub.expected, replayed |-> client.sub.replayed,
               timer |-> c.sub.timer]
  BY <1>3
<1> QED
  BY <1>1, <1>3, <1>4, TimersGo

\* Timers, links and the fallbacks of a reconciliation.
LEMMA PageSteps ==
  ASSUME PresentationIInv,
         \/ DeadlineExpires \/ SyncFallsBack \/ RestFails \/ Connect \/ Disconnect
         \/ FallbackPolls \/ AckTimesOut \/ ConfirmTimesOut
  PROVE  PageStep
<1>1. UNCHANGED << room, timeline, roster, responses, clock >>
  BY DEF DeadlineExpires, SyncFallsBack, RestFails, Connect, Disconnect, FallbackPolls,
         AckTimesOut, ConfirmTimesOut, roomVars
<1>2. /\ PageStands(client) /\ NotBack(client, client) /\ SameSubmission(client, client)
      /\ Moment(client.view) \in Known /\ client.view.seq \in Nat /\ client.view.rev \in Nat
      /\ client.view.closes \in Nat \cup {None}
  BY PresentPage
<1>3. PICK p : p = client
  OBVIOUS
<1>4. /\ p = [link |-> p.link, sub |-> p.sub, told |-> p.told, view |-> p.view, fence |-> p.fence]
      /\ p.sub = [key |-> p.sub.key, block |-> p.sub.block, expected |-> p.sub.expected,
                  replayed |-> p.sub.replayed, timer |-> p.sub.timer]
  BY <1>2, <1>3 DEF PageStands
<1>5. CASE DeadlineExpires
  <2>1. PICK at : at = IF p.fence.at < p.view.closes + 1 THEN p.view.closes + 1 ELSE p.fence.at
    OBVIOUS
  <2>2. PICK d : d = client'
    OBVIOUS
  <2>3. /\ d = [p EXCEPT !.view.accepting = FALSE, !.fence.at = at]
        /\ p.view.accepting /\ p.view.closes # None /\ UNCHANGED << emission, reading, mail >>
    BY <1>3, <1>5, <2>1, <2>2 DEF DeadlineExpires
  <2>4. PICK x : x = [p EXCEPT !.view.accepting = FALSE]
    OBVIOUS
  <2>5. /\ x.link = p.link /\ x.sub = p.sub /\ x.told = p.told /\ x.fence = p.fence
        /\ x.view = [p.view EXCEPT !.accepting = FALSE]
        /\ x = [link |-> x.link, sub |-> x.sub, told |-> x.told, view |-> x.view,
                fence |-> x.fence]
    BY <1>4, <2>4
  <2>6. d = [x EXCEPT !.fence.at = at]
    BY <2>3, <2>4
  <2>7. /\ d.link = x.link /\ d.sub = x.sub /\ d.told = x.told /\ d.view = x.view
        /\ d.fence = [x.fence EXCEPT !.at = at]
        /\ d = [link |-> d.link, sub |-> d.sub, told |-> d.told, view |-> d.view,
                fence |-> d.fence]
    BY <2>5, <2>6
  <2>8. p.view = [seq |-> p.view.seq, rev |-> p.view.rev, joined |-> p.view.joined,
                  answers |-> p.view.answers, phase |-> p.view.phase, block |-> p.view.block,
                  mine |-> p.view.mine, closes |-> p.view.closes, at |-> p.view.at,
                  accepting |-> p.view.accepting]
        /\ p.fence = [seq |-> p.view.seq, rev |-> p.view.rev, at |-> p.fence.at]
        /\ p.fence.at \in Nat
        /\ \A k \in p.view.mine : MineSaved(p.view.block, k)
    BY <1>2, <1>3 DEF PageStands
  <2>9. PICK v : v = d.view
    OBVIOUS
  <2>10. v = [p.view EXCEPT !.accepting = FALSE]
    BY <2>5, <2>7, <2>9
  <2>11. /\ v.seq = p.view.seq /\ v.rev = p.view.rev /\ v.phase = p.view.phase
         /\ v.block = p.view.block /\ v.mine = p.view.mine /\ v.closes = p.view.closes
         /\ v.accepting = FALSE
         /\ v = [seq |-> v.seq, rev |-> v.rev, joined |-> v.joined, answers |-> v.answers,
                 phase |-> v.phase, block |-> v.block, mine |-> v.mine, closes |-> v.closes,
                 at |-> v.at, accepting |-> v.accepting]
    BY <2>8, <2>10
  <2>12. d.fence = [seq |-> v.seq, rev |-> v.rev, at |-> at]
    BY <2>5, <2>7, <2>8, <2>11
  <2>13. at \in Nat /\ at > v.closes
    BY <1>2, <1>3, <2>1, <2>3, <2>8, <2>11
  <2>14. PageStands(d)
    <3>1. d.sub = p.sub /\ d.told = p.told
      BY <2>5, <2>7
    <3>2. /\ d.sub = [key |-> d.sub.key, block |-> d.sub.block, expected |-> d.sub.expected,
                      replayed |-> d.sub.replayed, timer |-> d.sub.timer]
          /\ d.sub.key \in Keys \cup {None}
          /\ d.told \in [Keys -> {None, "saved", "different", "failed"}]
      BY <1>2, <1>3, <3>1 DEF PageStands
    <3>3. d.fence.at = at /\ d.fence = [seq |-> v.seq, rev |-> v.rev, at |-> d.fence.at]
      BY <2>12
    <3>4. v.closes # None /\ d.fence.at \in Nat /\ d.fence.at > v.closes
      BY <2>3, <2>11, <2>13, <3>3
    <3>5. \A k \in v.mine : MineSaved(v.block, k)
      BY <2>8, <2>11
    <3> QED
      BY <2>7, <2>9, <2>11, <3>2, <3>3, <3>4, <3>5 DEF PageStands
  <2>15. SameSubmission(p, d)
    BY <2>5, <2>7 DEF SameSubmission
  <2>16. NotBack(p, d)
    BY <1>2, <1>3, <2>9, <2>11 DEF NotBack
  <2>17. Moment(v) = Moment(p.view)
    BY <2>11 DEF Moment
  <2> QED
    BY <1>1, <1>2, <1>3, <2>2, <2>3, <2>9, <2>14, <2>15, <2>16, <2>17
       DEF PageStep, SubmissionGoes
<1>6. CASE SyncFallsBack
  BY <1>1, <1>2, <1>6 DEF SyncFallsBack, WithoutAnswersFor, PageStep, SubmissionGoes
<1>7. CASE RestFails
  <2>1. PICK given : given = IF p.sub.key # None /\ GivesUp(p, FALSE)
                             THEN Ended(p, "failed") ELSE p
    OBVIOUS
  <2>2. PageGoes(p, given)
    BY <1>3, <1>7, <2>1 DEF RestFails, ReconciliationEnds
  <2>3. (reading' = reading \/ reading' = NoReading) /\ mail' \subseteq mail
    BY <1>7 DEF RestFails, WithoutAnswersFor
  <2> QED
    BY <1>1, <1>2, <1>3, <2>1, <2>2, <2>3, ReconciledStep
<1>8. CASE Connect
  <2>1. PICK d : d = [p EXCEPT !.link = "up"]
    OBVIOUS
  <2>2. Reconcile(d, {}) /\ UNCHANGED << emission, reading, mail >>
    BY <1>3, <1>8, <2>1 DEF Connect
  <2>3. /\ d = [link |-> d.link, sub |-> d.sub, told |-> d.told, view |-> d.view,
                fence |-> d.fence]
        /\ d.view = p.view /\ d.fence = p.fence /\ d.told = p.told /\ d.sub = p.sub
    BY <1>4, <2>1
  <2> QED
    BY <1>1, <1>3, <1>4, <2>2, <2>3, ReconcileGoes
<1>9. CASE Disconnect
  <2>1. PICK d : d = [p EXCEPT !.link = "down"]
    OBVIOUS
  <2>2. client' = d /\ UNCHANGED << emission, reading, mail >>
    BY <1>3, <1>9, <2>1 DEF Disconnect
  <2>3. /\ d = [link |-> d.link, sub |-> d.sub, told |-> d.told, view |-> d.view,
                fence |-> d.fence]
        /\ d.view = p.view /\ d.fence = p.fence /\ d.told = p.told /\ d.sub = p.sub
    BY <1>4, <2>1
  <2> QED
    BY <1>1, <1>3, <1>4, <2>2, <2>3, TimersGo
<1>10. CASE FallbackPolls
  <2>1. Reconcile(p, {}) /\ UNCHANGED << emission, reading, mail >>
    BY <1>3, <1>10 DEF FallbackPolls
  <2> QED
    BY <1>1, <1>3, <1>4, <2>1, ReconcileGoes
<1>11. CASE AckTimesOut \/ ConfirmTimesOut
  <2>1. PICK d : d = [p EXCEPT !.sub.timer = "none"]
    OBVIOUS
  <2>2. (\E waiters : Reconcile(d, waiters)) /\ UNCHANGED << emission, reading, mail >>
    BY <1>3, <1>11, <2>1 DEF AckTimesOut, ConfirmTimesOut
  <2>3. /\ d = [link |-> d.link, sub |-> d.sub, told |-> d.told, view |-> d.view,
                fence |-> d.fence]
        /\ d.view = p.view /\ d.fence = p.fence /\ d.told = p.told
        /\ d.sub = [p.sub EXCEPT !.timer = "none"]
    BY <1>4, <2>1
  <2>4. d.sub = [key |-> p.sub.key, block |-> p.sub.block, expected |-> p.sub.expected,
                 replayed |-> p.sub.replayed, timer |-> d.sub.timer]
    BY <1>4, <2>3
  <2> QED
    BY <1>1, <1>3, <2>2, <2>3, <2>4, ReconcileGoes
<1> QED
  BY <1>5, <1>6, <1>7, <1>8, <1>9, <1>10, <1>11

\* A new submission: no answer was saved under its key and none of it is on its way.
LEMMA SubmitStep ==
  ASSUME PresentationIInv, NEW k \in Keys, SubmitResponse(k)
  PROVE  PresentationIInv' /\ NotBack(client, client')
<1> USE DEF PresentationIInv
<1>1. PICK p, d : p = client /\ d = client'
  OBVIOUS
<1>2. PICK sub : sub = [key |-> k, block |-> p.view.block, expected |-> p.view.rev,
                        replayed |-> FALSE, timer |-> "ack"]
  OBVIOUS
<1>3. /\ p.sub.key = None /\ p.told[k] = None /\ d = [p EXCEPT !.sub = sub]
      /\ emission' = Sent(<< k, 1 >>, sub)
  BY <1>1, <1>2 DEF SubmitResponse
<1>4. UNCHANGED << room, timeline, roster, responses, clock >> /\ UNCHANGED << reading, mail >>
  BY DEF SubmitResponse, roomVars
<1>5. /\ PageStands(p) /\ Moment(p.view) \in Known /\ p.view.seq \in Nat /\ p.view.rev \in Nat
  BY <1>1, PresentPage
<1>6. p = [link |-> p.link, sub |-> p.sub, told |-> p.told, view |-> p.view, fence |-> p.fence]
  BY <1>5 DEF PageStands
<1>7. /\ d.sub = sub /\ d.link = p.link /\ d.told = p.told /\ d.view = p.view
      /\ d.fence = p.fence
      /\ d = [link |-> d.link, sub |-> d.sub, told |-> d.told, view |-> d.view, fence |-> d.fence]
  BY <1>3, <1>6
<1>8. /\ sub.key = k /\ sub.expected = p.view.rev
      /\ sub = [key |-> sub.key, block |-> sub.block, expected |-> sub.expected,
                replayed |-> sub.replayed, timer |-> sub.timer]
  BY <1>2
<1>9. PageStands(d)
  BY <1>5, <1>7, <1>8 DEF PageStands
<1>10. sub.expected \in 0..room.revision
  <2>1. Moment(p.view).rev <= room.revision /\ room.revision \in Nat
    BY <1>5, KnownNumbers
  <2> QED
    BY <1>5, <1>8, <2>1 DEF Moment
<1>11. PICK e : e = << k, 1 >>
  OBVIOUS
<1>12. /\ DOMAIN emission' = Emissions /\ e \in Emissions
       /\ emission'[e] =
             [stage |-> "sent", block |-> sub.block, expected |-> sub.expected, at |-> None,
              elapsed |-> None, snap |-> None]
       /\ \A o \in Emissions : o # e => emission'[o] = emission[o]
  BY <1>3, <1>11, SubmissionSent DEF EmissionsStand
<1>13. EmissionFact(e, emission'[e]) /\ emission'[e].stage = "sent"
       /\ emission'[e].block = sub.block
  BY <1>10, <1>12 DEF EmissionFact
<1>14. \A o \in Emissions : EmissionFact(o, emission'[o])
  BY <1>12, <1>13 DEF EmissionsStand
<1>15. Known' \subseteq Known \cup {Now}
  <2>1. Moment(client'.view) = Moment(client.view)
    BY <1>1, <1>7
  <2>2. \A o \in Emissions : emission'[o].stage = "replied" => emission'[o] = emission[o]
    BY <1>12, <1>13
  <2> QED
    BY <1>4, <2>1, <2>2 DEF Known, EmissionAt, ReadingMoment, Now
<1>16. ASSUME NEW j \in Keys PROVE KeyFact(j, d, emission')
  <2>1. KeyFact(j, p, emission) /\ j # None
    BY <1>1, AnswersAssumption DEF KeysStand
  <2>2. CASE j = k
    <3>1. ~SavedKey(k) /\ \A o \in Emissions : o[1] = k => emission[o].stage = "none"
      BY <1>3, <2>1, <2>2 DEF KeyFact
    <3>2. \A o \in Emissions : o[1] = k /\ InFlight(emission'[o]) => emission'[o].block = sub.block
      BY <1>12, <1>13, <3>1 DEF InFlight
    <3>3. d.told[k] = None /\ d.sub.key = k /\ d.sub.block = sub.block
      BY <1>3, <1>7, <1>8
    <3>4. None \notin {"saved", "different"}
      BY AnswersAssumption
    <3> QED
      BY <2>2, <3>1, <3>2, <3>3, <3>4 DEF KeyFact, SavedKey
  <2>3. CASE j # k
    <3>1. \A o \in Emissions : o[1] = j => emission'[o] = emission[o]
      BY <1>11, <1>12, <2>3
    <3>2. d.told[j] = p.told[j] /\ d.sub.key # j /\ p.sub.key # j
      BY <1>3, <1>7, <1>8, <2>1, <2>3
    <3> QED
      BY <2>1, <3>1, <3>2 DEF KeyFact
  <2> QED
    BY <2>2, <2>3
<1>17. ReadingFact(reading') /\ \A m \in mail' : MailFact(m)
  BY <1>4
<1>18. client'.sub.key # None => client'.sub.expected \in 0..room.revision
  BY <1>1, <1>7, <1>10
<1>19. NotBack(p, d)
  BY <1>5, <1>7, SameView
<1> QED
  BY <1>1, <1>4, <1>9, <1>12, <1>14, <1>15, <1>16, <1>17, <1>18, <1>19, LocalFrame

\* An answer of the server is heard: it settles the submission that it is of.
LEMMA HearStep ==
  ASSUME PresentationIInv, NEW e \in Emissions, HearReply(e)
  PROVE  PresentationIInv' /\ NotBack(client, client')
<1> USE DEF PresentationIInv
<1>1. PICK p, d, em : p = client /\ d = client' /\ em = emission[e]
  OBVIOUS
<1>2. PICK over : over = [NoEmission EXCEPT !.stage = "over"]
  OBVIOUS
<1>3. /\ em.stage \in {"replied", "refused"} /\ emission' = [emission EXCEPT ![e] = over]
      /\ d = IF p.sub.key = None THEN p
             ELSE IF em.stage = "replied" /\ e[1] = p.sub.key
             THEN Shown(Ended(p, "saved"), em.snap) ELSE Ended(p, "failed")
  BY <1>1, <1>2 DEF HearReply, Heard, EmissionAt
<1>4. UNCHANGED << room, timeline, roster, responses, clock >> /\ UNCHANGED << reading, mail >>
  BY DEF HearReply, roomVars
<1>5. /\ PageStands(p) /\ NotBack(p, p) /\ SameSubmission(p, p) /\ Moment(p.view) \in Known
      /\ p.view.seq \in Nat /\ p.view.rev \in Nat
  BY <1>1, PresentPage
<1>6. EmissionFact(e, em)
  BY <1>1 DEF EmissionsStand
<1>7. em.stage = "replied" => SnapStands(em.snap) /\ Moment(em.snap) \in Known /\ SavedKey(e[1])
  BY <1>1, <1>6 DEF EmissionFact, Known, EmissionAt
<1>8. PageStands(d) /\ SubmissionGoes(p, d) /\ NotBack(p, d) /\ Moment(d.view) \in Known
  <2>1. CASE p.sub.key = None
    BY <1>3, <1>5, <2>1 DEF SubmissionGoes
  <2>2. CASE p.sub.key # None /\ em.stage = "replied" /\ e[1] = p.sub.key
    <3>1. PICK c : c = Ended(p, "saved")
      OBVIOUS
    <3>2. Truthful(p, "saved")
      BY <1>7, <2>2 DEF Truthful
    <3>3. PageStands(c) /\ EndsSubmission(p, c) /\ c.view = p.view
      BY <1>5, <2>2, <3>1, <3>2, EndedPage
    <3>4. d = Shown(c, em.snap)
      BY <1>3, <2>2, <3>1
    <3>5. /\ Moment(c.view).seq \in Nat /\ Moment(c.view).rev \in Nat
          /\ Moment(c.view).closes \in Nat \cup {None}
          /\ Moment(em.snap).seq \in Nat /\ Moment(em.snap).rev \in Nat
      BY <1>5, <1>7, <2>2, <3>3, KnownNumbers
    <3>6. Ordered(Moment(c.view), Moment(em.snap)) /\ Ordered(Moment(em.snap), Moment(c.view))
      BY <1>5, <1>7, <2>2, <3>3 DEF MomentsStand
    <3>7. /\ PageStands(d) /\ NotBack(c, d) /\ SameSubmission(c, d) /\ d.sub = c.sub
          /\ d.view = c.view \/ d.view = em.snap
      BY <1>7, <2>2, <3>3, <3>4, <3>5, <3>6, ShownPage
    <3>8. EndsSubmission(p, d)
      BY <3>3, <3>7 DEF EndsSubmission, SameSubmission
    <3>9. NotBack(p, d)
      BY <3>3, <3>7 DEF NotBack
    <3> QED
      BY <1>5, <1>7, <2>2, <3>3, <3>7, <3>8, <3>9 DEF SubmissionGoes
  <2>3. CASE p.sub.key # None /\ ~(em.stage = "replied" /\ e[1] = p.sub.key)
    <3>1. Truthful(p, "failed") /\ d = Ended(p, "failed")
      BY <1>3, <2>3 DEF Truthful
    <3>2. PageStands(d) /\ EndsSubmission(p, d) /\ d.view = p.view
      BY <1>5, <2>3, <3>1, EndedPage
    <3> QED
      BY <1>5, <3>2, SameView DEF SubmissionGoes
  <2> QED
    BY <2>1, <2>2, <2>3
<1>9. over = [stage |-> "over", block |-> None, expected |-> None, at |-> None,
              elapsed |-> None, snap |-> None]
  BY <1>2 DEF NoEmission
<1>10. /\ DOMAIN emission' = Emissions /\ emission'[e] = over
       /\ \A o \in Emissions : o # e => emission'[o] = emission[o]
  BY <1>3, OneEmission DEF EmissionsStand
<1>11. EmissionFact(e, over) /\ ~InFlight(over) /\ over.stage # "replied"
  BY <1>9 DEF EmissionFact, InFlight
<1>12. \A o \in Emissions : EmissionFact(o, emission'[o])
  BY <1>10, <1>11 DEF EmissionsStand
<1>13. EmissionsGo(client, client', emission, emission')
  BY <1>1, <1>3, <1>10, <1>11 DEF EmissionsGo
<1>14. Known' \subseteq Known \cup {Now}
  <2>1. \A o \in Emissions : emission'[o].stage = "replied" => emission'[o] = emission[o]
    BY <1>10, <1>11
  <2>2. Now' = Now
    BY <1>4 DEF Now
  <2>3. Moment(client'.view) \in Known
    BY <1>1, <1>8
  <2>4. ASSUME NEW x \in Known' PROVE x \in Known
    <3>1. \/ x = Now \/ x = Moment(client'.view)
          \/ \E n \in mail : Readable(n) /\ x = Moment(n.snap)
          \/ reading # NoReading /\ x = ReadingMoment
          \/ \E o \in Emissions : emission'[o].stage = "replied" /\ x = Moment(emission'[o].snap)
      BY <1>4, <2>2 DEF Known, EmissionAt, ReadingMoment
    <3>2. ASSUME NEW o \in Emissions, emission'[o].stage = "replied"
          PROVE  Moment(emission'[o].snap) \in Known
      BY <2>1, <3>2 DEF Known, EmissionAt
    <3> QED
      BY <2>3, <3>1, <3>2 DEF Known
  <2> QED
    BY <2>4
<1>15. ReadingFact(reading') /\ \A m \in mail' : MailFact(m)
  BY <1>4
<1> QED
  BY <1>1, <1>4, <1>8, <1>10, <1>12, <1>13, <1>14, <1>15, LocalStep

-------------------------------------------------------------------------------
(* The theorems.                                                              *)

\* What the windows do is nothing to the page but what the room makes of it.
LEMMA CommandsStep ==
  ASSUME PresentationIInv, CommandsNext, UNCHANGED answersVars
  PROVE  PresentationIInv'
<1>1. RoomMoves \/ RoomTicks \/ RoomKept
  BY CommandsRoom
<1>2. RoomGrows
  BY <1>1, RoomGoes DEF PresentationIInv
<1>3. responses' = responses
  BY <1>1 DEF RoomMoves, RoomTicks, RoomKept
<1>4. AnswersAreTimely'
  <2>1. CASE RoomMoves
    BY <2>1, MovesTimely DEF PresentationIInv
  <2>2. CASE RoomTicks \/ RoomKept
    BY <2>2 DEF RoomTicks, RoomKept, PresentationIInv, AnswersAreTimely
  <2> QED
    BY <1>1, <2>1, <2>2
<1> QED
  BY <1>2, <1>3, <1>4, RoomStep

\* So is what the others in the room do.
LEMMA OthersStep ==
  ASSUME PresentationIInv, RoomGoesOn
  PROVE  PresentationIInv' /\ UNCHANGED client
<1> USE DEF PresentationIInv
<1>1. UNCHANGED answersVars
  BY DEF RoomGoesOn
<1>2. ASSUME RoomGrows, AnswersAreTimely', \A a \in responses' : a \in responses \/ a.p # Me
      PROVE  PresentationIInv' /\ UNCHANGED client
  BY <1>1, <1>2, RoomStep DEF answersVars
<1>3. CASE AdvanceByRest
  <2>1. RoomMoves
    BY <1>3 DEF AdvanceByRest, RoomMoves
  <2>2. RoomGrows /\ AnswersAreTimely' /\ responses' = responses
    BY <2>1, RoomGoes, MovesTimely DEF RoomMoves
  <2> QED
    BY <1>2, <2>2
<1>4. CASE Tick \/ StartWorkspaceDeletion \/ \E p \in Participants : JoinParticipantWithinLimit(p)
  <2>1. RoomTicks \/ RoomKept \/ RoomJoined
    BY <1>4 DEF Tick, StartWorkspaceDeletion, JoinParticipantWithinLimit, RoomTicks, RoomKept,
                RoomJoined
  <2>2. RoomGrows
    BY <2>1, RoomGoes
  <2>3. AnswersAreTimely' /\ responses' = responses
    BY <2>1 DEF RoomTicks, RoomKept, RoomJoined, AnswersAreTimely
  <2> QED
    BY <1>2, <2>2, <2>3
<1>5. ASSUME NEW p \in Participants \ {Me}, RivalAnswers(p)
      PROVE  PresentationIInv' /\ UNCHANGED client
  <2>1. PICK a : a = [p |-> p, key |-> None, block |-> CurrentId(room),
                      expected |-> room.revision, at |-> clock, elapsed |-> Elapsed(clock)]
    OBVIOUS
  <2>2. /\ ResponseWindowOpen(a) /\ Unanswered(a) /\ responses' = responses \cup {a}
        /\ UNCHANGED << room, timeline, roster, clock >>
    BY <1>5, <2>1 DEF RivalAnswers
  <2>3. a.p = p /\ a.at = clock /\ a.elapsed = Elapsed(clock) /\ clock \in Nat
    BY <2>1 DEF RoomStands
  <2>4. AnswersAreTimely'
    BY <2>2, <2>3, AnsweredTimely
  <2>5. RoomGrows
    BY <2>2, RoomGoes DEF RoomAnswered
  <2> QED
    BY <1>2, <1>5, <2>2, <2>3, <2>4, <2>5
<1> QED
  BY <1>3, <1>4, <1>5 DEF RoomGoesOn

\* Every step keeps what stands, and none takes the page back.
LEMMA PresentationStep ==
  ASSUME PresentationIInv, PresentationNext
  PROVE  PresentationIInv' /\ (NotBack(client, client') \/ UNCHANGED client)
<1>1. CASE CommandsNext /\ UNCHANGED answersVars
  BY <1>1, CommandsStep DEF answersVars
<1>2. CASE AnswersNext
  <2>1. CASE (\E for \in {"sync", "broadcast", "rest"} : StartReading(for)) \/ ReadData \/ Confirm
    BY <2>1, ReadingSteps
  <2>2. CASE \E e \in Emissions : \/ ReceiveSubmission(e) \/ ReadContext(e)
                                  \/ ReadAcknowledgement(e) \/ SubmissionFails(e)
    BY <2>2, SubmissionSteps
  <2>3. CASE \E e \in Emissions : AcceptResponse(e)
    BY <2>3, AcceptStep
  <2>4. CASE \E e \in Emissions : HearReply(e)
    BY <2>4, HearStep
  <2>5. CASE \E m \in mail : OnEnvelope(m) \/ MailLost(m) \/ SyncAnswered(m) \/ RestAnswered(m)
    BY <2>5, LettersApply, PageStepStands DEF PageStep
  <2>6. CASE \/ DeadlineExpires \/ SyncFallsBack \/ RestFails \/ Connect \/ Disconnect
             \/ FallbackPolls \/ AckTimesOut \/ ConfirmTimesOut
    BY <2>6, PageSteps, PageStepStands DEF PageStep
  <2>7. CASE \E k \in Keys : SubmitResponse(k)
    BY <2>7, SubmitStep
  <2>8. CASE RoomGoesOn
    BY <2>8, OthersStep
  <2> QED
    BY <1>2, <2>1, <2>2, <2>3, <2>4, <2>5, <2>6, <2>7, <2>8 DEF AnswersNext
<1> QED
  BY <1>1, <1>2 DEF PresentationNext

\* A session that its first participant has joined, and whose page shows it.
LEMMA PresentationStarts ==
  ASSUME PresentationInit
  PROVE  PresentationIInv
<1>1. /\ room.phase = "lobby" /\ room.revision = 0 /\ room.closes = None
      /\ room.flex \in BOOLEAN
      /\ timeline = << >> /\ roster = {Me} /\ responses = {} /\ clock = 0
  BY DEF PresentationInit, RoomInit
<1>2. IsFiniteSet(roster) /\ IsFiniteSet(responses) /\ Cardinality(roster) = 1
      /\ Cardinality(responses) = 0
  BY <1>1, FS_EmptySet, FS_Singleton
<1>3. << >> \in Seq({}) /\ Len(<< >>) = 0
  BY EmptySeq
<1>4. IsTimeline
  BY <1>1, <1>3 DEF IsTimeline
<1>5. RoomStands
  BY <1>1, <1>2, <1>3, <1>4 DEF RoomStands, LastEntryIsNow
<1>6. PICK s : s = SnapshotNow
  OBVIOUS
<1>7. SnapStands(s) /\ Moment(s) = Now
  <2>1. SnapStands(SnapshotNow) /\ Moment(SnapshotNow) = Now
    BY <1>5, SnapshotStands DEF SnapshotNow, RoomStands, Now, EventSeq
  <2> QED
    BY <1>6, <2>1
<1>8. /\ client = [link |-> "up", sub |-> NoSubmission, told |-> [k \in Keys |-> None],
                   view |-> s, fence |-> Fence(s)]
      /\ emission = [e \in Emissions |-> NoEmission] /\ reading = NoReading /\ mail = {}
  BY <1>6 DEF PresentationInit, AnswersInit
<1>9. /\ client.link = "up" /\ client.sub = NoSubmission /\ client.told = [k \in Keys |-> None]
      /\ client.view = s /\ client.fence = [seq |-> s.seq, rev |-> s.rev, at |-> s.at]
      /\ client = [link |-> client.link, sub |-> client.sub, told |-> client.told,
                   view |-> client.view, fence |-> client.fence]
  BY <1>8 DEF Fence
<1>10. /\ s.phase = "lobby" /\ s.at \in Nat /\ s.accepting \in BOOLEAN
       /\ \A k \in s.mine : MineSaved(s.block, k)
       /\ s = [seq |-> s.seq, rev |-> s.rev, joined |-> s.joined, answers |-> s.answers,
               phase |-> s.phase, block |-> s.block, mine |-> s.mine, closes |-> s.closes,
               at |-> s.at, accepting |-> s.accepting]
  BY <1>1, <1>7 DEF SnapStands, Moment, Now
<1>11. PageStands(client)
  <2>1. /\ client.sub = [key |-> client.sub.key, block |-> client.sub.block,
                         expected |-> client.sub.expected, replayed |-> client.sub.replayed,
                         timer |-> client.sub.timer]
        /\ client.sub.key \in Keys \cup {None}
        /\ client.told \in [Keys -> {None, "saved", "different", "failed"}]
    BY <1>9 DEF NoSubmission
  <2>2. client.fence.at = s.at
    BY <1>9
  <2> QED
    BY <1>9, <1>10, <2>1, <2>2 DEF PageStands
<1>12. SubStands /\ client.sub.key = None
  BY <1>9 DEF SubStands, NoSubmission
<1>13. Known = {Now}
  <2>1. \A e \in Emissions : ~EmissionAt(e, "replied")
    BY <1>8 DEF NoEmission, EmissionAt
  <2> QED
    BY <1>7, <1>8, <1>9, <2>1 DEF Known
<1>14. MomentsStand
  <2>1. Now.seq = 1 /\ Now.rev = 0 /\ Now.closes = None /\ EventSeq(room, roster, responses) = 1
    BY <1>1, <1>2 DEF Now, EventSeq
  <2> QED
    BY <1>1, <1>13, <2>1 DEF MomentsStand, Past, Ordered
<1>15. ReadingFact(reading) /\ \A m \in mail : MailFact(m)
  BY <1>8 DEF ReadingFact
<1>16. EmissionsStand
  <2>1. \A e \in Emissions : emission[e] = NoEmission
    BY <1>8
  <2>2. \A e \in Emissions : EmissionFact(e, NoEmission)
    BY DEF EmissionFact, NoEmission
  <2> QED
    BY <1>8, <2>1, <2>2 DEF EmissionsStand
<1>17. KeysStand
  <2>1. ASSUME NEW k \in Keys PROVE KeyFact(k, client, emission)
    <3>1. client.told[k] = None /\ client.sub.key # k /\ ~SavedKey(k)
      BY <1>1, <1>9, <1>12, AnswersAssumption DEF SavedKey
    <3>2. \A e \in Emissions : emission[e].stage = "none"
      BY <1>8 DEF NoEmission
    <3>3. None \notin {"saved", "different"}
      BY AnswersAssumption
    <3> QED
      BY <3>1, <3>2, <3>3 DEF KeyFact
  <2> QED
    BY <2>1 DEF KeysStand
<1>18. AnswersAreTimely
  BY <1>1 DEF AnswersAreTimely
<1> QED
  BY <1>5, <1>11, <1>12, <1>14, <1>15, <1>16, <1>17, <1>18 DEF PresentationIInv

\* Steps in which nothing changes.
LEMMA PresentationStutters ==
  ASSUME PresentationIInv, UNCHANGED << roomVars, commandVars, answersVars >>
  PROVE  PresentationIInv'
<1>1. RoomKept /\ UNCHANGED answersVars
  BY DEF roomVars, RoomKept
<1>2. RoomGrows /\ responses' = responses
  BY <1>1, RoomGoes DEF PresentationIInv, RoomKept
<1>3. AnswersAreTimely'
  BY <1>1 DEF PresentationIInv, AnswersAreTimely, RoomKept
<1> QED
  BY <1>1, <1>2, <1>3, RoomStep

\* In every behaviour the room's record, what is seen of it and what the page has told
\* stand.
THEOREM PresentationStands == PresentationSpec => []PresentationIInv
<1>1. PresentationInit => PresentationIInv
  BY PresentationStarts
<1>2. PresentationIInv /\ [PresentationNext]_<< roomVars, commandVars, answersVars >>
         => PresentationIInv'
  BY PresentationStep, PresentationStutters
<1> QED
  BY <1>1, <1>2, PTL DEF PresentationSpec

\* Whoever commands the session, and however late an answer is read and saved, it was
\* received in the window of the question it is for, and it is its participant's only one.
THEOREM AnswersStayTimely == PresentationSpec => []AnswersAreTimely
<1>1. PresentationIInv => AnswersAreTimely
  BY DEF PresentationIInv
<1> QED
  BY <1>1, PresentationStands, PTL

\* What a participant was told of an answer is so, and stays so.
THEOREM ToldIsTrue == PresentationSpec => []SavesAreTrue
<1>1. PresentationIInv => SavesAreTrue
  <2>1. ASSUME PresentationIInv, NEW k \in Keys
        PROVE  /\ client.told[k] = "saved" => \E a \in responses : a.p = Me /\ a.key = k
               /\ client.told[k] = "different" => ~\E a \in responses : a.p = Me /\ a.key = k
    BY <2>1 DEF PresentationIInv, KeysStand, KeyFact, SavedKey
  <2> QED
    BY <2>1 DEF SavesAreTrue
<1> QED
  BY <1>1, PresentationStands, PTL

\* A sequence that is the same before and after the tables were read counts what was read.
THEOREM SnapshotsStayExact == PresentationSpec => []SnapshotsAreExact
<1>1. PresentationIInv => SnapshotsAreExact
  <2>1. ASSUME PresentationIInv, NEW m \in mail, m.for # "rest", m.snap # None
        PROVE  Exact(m.snap)
    BY <2>1 DEF PresentationIInv, MailFact
  <2>2. ASSUME PresentationIInv, NEW e \in Emissions, emission[e].snap # None
        PROVE  Exact(emission[e].snap)
    BY <2>2 DEF PresentationIInv, EmissionsStand, EmissionFact
  <2> QED
    BY <2>1, <2>2 DEF SnapshotsAreExact, Exact
<1> QED
  BY <1>1, PresentationStands, PTL

\* The page's fence keeps out whatever is older than what it shows, by any of its clocks.
THEOREM PageNeverGoesBack == PresentationSpec => ViewNeverGoesBack
<1>1. ASSUME PresentationIInv, [PresentationNext]_<< roomVars, commandVars, answersVars >>
      PROVE  [/\ client'.view.rev >= client.view.rev /\ client'.view.seq >= client.view.seq
              /\ (client'.view.seq = client.view.seq /\ ~client.view.accepting)
                    => ~client'.view.accepting ]_client
  <2>1. NotBack(client, client') \/ client' = client
    BY <1>1, PresentationStep DEF answersVars
  <2> QED
    BY <2>1 DEF NotBack
<1> QED
  BY <1>1, PresentationStands, PTL DEF PresentationSpec, ViewNeverGoesBack

\* The scenes that are model-checked are behaviours of the whole.
THEOREM ScenesAreBehaviours == MCSpec => PresentationSpec
<1>1. MCInit => PresentationInit
  BY DEF MCInit, PresentationInit
<1>2. MCInit => scene \in Scenes
  BY DEF MCInit
<1>3. scene \in Scenes /\ [MCNext]_<< roomVars, commandVars, answersVars, scene >>
         => (scene \in Scenes)' /\ [PresentationNext]_<< roomVars, commandVars, answersVars >>
  <2>1. ASSUME scene \in Scenes, scene \in Linked, CommandsNext,
               scene = "faults" => Faults, scene = "rivals" => Rivals
        PROVE  PresentationNext
    BY <2>1 DEF Linked, Faults, Rivals, PresentationNext, answersVars
  <2>2. ASSUME scene \in Scenes, scene \notin Linked, AnswersNext,
               scene = "two_keys" => TwoKeys, scene = "deadline" => Deadline,
               scene = "link" => Link, scene = "order" => Order, scene = "readings" => Readings
        PROVE  PresentationNext
    BY <2>2, ScenesAssumption DEF Linked, TwoKeys, Deadline, Link, Order, Readings, Page,
       PresentationNext, commandVars
  <2>3. ASSUME scene \in Scenes, MCNext PROVE (scene \in Scenes)' /\ PresentationNext
    BY <2>1, <2>2, <2>3 DEF MCNext
  <2> QED
    BY <2>3
<1> QED
  BY <1>1, <1>2, <1>3, PTL DEF MCSpec, PresentationSpec

-------------------------------------------------------------------------------
(* Commands: what a window is told of its command is final.                   *)

\* No attempt at a command can be applied any more: the workspace is being deleted, the
\* session has moved on from what its user saw, or it does not allow the command there.
Hopeless(x) ==
    \/ fenced
    \/ room.revision > x.expected
    \/ room.revision = x.expected /\ ~Allowed(room, x.kind)

Underway(r) == r.stage \in {"sent", "read", "ready"}

\* The session that an attempt has read: not from before the command, and the present
\* one if its revision is.
ViewFact(x, v) ==
    /\ v.revision \in Nat /\ x.expected <= v.revision /\ v.revision <= room.revision
    /\ v.revision = room.revision => v = room
    /\ v.phase = "finished" => room.phase = "finished"

TrueReply(w, x, n, code) ==
    /\ code \in Codes
    /\ code = "ok" => Committed(w) \/ (x.kind = "advance" /\ room.phase = "finished")
    /\ code = "stale" \/ (code \in {"closed", "not_found"} /\ x.kind \notin Insertions) =>
          ~Committed(w) /\ Hopeless(x)
    /\ n = 1 /\ x.try = 1 /\ code \notin {"ok", "internal"} => ~Committed(w)

RequestFact(w, x, n, r) ==
    /\ r = [stage |-> r.stage, view |-> r.view, code |-> r.code]
    /\ r.code \in Codes \cup {None}
    /\ n > x.try => r.stage = "none"
    /\ r.stage \in {"read", "ready"} => ViewFact(x, r.view)
    /\ r.stage = "ready" => r.view.revision = x.expected /\ Allowed(r.view, x.kind)
    /\ r.stage = "unavailable" => x.kind = "published"
    /\ n = 1 /\ x.try = 1 /\ Underway(r) => ~Committed(w)
    /\ r.stage = "replied" => TrueReply(w, x, n, r.code)

\* A window's command is for one revision in all its attempts, so it is applied at the
\* place after that revision or not at all.
WindowFact(w, x, q) ==
    /\ x = [state |-> x.state, kind |-> x.kind, expected |-> x.expected, try |-> x.try,
            outcome |-> x.outcome]
    /\ x.state \in {"idle", "busy", "pending"} /\ x.try \in 0..MaxTries
    /\ x.outcome \in {None, "done", "refused"}
    /\ x.state # "idle" => x.try > 0 /\ x.outcome = None
    /\ x.state = "idle" /\ x.outcome = None => x.try = 0
    /\ x.try = 0 => ~Committed(w) /\ x.outcome = None
    /\ x.try > 0 => x.expected \in 0..room.revision /\ x.kind \in CommandKinds
    /\ x.outcome = "refused" =>
          ~Committed(w) /\ (Hopeless(x) \/ \A n \in Attempts : ~Underway(q[n]))
    /\ x.outcome = "done" =>
          Committed(w) \/ (x.kind = "advance" /\ room.phase = "finished")
    /\ \A k \in DOMAIN timeline :
          timeline[k].cmd = w => Committed(w) /\ k = x.expected + 1 /\ x.try > 0
    /\ Committed(w) => \E k \in DOMAIN timeline : timeline[k].cmd = w

CommandFact(w, x, q) ==
    /\ WindowFact(w, x, q)
    /\ DOMAIN q = Attempts /\ \A n \in Attempts : RequestFact(w, x, n, q[n])

CommandsIInv ==
    /\ RoomStands
    /\ DOMAIN window = Windows /\ DOMAIN request = Windows
    /\ \A w \in Windows : CommandFact(w, window[w], request[w])

\* The room goes on, seen by its windows: it stays finished, being deleted and recorded.
RoomLater ==
    /\ room.revision \in Nat /\ room'.revision \in Nat
    /\ room.revision <= room'.revision /\ (room'.revision = room.revision => room' = room)
    /\ room.phase = "finished" => room'.phase = "finished"
    /\ fenced => fenced'
    /\ \A k \in DOMAIN timeline : k \in DOMAIN timeline' /\ timeline'[k] = timeline[k]

\* What is hopeless stays so.
LEMMA HopelessStays ==
  ASSUME RoomLater, NEW x, x.expected \in Nat, Hopeless(x)
  PROVE  Hopeless(x)'
<1>1. CASE fenced
  BY <1>1 DEF RoomLater, Hopeless
<1>2. CASE room.revision > x.expected
  BY <1>2 DEF RoomLater, Hopeless
<1>3. CASE room.revision = x.expected /\ ~Allowed(room, x.kind)
  <2>1. CASE room' = room
    <3>1. room'.revision = x.expected /\ ~Allowed(room', x.kind)
      BY <1>3, <2>1
    <3> QED
      BY <3>1 DEF Hopeless
  <2>2. CASE room'.revision > x.expected
    BY <2>2 DEF Hopeless
  <2> QED
    BY <1>3, <2>1, <2>2 DEF RoomLater
<1> QED
  BY <1>1, <1>2, <1>3 DEF Hopeless

\* What an attempt has read or answered stays true while its command is neither sent
\* again nor applied.
LEMMA RequestFrame ==
  ASSUME RoomLater, NEW w, NEW x, NEW n \in Attempts, NEW r, RequestFact(w, x, n, r),
         Committed(w)' <=> Committed(w), x.try \in Nat, x.try > 0 => x.expected \in Nat
  PROVE  RequestFact(w, x, n, r)'
<1>1. n \in Nat /\ n > 0
  BY CommandsAssumption DEF Attempts
<1>2. ASSUME r.stage \in {"read", "ready"} PROVE ViewFact(x, r.view)'
  <2>1. ViewFact(x, r.view)
    BY <1>2 DEF RequestFact
  <2>2. r.view.revision <= room'.revision
    BY <2>1 DEF ViewFact, RoomLater
  <2>3. r.view.revision = room'.revision => r.view = room'
    BY <2>1 DEF ViewFact, RoomLater
  <2> QED
    BY <2>1, <2>2, <2>3 DEF ViewFact, RoomLater
<1>3. ASSUME r.stage = "replied" PROVE TrueReply(w, x, n, r.code)'
  <2>1. TrueReply(w, x, n, r.code)
    BY <1>3 DEF RequestFact
  <2>2. x.expected \in Nat
    BY <1>1, <1>3 DEF RequestFact
  <2>3. Hopeless(x) => Hopeless(x)'
    BY <2>2, HopelessStays
  <2> QED
    BY <2>1, <2>3 DEF TrueReply, RoomLater
<1> QED
  BY <1>2, <1>3 DEF RequestFact, Underway

\* So does everything about a window's command.
LEMMA CommandFrame ==
  ASSUME RoomLater, NEW w, NEW x, NEW q, CommandFact(w, x, q),
         Committed(w)' <=> Committed(w),
         \A k \in DOMAIN timeline' : k \in DOMAIN timeline \/ timeline'[k].cmd # w
  PROVE  CommandFact(w, x, q)'
<1>1. x.try \in Nat /\ (x.try > 0 => x.expected \in 0..room.revision)
  BY CommandsAssumption DEF CommandFact, WindowFact
<1>2. x.try > 0 => x.expected \in Nat /\ x.expected \in 0..room'.revision
  BY <1>1 DEF RoomLater
<1>3. ASSUME NEW n \in Attempts PROVE RequestFact(w, x, n, q[n])'
  BY <1>1, <1>2, RequestFrame DEF CommandFact
<1>4. ASSUME x.outcome = "refused"
      PROVE  (~Committed(w))' /\ (Hopeless(x)' \/ \A n \in Attempts : ~Underway(q[n]))
  <2>1. x.try > 0
    BY <1>1, <1>4, CommandsAssumption DEF CommandFact, WindowFact
  <2>2. ~Committed(w) /\ (Hopeless(x) \/ \A n \in Attempts : ~Underway(q[n]))
    BY <1>4 DEF CommandFact, WindowFact
  <2> QED
    BY <1>2, <2>1, <2>2, HopelessStays
<1>5. ASSUME x.outcome = "done"
      PROVE  Committed(w)' \/ (x.kind = "advance" /\ room'.phase = "finished")
  BY <1>5 DEF CommandFact, WindowFact, RoomLater
<1>6. \A k \in DOMAIN timeline' :
         timeline'[k].cmd = w => Committed(w)' /\ k = x.expected + 1 /\ x.try > 0
  BY DEF CommandFact, WindowFact, RoomLater
<1>7. Committed(w)' => \E k \in DOMAIN timeline' : timeline'[k].cmd = w
  BY DEF CommandFact, WindowFact, RoomLater
<1>8. /\ x = [state |-> x.state, kind |-> x.kind, expected |-> x.expected, try |-> x.try,
              outcome |-> x.outcome]
      /\ x.state \in {"idle", "busy", "pending"} /\ x.try \in 0..MaxTries
      /\ x.outcome \in {None, "done", "refused"}
      /\ x.state # "idle" => x.try > 0 /\ x.outcome = None
      /\ x.state = "idle" /\ x.outcome = None => x.try = 0
      /\ x.try = 0 => ~Committed(w) /\ x.outcome = None
      /\ x.try > 0 => x.kind \in CommandKinds
  BY DEF CommandFact, WindowFact
<1>9. WindowFact(w, x, q)'
  BY <1>2, <1>4, <1>5, <1>6, <1>7, <1>8 DEF WindowFact, Underway
<1>10. DOMAIN q = Attempts
  BY DEF CommandFact
<1> QED
  BY <1>3, <1>9, <1>10 DEF CommandFact

\* A step of one window's command that leaves the room alone: the others' commands are
\* as they were.
LEMMA WindowStep ==
  ASSUME CommandsIInv, NEW w \in Windows, NEW x, NEW q,
         UNCHANGED << room, timeline, receipts, fenced, roster, responses, clock >>,
         DOMAIN window' = Windows, DOMAIN request' = Windows, window'[w] = x, request'[w] = q,
         \A v \in Windows : v # w => window'[v] = window[v] /\ request'[v] = request[v],
         CommandFact(w, x, q)
  PROVE  CommandsIInv'
<1> USE DEF CommandsIInv
<1>1. RoomGrows
  BY RoomGoes DEF RoomKept
<1>2. RoomStands' /\ RoomLater
  <2>1. \A S, s : s \in Seq(S) => Len(s) \in Nat
    BY LenProperties
  <2>2. room.revision \in Nat
    BY <2>1 DEF RoomStands, IsTimeline, LastEntryIsNow
  <2> QED
    BY <1>1, <2>2 DEF RoomGrows, RoomLater
<1>3. \A v : Committed(v)' <=> Committed(v)
  BY DEF Committed
<1>4. ASSUME NEW v \in Windows PROVE CommandFact(v, window[v], request[v])'
  <2>1. PICK y, p : y = window'[v] /\ p = request'[v]
    OBVIOUS
  <2>2. CommandFact(v, y, p)
    BY <2>1
  <2>3. CommandFact(v, y, p)'
    BY <1>2, <1>3, <2>2, CommandFrame
  <2> QED
    BY <2>1, <2>3
<1> QED
  BY <1>2, <1>4

\* A reply that its window waits for is kept for it, and another is dropped.
LEMMA ReplyIsTrue ==
  ASSUME NEW w, NEW x, NEW n \in Attempts, NEW r, NEW code, TrueReply(w, x, n, code),
         r = [stage |-> "replied", view |-> None, code |-> code]
            \/ r = [stage |-> "over", view |-> None, code |-> None],
         ~(n > x.try)
  PROVE  RequestFact(w, x, n, r) /\ ~Underway(r)
<1>1. code \in Codes
  BY DEF TrueReply
<1>2. CASE r = [stage |-> "replied", view |-> None, code |-> code]
  <2>1. r.stage = "replied" /\ r.code = code
        /\ r = [stage |-> r.stage, view |-> r.view, code |-> r.code]
    BY <1>2
  <2> QED
    BY <1>1, <2>1 DEF RequestFact, Underway
<1>3. CASE r = [stage |-> "over", view |-> None, code |-> None]
  <2>1. r.stage = "over" /\ r.code = None
        /\ r = [stage |-> r.stage, view |-> r.view, code |-> r.code]
    BY <1>3
  <2> QED
    BY <2>1 DEF RequestFact, Underway
<1> QED
  BY <1>2, <1>3

\* One attempt goes on in the server, while its window waits or not.
LEMMA AttemptGoes ==
  ASSUME NEW w, NEW x, NEW q, CommandFact(w, x, q), NEW n \in Attempts, NEW r,
         RequestFact(w, x, n, r), Underway(r) => Underway(q[n]), NEW p,
         p = [q EXCEPT ![n] = r]
  PROVE  CommandFact(w, x, p)
<1>1. DOMAIN q = Attempts /\ WindowFact(w, x, q)
  BY DEF CommandFact
<1>2. /\ DOMAIN p = Attempts /\ p[n] = r
      /\ \A m \in Attempts : m # n => p[m] = q[m]
  BY <1>1
<1>3. \A m \in Attempts : Underway(p[m]) => Underway(q[m])
  BY <1>2
<1>4. WindowFact(w, x, p)
  <2>1. x.outcome = "refused" =>
           ~Committed(w) /\ (Hopeless(x) \/ \A m \in Attempts : ~Underway(p[m]))
    BY <1>1, <1>3 DEF WindowFact
  <2> QED
    BY <1>1, <2>1 DEF WindowFact
<1>5. \A m \in Attempts : RequestFact(w, x, m, p[m])
  BY <1>2 DEF CommandFact
<1> QED
  BY <1>2, <1>4, <1>5 DEF CommandFact

\* One attempt goes on, and nothing else.
LEMMA AttemptStep ==
  ASSUME CommandsIInv, NEW w \in Windows, NEW n \in Attempts, NEW r,
         UNCHANGED << room, timeline, receipts, fenced, roster, responses, clock >>,
         window' = window, request' = [request EXCEPT ![w][n] = r],
         RequestFact(w, window[w], n, r), Underway(r) => Underway(request[w][n])
  PROVE  CommandsIInv'
<1>1. PICK x, q, p : x = window[w] /\ q = request[w] /\ p = [q EXCEPT ![n] = r]
  OBVIOUS
<1>2. DOMAIN request = Windows /\ DOMAIN window = Windows /\ CommandFact(w, x, q)
  BY <1>1 DEF CommandsIInv
<1>3. /\ DOMAIN request' = Windows /\ request'[w] = p
      /\ \A v \in Windows : v # w => request'[v] = request[v]
  BY <1>1, <1>2
<1>4. CommandFact(w, x, p)
  BY <1>1, <1>2, AttemptGoes
<1> QED
  BY <1>1, <1>2, <1>3, <1>4, WindowStep

\* An attempt is answered.
LEMMA AttemptReplied ==
  ASSUME CommandsIInv, NEW w \in Windows, NEW n \in Attempts, NEW code,
         UNCHANGED << room, timeline, receipts, fenced, roster, responses, clock >>,
         window' = window, Reply(w, n, code), TrueReply(w, window[w], n, code),
         request[w][n].stage # "none"
  PROVE  CommandsIInv'
<1>1. PICK r : r = IF window[w].state = "busy" /\ window[w].try = n
                   THEN [stage |-> "replied", view |-> None, code |-> code]
                   ELSE [NoRequest EXCEPT !.stage = "over"]
  OBVIOUS
<1>2. request' = [request EXCEPT ![w][n] = r]
  BY <1>1 DEF Reply
<1>3. [NoRequest EXCEPT !.stage = "over"] = [stage |-> "over", view |-> None, code |-> None]
  BY DEF NoRequest
<1>4. \/ r = [stage |-> "replied", view |-> None, code |-> code]
      \/ r = [stage |-> "over", view |-> None, code |-> None]
  BY <1>1, <1>3
<1>5. ~(n > window[w].try)
  BY DEF CommandsIInv, CommandFact, RequestFact
<1>6. RequestFact(w, window[w], n, r) /\ ~Underway(r)
  BY <1>4, <1>5, ReplyIsTrue
<1> QED
  BY <1>2, <1>6, AttemptStep

\* What is known of a command that is on its way.
LEMMA Underways ==
  ASSUME CommandsIInv, NEW w \in Windows, NEW n \in Attempts, request[w][n].stage # "none"
  PROVE  /\ window[w].try \in Nat /\ window[w].try > 0 /\ n \in Nat /\ n <= window[w].try
         /\ window[w].expected \in Nat /\ room.revision \in Nat
         /\ window[w].expected <= room.revision /\ window[w].kind \in CommandKinds
         /\ RequestFact(w, window[w], n, request[w][n])
<1>1. CommandFact(w, window[w], request[w])
  BY DEF CommandsIInv
<1>2. RequestFact(w, window[w], n, request[w][n])
  BY <1>1 DEF CommandFact
<1>3. n \in Nat /\ n > 0 /\ window[w].try \in Nat
  BY <1>1, CommandsAssumption DEF Attempts, CommandFact, WindowFact
<1>4. n <= window[w].try
  BY <1>2, <1>3 DEF RequestFact
<1>5. window[w].expected \in 0..room.revision /\ window[w].kind \in CommandKinds
  BY <1>1, <1>3, <1>4 DEF CommandFact, WindowFact
<1>6. room.revision \in Nat
  <2>1. \A S, s : s \in Seq(S) => Len(s) \in Nat
    BY LenProperties
  <2> QED
    BY <2>1 DEF CommandsIInv, RoomStands, IsTimeline, LastEntryIsNow
<1> QED
  BY <1>2, <1>3, <1>4, <1>5, <1>6

\* The server reads the session, checks the command on it and refuses what has gone stale:
\* each of its answers is true of the session as it is now.
LEMMA AttemptSteps ==
  ASSUME CommandsIInv, NEW w \in Windows, NEW n \in Attempts,
         \/ Authorize(w, n) \/ Prepare(w, n) \/ CommitRefused(w, n)
         \/ RacedReplay(w, n) \/ RequestFails(w, n)
  PROVE  CommandsIInv'
<1>1. UNCHANGED << room, timeline, receipts, fenced, roster, responses, clock >>
      /\ window' = window
  BY DEF Authorize, Prepare, CommitRefused, RacedReplay, RequestFails, ServerKeeps, roomVars
<1>2. PICK x, r : x = window[w] /\ r = request[w][n]
  OBVIOUS
<1>3. r.stage # "none"
  BY <1>2 DEF Authorize, Prepare, CommitRefused, RacedReplay, RequestFails
<1>4. /\ x.try \in Nat /\ x.try > 0 /\ n \in Nat /\ n <= x.try
      /\ x.expected \in Nat /\ room.revision \in Nat
      /\ x.expected <= room.revision /\ x.kind \in CommandKinds
      /\ RequestFact(w, x, n, r)
  BY <1>2, <1>3, Underways
<1>5. ASSUME NEW code, Reply(w, n, code), TrueReply(w, x, n, code) PROVE CommandsIInv'
  BY <1>1, <1>2, <1>3, <1>5, AttemptReplied
<1>6. ASSUME NEW stage, NEW view, Goes(w, n, stage, view),
             RequestFact(w, x, n, [stage |-> stage, view |-> view, code |-> None]),
             stage \in {"read", "ready", "unavailable"}, Underway(r)
      PROVE  CommandsIInv'
  <2>1. PICK s : s = [stage |-> stage, view |-> view, code |-> None]
    OBVIOUS
  <2>2. request' = [request EXCEPT ![w][n] = s]
    BY <1>6, <2>1 DEF Goes
  <2> QED
    BY <1>1, <1>2, <1>6, <2>1, <2>2, AttemptStep
<1>7. Underway(r) /\ n = 1 /\ x.try = 1 => ~Committed(w)
  BY <1>4 DEF RequestFact
<1>8. ASSUME NEW code \in {"unauthorized", "internal"}, Underway(r)
      PROVE  TrueReply(w, x, n, code)
  BY <1>7, <1>8 DEF TrueReply, Codes
<1>9. ASSUME Committed(w) PROVE TrueReply(w, x, n, "ok")
  BY <1>9 DEF TrueReply, Codes
<1>10. ASSUME ~Committed(w), Hopeless(x), NEW code \in {"stale", "closed"}
       PROVE  TrueReply(w, x, n, code)
  BY <1>10 DEF TrueReply, Codes
<1>11. ASSUME x.kind = "published"
       PROVE  RequestFact(w, x, n, [stage |-> "unavailable", view |-> None, code |-> None])
  BY <1>4, <1>11 DEF RequestFact, Underway
<1>12. CASE Authorize(w, n)
  <2>1. r.stage = "sent" /\ Underway(r)
    BY <1>2, <1>12 DEF Authorize, Underway
  <2>2. CASE Reply(w, n, "unauthorized")
    BY <1>5, <1>8, <2>1, <2>2
  <2>3. CASE Goes(w, n, "read", room)
    <3>1. ViewFact(x, room)
      BY <1>4 DEF ViewFact
    <3>2. RequestFact(w, x, n, [stage |-> "read", view |-> room, code |-> None])
      BY <1>4, <1>7, <2>1, <3>1 DEF RequestFact
    <3> QED
      BY <1>6, <2>1, <2>3, <3>2
  <2> QED
    BY <1>12, <2>2, <2>3 DEF Authorize
<1>13. CASE Prepare(w, n)
  <2>1. PICK v : v = r.view
    OBVIOUS
  <2>2. r.stage = "read" /\ Underway(r)
    BY <1>2, <1>13 DEF Prepare, Underway
  <2>3. ViewFact(x, v)
    BY <1>4, <2>1, <2>2 DEF RequestFact
  <2>4. \/ Committed(w) /\ Reply(w, n, "ok")
        \/ ~Committed(w) /\ x.expected # v.revision /\ Reply(w, n, "stale")
        \/ x.kind = "advance" /\ ~Allowed(v, x.kind) /\ Reply(w, n, "ok")
        \/ /\ ~Committed(w) /\ x.expected = v.revision /\ ~Allowed(v, x.kind)
           /\ Reply(w, n, "closed")
        \/ x.kind = "published" /\ Goes(w, n, "unavailable", None)
        \/ x.expected = v.revision /\ Allowed(v, x.kind) /\ Goes(w, n, "ready", v)
    BY <1>2, <1>13, <2>1 DEF Prepare
  <2>5. CASE Committed(w) /\ Reply(w, n, "ok")
    BY <1>5, <1>9, <2>5
  <2>6. CASE ~Committed(w) /\ x.expected # v.revision /\ Reply(w, n, "stale")
    <3>1. Hopeless(x)
      BY <1>4, <2>3, <2>6 DEF ViewFact, Hopeless
    <3> QED
      BY <1>5, <1>10, <2>6, <3>1
  <2>7. CASE x.kind = "advance" /\ ~Allowed(v, x.kind) /\ Reply(w, n, "ok")
    <3>1. v.phase = "finished"
      BY <2>7 DEF Allowed
    <3>2. TrueReply(w, x, n, "ok")
      BY <2>3, <2>7, <3>1 DEF ViewFact, TrueReply, Codes
    <3> QED
      BY <1>5, <2>7, <3>2
  <2>8. CASE /\ ~Committed(w) /\ x.expected = v.revision /\ ~Allowed(v, x.kind)
             /\ Reply(w, n, "closed")
    <3>1. Hopeless(x)
      BY <1>4, <2>3, <2>8 DEF ViewFact, Hopeless
    <3> QED
      BY <1>5, <1>10, <2>8, <3>1
  <2>9. CASE x.kind = "published" /\ Goes(w, n, "unavailable", None)
    BY <1>6, <1>11, <2>2, <2>9
  <2>10. CASE x.expected = v.revision /\ Allowed(v, x.kind) /\ Goes(w, n, "ready", v)
    <3>1. RequestFact(w, x, n, [stage |-> "ready", view |-> v, code |-> None])
      BY <1>4, <1>7, <2>2, <2>3, <2>10 DEF RequestFact
    <3> QED
      BY <1>6, <2>2, <2>10, <3>1
  <2> QED
    BY <2>4, <2>5, <2>6, <2>7, <2>8, <2>9, <2>10
<1>14. CASE CommitRefused(w, n)
  <2>1. r.stage = "ready" /\ Underway(r)
    BY <1>2, <1>14 DEF CommitRefused, Underway
  <2>2. \/ Committed(w) /\ Reply(w, n, "ok")
        \/ ~Committed(w) /\ fenced /\ Reply(w, n, "closed")
        \/ ~Committed(w) /\ room.revision # x.expected /\ Reply(w, n, "stale")
        \/ x.kind = "published" /\ Goes(w, n, "unavailable", None)
    BY <1>2, <1>14 DEF CommitRefused
  <2>3. CASE Committed(w) /\ Reply(w, n, "ok")
    BY <1>5, <1>9, <2>3
  <2>4. CASE ~Committed(w) /\ fenced /\ Reply(w, n, "closed")
    BY <1>5, <1>10, <2>4 DEF Hopeless
  <2>5. CASE ~Committed(w) /\ room.revision # x.expected /\ Reply(w, n, "stale")
    <3>1. Hopeless(x)
      BY <1>4, <2>5 DEF Hopeless
    <3> QED
      BY <1>5, <1>10, <2>5, <3>1
  <2>6. CASE x.kind = "published" /\ Goes(w, n, "unavailable", None)
    BY <1>6, <1>11, <2>1, <2>6
  <2> QED
    BY <2>2, <2>3, <2>4, <2>5, <2>6
<1>15. CASE RacedReplay(w, n)
  <2>1. x.kind \in Insertions
    BY <1>2, <1>4, <1>15 DEF RacedReplay, RequestFact, Insertions
  <2>2. CASE Committed(w) /\ Reply(w, n, "ok")
    BY <1>5, <1>9, <2>2
  <2>3. CASE ~Committed(w) /\ Reply(w, n, "not_found")
    <3>1. TrueReply(w, x, n, "not_found")
      BY <2>1, <2>3 DEF TrueReply, Codes
    <3> QED
      BY <1>5, <2>3, <3>1
  <2> QED
    BY <1>15, <2>2, <2>3 DEF RacedReplay
<1>16. CASE RequestFails(w, n)
  <2>1. Underway(r) /\ Reply(w, n, "internal")
    BY <1>2, <1>16 DEF RequestFails, Underway
  <2> QED
    BY <1>5, <1>8, <2>1
<1> QED
  BY <1>12, <1>13, <1>14, <1>15, <1>16

\* A window's command sent again, and settled.
SentAgain(x, kind, expected, n) ==
    [x EXCEPT !.state = "busy", !.kind = kind, !.expected = expected, !.try = n]
Settled(x, state, outcome) == [x EXCEPT !.state = state, !.outcome = outcome]

\* A window whose record is well formed keeps its form.
LEMMA WindowFields ==
  ASSUME NEW x, NEW kind, NEW expected, NEW n, NEW state, NEW outcome,
         x = [state |-> x.state, kind |-> x.kind, expected |-> x.expected, try |-> x.try,
              outcome |-> x.outcome]
  PROVE  /\ SentAgain(x, kind, expected, n) =
               [state |-> "busy", kind |-> kind, expected |-> expected, try |-> n,
                outcome |-> x.outcome]
         /\ Settled(x, state, outcome) =
               [state |-> state, kind |-> x.kind, expected |-> x.expected, try |-> x.try,
                outcome |-> outcome]
<1>1. PICK y : y = [x EXCEPT !.state = "busy"]
  OBVIOUS
<1>2. y = [state |-> "busy", kind |-> x.kind, expected |-> x.expected, try |-> x.try,
           outcome |-> x.outcome]
  BY <1>1
<1>3. PICK z : z = [y EXCEPT !.kind = kind]
  OBVIOUS
<1>4. z = [state |-> "busy", kind |-> kind, expected |-> x.expected, try |-> x.try,
           outcome |-> x.outcome]
  BY <1>2, <1>3
<1>5. PICK v : v = [z EXCEPT !.expected = expected]
  OBVIOUS
<1>6. v = [state |-> "busy", kind |-> kind, expected |-> expected, try |-> x.try,
           outcome |-> x.outcome]
  BY <1>4, <1>5
<1>7. [v EXCEPT !.try = n] =
         [state |-> "busy", kind |-> kind, expected |-> expected, try |-> n,
          outcome |-> x.outcome]
  BY <1>6
<1>8. PICK s : s = [x EXCEPT !.state = state]
  OBVIOUS
<1>9. s = [state |-> state, kind |-> x.kind, expected |-> x.expected, try |-> x.try,
           outcome |-> x.outcome]
  BY <1>8
<1>10. [s EXCEPT !.outcome = outcome] =
          [state |-> state, kind |-> x.kind, expected |-> x.expected, try |-> x.try,
           outcome |-> outcome]
  BY <1>9
<1> QED
  BY <1>1, <1>3, <1>5, <1>7, <1>8, <1>10 DEF SentAgain, Settled

\* A command is sent, with the revision that its window shows, or sent again with the same.
LEMMA CommandSent ==
  ASSUME CommandsIInv, NEW w \in Windows, NEW n, NEW kind, NEW expected,
         Send(w, n, kind, expected), n \in Attempts, kind \in CommandKinds,
         expected \in 0..room.revision,
         window[w].outcome = None, n = window[w].try + 1,
         n > 1 => window[w].kind = kind /\ window[w].expected = expected
  PROVE  CommandsIInv'
<1>1. PICK x, q : x = window[w] /\ q = request[w]
  OBVIOUS
<1>2. DOMAIN request = Windows /\ DOMAIN window = Windows /\ CommandFact(w, x, q)
  BY <1>1 DEF CommandsIInv
<1>3. /\ x = [state |-> x.state, kind |-> x.kind, expected |-> x.expected, try |-> x.try,
              outcome |-> x.outcome]
      /\ DOMAIN q = Attempts /\ x.try \in Nat /\ n \in Nat /\ n = x.try + 1
  BY <1>1, <1>2, CommandsAssumption DEF CommandFact, WindowFact, Attempts
<1>4. PICK y, r, p : y = SentAgain(x, kind, expected, n) /\ r = [q[n] EXCEPT !.stage = "sent"]
                     /\ p = [q EXCEPT ![n] = r]
  OBVIOUS
<1>5. y = [state |-> "busy", kind |-> kind, expected |-> expected, try |-> n, outcome |-> None]
  BY <1>1, <1>3, <1>4, WindowFields
<1>6. window' = [window EXCEPT ![w] = y]
  BY <1>1, <1>2, <1>4 DEF Send, SentAgain
<1>7. request' = [request EXCEPT ![w] = p]
  BY <1>1, <1>2, <1>3, <1>4 DEF Send
<1>8. RequestFact(w, x, n, q[n]) /\ n > x.try
  BY <1>2, <1>3 DEF CommandFact
<1>9. q[n] = [stage |-> q[n].stage, view |-> q[n].view, code |-> q[n].code]
      /\ q[n].code \in Codes \cup {None}
  BY <1>8 DEF RequestFact
<1>10. r = [stage |-> "sent", view |-> q[n].view, code |-> q[n].code]
  BY <1>4, <1>9
<1>11. x.try = 0 => ~Committed(w)
  BY <1>2 DEF CommandFact, WindowFact
<1>12. RequestFact(w, y, n, r)
  <2>1. r.stage = "sent" /\ r.code \in Codes \cup {None}
        /\ r = [stage |-> r.stage, view |-> r.view, code |-> r.code]
    BY <1>9, <1>10
  <2>2. y.try = n
    BY <1>5
  <2>3. n = 1 /\ y.try = 1 => ~Committed(w)
    BY <1>3, <1>11
  <2> QED
    BY <1>3, <2>1, <2>2, <2>3 DEF RequestFact
<1>13. ASSUME NEW m \in Attempts, m # n PROVE RequestFact(w, y, m, q[m])
  <2>1. RequestFact(w, x, m, q[m]) /\ m \in Nat /\ m > 0
    BY <1>2, CommandsAssumption DEF CommandFact, Attempts
  <2>2. y.try = n /\ y.kind = kind /\ y.expected = expected
    BY <1>5
  <2>3. CASE m > x.try
    <3>1. q[m].stage = "none"
      BY <2>1, <2>3 DEF RequestFact
    <3> QED
      BY <2>1, <3>1 DEF RequestFact, Underway
  <2>4. CASE m <= x.try
    <3>1. n > 1 /\ x.kind = kind /\ x.expected = expected
      BY <1>1, <1>3, <2>1, <2>4
    <3>2. ~(m > y.try) /\ y.try # 1 /\ y.kind = x.kind /\ y.expected = x.expected
      BY <1>3, <2>1, <2>2, <2>4, <3>1
    <3>3. q[m].stage \in {"read", "ready"} => ViewFact(y, q[m].view)
      BY <2>1, <3>2 DEF RequestFact, ViewFact
    <3>4. q[m].stage = "replied" => TrueReply(w, y, m, q[m].code)
      BY <2>1, <3>2 DEF RequestFact, TrueReply, Hopeless
    <3> QED
      BY <2>1, <3>2, <3>3, <3>4 DEF RequestFact
  <2> QED
    BY <1>3, <2>1, <2>3, <2>4
<1>14. WindowFact(w, y, p)
  <2>1. /\ y.state = "busy" /\ y.kind = kind /\ y.expected = expected /\ y.try = n
        /\ y.outcome = None
        /\ y = [state |-> y.state, kind |-> y.kind, expected |-> y.expected, try |-> y.try,
                outcome |-> y.outcome]
    BY <1>5
  <2>2. n \in 0..MaxTries /\ n > 0
    BY <1>3, CommandsAssumption DEF Attempts
  <2>3. \A k \in DOMAIN timeline :
           timeline[k].cmd = w => Committed(w) /\ k = expected + 1 /\ n > 0
    <3>1. ASSUME NEW k \in DOMAIN timeline, timeline[k].cmd = w
          PROVE  Committed(w) /\ k = x.expected + 1 /\ x.try > 0
      BY <1>2, <3>1 DEF CommandFact, WindowFact
    <3>2. x.try > 0 => x.expected = expected
      BY <1>1, <1>3
    <3> QED
      BY <2>2, <3>1, <3>2
  <2>4. Committed(w) => \E k \in DOMAIN timeline : timeline[k].cmd = w
    BY <1>2 DEF CommandFact, WindowFact
  <2>5. None \notin {"done", "refused"}
    BY CommandsAssumption
  <2> QED
    BY <2>1, <2>2, <2>3, <2>4, <2>5 DEF WindowFact
<1>15. DOMAIN p = Attempts /\ p[n] = r /\ \A m \in Attempts : m # n => p[m] = q[m]
  BY <1>3, <1>4
<1>16. CommandFact(w, y, p)
  BY <1>12, <1>13, <1>14, <1>15 DEF CommandFact
<1>17. UNCHANGED << room, timeline, receipts, fenced, roster, responses, clock >>
  BY DEF Send, roomVars
<1> QED
  BY <1>2, <1>6, <1>7, <1>16, <1>17, WindowStep

\* The window hears how its command ended, or hears nothing in time.
LEMMA CommandSettled ==
  ASSUME CommandsIInv, NEW w \in Windows, Acknowledge(w) \/ AckTimeout(w)
  PROVE  CommandsIInv'
<1>1. PICK x, q : x = window[w] /\ q = request[w]
  OBVIOUS
<1>2. DOMAIN request = Windows /\ DOMAIN window = Windows /\ CommandFact(w, x, q)
  BY <1>1 DEF CommandsIInv
<1>3. /\ x = [state |-> x.state, kind |-> x.kind, expected |-> x.expected, try |-> x.try,
              outcome |-> x.outcome]
      /\ DOMAIN q = Attempts /\ x.try \in Nat /\ WindowFact(w, x, q)
  BY <1>2, CommandsAssumption DEF CommandFact, WindowFact
<1>4. x.state = "busy" /\ x.outcome = None /\ x.try > 0 /\ x.try \in Attempts
      /\ x.kind \in CommandKinds
  BY <1>1, <1>3, CommandsAssumption DEF Acknowledge, Answered, AckTimeout, WindowFact, Attempts
<1>5. UNCHANGED << room, timeline, receipts, fenced, roster, responses, clock >>
  BY DEF Acknowledge, AckTimeout, Settle, roomVars
<1>6. ASSUME NEW state \in {"idle", "pending"}, NEW outcome \in {None, "done", "refused"},
             NEW p, DOMAIN p = Attempts,
             \A m \in Attempts :
                p[m] = q[m] \/ (m = x.try /\ p[m] = [NoRequest EXCEPT !.stage = "over"]),
             window' = [window EXCEPT ![w].state = state, ![w].outcome = outcome],
             DOMAIN request' = Windows, request'[w] = p,
             \A v \in Windows : v # w => request'[v] = request[v],
             (state = "idle") <=> (outcome # None),
             outcome = "refused" =>
                ~Committed(w) /\ (Hopeless(x) \/ \A m \in Attempts : ~Underway(p[m])),
             outcome = "done" =>
                Committed(w) \/ (x.kind = "advance" /\ room.phase = "finished")
      PROVE  CommandsIInv'
  <2>1. PICK y : y = Settled(x, state, outcome)
    OBVIOUS
  <2>2. y = [state |-> state, kind |-> x.kind, expected |-> x.expected, try |-> x.try,
             outcome |-> outcome]
    BY <1>3, <2>1, WindowFields
  <2>3. window' = [window EXCEPT ![w] = y]
    BY <1>1, <1>2, <1>6, <2>1 DEF Settled
  <2>4. /\ y.state = state /\ y.kind = x.kind /\ y.expected = x.expected /\ y.try = x.try
        /\ y.outcome = outcome
        /\ y = [state |-> y.state, kind |-> y.kind, expected |-> y.expected, try |-> y.try,
                outcome |-> y.outcome]
    BY <2>2
  <2>5. Hopeless(y) <=> Hopeless(x)
    BY <2>4 DEF Hopeless
  <2>6. ASSUME NEW m \in Attempts PROVE RequestFact(w, y, m, p[m])
    <3>1. RequestFact(w, x, m, q[m])
      BY <1>2 DEF CommandFact
    <3>2. CASE p[m] = q[m]
      <4>1. q[m].stage \in {"read", "ready"} => ViewFact(y, q[m].view)
        BY <2>4, <3>1 DEF RequestFact, ViewFact
      <4>2. q[m].stage = "replied" => TrueReply(w, y, m, q[m].code)
        BY <2>4, <2>5, <3>1 DEF RequestFact, TrueReply
      <4> QED
        BY <2>4, <3>1, <3>2, <4>1, <4>2 DEF RequestFact
    <3>3. CASE m = x.try /\ p[m] = [NoRequest EXCEPT !.stage = "over"]
      <4>1. p[m] = [stage |-> "over", view |-> None, code |-> None]
        BY <3>3 DEF NoRequest
      <4>2. p[m].stage = "over" /\ p[m].code = None
            /\ p[m] = [stage |-> p[m].stage, view |-> p[m].view, code |-> p[m].code]
        BY <4>1
      <4>3. ~(m > y.try)
        BY <1>3, <2>4, <3>3
      <4> QED
        BY <4>2, <4>3 DEF RequestFact, Underway
    <3> QED
      BY <1>6, <3>2, <3>3
  <2>7. WindowFact(w, y, p)
    BY <1>3, <1>4, <1>6, <2>4, <2>5 DEF WindowFact
  <2>8. CommandFact(w, y, p)
    BY <1>6, <2>6, <2>7 DEF CommandFact
  <2> QED
    BY <1>2, <1>5, <1>6, <2>3, <2>8, WindowStep
<1>7. CASE AckTimeout(w)
  <2>1. window' = [window EXCEPT ![w].state = "pending", ![w].outcome = None]
    BY <1>7 DEF AckTimeout, Settle
  <2>2. request' = request
    BY <1>7 DEF AckTimeout
  <2>3. None \notin {"done", "refused"}
    BY CommandsAssumption
  <2> QED
    BY <1>1, <1>2, <1>3, <1>6, <2>1, <2>2, <2>3
<1>8. CASE Acknowledge(w)
  <2>1. PICK code : code = q[x.try].code
    OBVIOUS
  <2>2. PICK p : p = [q EXCEPT ![x.try] = [NoRequest EXCEPT !.stage = "over"]]
    OBVIOUS
  <2>3. PICK state : state = IF KeepsPending(code, x.kind, x.try > 1) THEN "pending" ELSE "idle"
    OBVIOUS
  <2>4. PICK outcome : outcome = IF code = "ok" THEN "done"
                                 ELSE IF KeepsPending(code, x.kind, x.try > 1) THEN None
                                 ELSE "refused"
    OBVIOUS
  <2>5. /\ q[x.try].stage = "replied"
        /\ window' = [window EXCEPT ![w].state = state, ![w].outcome = outcome]
    BY <1>1, <1>8, <2>1, <2>3, <2>4 DEF Acknowledge, Answered, Settle
  <2>6. DOMAIN request' = Windows /\ request'[w] = p
        /\ \A v \in Windows : v # w => request'[v] = request[v]
    BY <1>1, <1>2, <1>8, <2>2 DEF Acknowledge
  <2>7. TrueReply(w, x, x.try, code)
    BY <1>2, <1>4, <2>1, <2>5 DEF CommandFact, RequestFact
  <2>8. /\ DOMAIN p = Attempts
        /\ \A m \in Attempts :
              p[m] = q[m] \/ (m = x.try /\ p[m] = [NoRequest EXCEPT !.stage = "over"])
        /\ p[x.try] = [NoRequest EXCEPT !.stage = "over"]
    BY <1>3, <1>4, <2>2
  <2>9. CASE code = "ok"
    <3>1. ~KeepsPending(code, x.kind, x.try > 1)
      BY <2>9 DEF KeepsPending, AcknowledgementMayBeLost, RetryTemporarilyDenied,
                  InsertionRetryPrerequisiteDenied
    <3>2. state = "idle" /\ outcome = "done"
      BY <2>3, <2>4, <2>9, <3>1
    <3>3. Committed(w) \/ (x.kind = "advance" /\ room.phase = "finished")
      BY <2>7, <2>9 DEF TrueReply
    <3>4. None \notin {"done", "refused"} /\ outcome # "refused"
      BY <3>2, CommandsAssumption
    <3> QED
      BY <1>6, <2>5, <2>6, <2>8, <3>2, <3>3, <3>4
  <2>10. CASE code # "ok" /\ KeepsPending(code, x.kind, x.try > 1)
    <3>1. state = "pending" /\ outcome = None
      BY <2>3, <2>4, <2>10
    <3>2. None \notin {"done", "refused"}
      BY CommandsAssumption
    <3> QED
      BY <1>6, <2>5, <2>6, <2>8, <3>1, <3>2
  <2>11. CASE code # "ok" /\ ~KeepsPending(code, x.kind, x.try > 1)
    <3>1. state = "idle" /\ outcome = "refused" /\ None # "refused"
      BY <2>3, <2>4, <2>11, CommandsAssumption
    <3>2. code \in {"stale", "closed", "not_found", "unauthorized"}
      BY <2>7, <2>11 DEF TrueReply, Codes, KeepsPending, AcknowledgementMayBeLost
    <3>3. \/ code = "stale" \/ (code \in {"closed", "not_found"} /\ x.kind \notin Insertions)
          \/ x.try = 1
      BY <1>3, <1>4, <2>11, <3>2 DEF KeepsPending, RetryTemporarilyDenied,
                                     InsertionRetryPrerequisiteDenied
    <3>4. CASE code = "stale" \/ (code \in {"closed", "not_found"} /\ x.kind \notin Insertions)
      BY <1>6, <2>5, <2>6, <2>7, <2>8, <3>1, <3>4 DEF TrueReply
    <3>5. CASE x.try = 1
      <4>1. ~Committed(w)
        BY <2>7, <3>2, <3>5 DEF TrueReply
      <4>2. ASSUME NEW m \in Attempts PROVE ~Underway(p[m])
        <5>1. CASE m = 1
          <6>1. p[m].stage = "over"
            BY <2>8, <3>5, <5>1 DEF NoRequest
          <6> QED
            BY <6>1 DEF Underway
        <5>2. CASE m # 1
          <6>1. m > x.try /\ p[m] = q[m]
            BY <2>8, <3>5, <5>2, CommandsAssumption DEF Attempts
          <6>2. q[m].stage = "none"
            BY <1>2, <6>1 DEF CommandFact, RequestFact
          <6> QED
            BY <6>1, <6>2 DEF Underway
        <5> QED
          BY <5>1, <5>2
      <4> QED
        BY <1>6, <2>5, <2>6, <2>8, <3>1, <4>1, <4>2
    <3> QED
      BY <3>3, <3>4, <3>5
  <2> QED
    BY <2>9, <2>10, <2>11
<1> QED
  BY <1>7, <1>8

\* A transition of a session that is not finished.
LEMMA MovedLater ==
  ASSUME RoomStands, NEW t, NEW cmd, ApplyTransition(t, cmd), room.phase # "finished",
         UNCHANGED << roster, responses, fenced, clock >>
  PROVE  /\ RoomStands' /\ RoomLater /\ room'.revision = room.revision + 1
         /\ \A k \in DOMAIN timeline' :
               k \in DOMAIN timeline \/ (k = room.revision + 1 /\ timeline'[k].cmd = cmd)
         /\ room.revision + 1 \in DOMAIN timeline' /\ timeline'[room.revision + 1].cmd = cmd
<1>1. /\ RoomStands' /\ Len(timeline) \in Nat /\ Len(timeline') = Len(timeline) + 1
      /\ \A i \in 1..Len(timeline) : timeline'[i] = timeline[i]
      /\ DOMAIN timeline = 1..Len(timeline) /\ DOMAIN timeline' = 1..Len(timeline')
      /\ room'.revision = room.revision + 1
  BY MovedRoom
<1>2. room.revision = Len(timeline)
  BY DEF RoomStands, LastEntryIsNow
<1>3. timeline'[room.revision + 1].cmd = cmd
  <2>1. PICK e : e = Entry(t, cmd)
    OBVIOUS
  <2>2. e.cmd = cmd
    BY <2>1 DEF Entry
  <2>3. PICK S : timeline \in Seq(S)
    BY DEF RoomStands, IsTimeline
  <2>4. timeline \in Seq(S \cup {e})
    BY <2>3, SeqMonotonic
  <2>5. timeline' = Append(timeline, e)
    BY <2>1 DEF ApplyTransition
  <2>6. timeline'[Len(timeline) + 1] = e
    BY <2>4, <2>5, AppendProperties
  <2> QED
    BY <1>2, <2>2, <2>6
<1>4. RoomLater
  <2>1. room.revision \in Nat /\ room'.revision \in Nat /\ room.revision <= room'.revision
        /\ room'.revision # room.revision
    <3>1. room.revision \in Nat
      BY <1>1, <1>2
    <3>2. room'.revision = room.revision + 1
      BY <1>1
    <3> QED
      BY <3>1, <3>2
  <2>2. \A k \in DOMAIN timeline : k \in DOMAIN timeline' /\ timeline'[k] = timeline[k]
    BY <1>1
  <2>3. fenced => fenced'
    OBVIOUS
  <2> QED
    BY <2>1, <2>2, <2>3 DEF RoomLater
<1> QED
  BY <1>1, <1>2, <1>3, <1>4

\* The commands of windows that take no part in a step.
LEMMA OthersStand ==
  ASSUME CommandsIInv, UNCHANGED << window, request >>, RoomStands', RoomLater,
         \A v \in Windows : Committed(v)' <=> Committed(v),
         \A k \in DOMAIN timeline' : k \in DOMAIN timeline \/ timeline'[k].cmd \notin Windows
  PROVE  CommandsIInv'
<1>1. ASSUME NEW v \in Windows PROVE CommandFact(v, window[v], request[v])'
  <2>1. PICK y, p : y = window'[v] /\ p = request'[v]
    OBVIOUS
  <2>2. CommandFact(v, y, p)
    BY <2>1 DEF CommandsIInv
  <2>3. CommandFact(v, y, p)'
    BY <2>2, CommandFrame
  <2> QED
    BY <2>1, <2>3
<1> QED
  BY <1>1 DEF CommandsIInv

\* A transition that no window's command asks for.
LEMMA RestMovesOn ==
  ASSUME CommandsIInv, UNCHANGED << window, request >>, AdvanceByRest
  PROVE  CommandsIInv'
<1>1. /\ ApplyTransition(NextTransition(room), None) /\ room.phase # "finished"
      /\ UNCHANGED << receipts, roster, responses, fenced, clock >>
  BY DEF AdvanceByRest
<1>2. /\ RoomStands' /\ RoomLater
      /\ \A k \in DOMAIN timeline' : k \in DOMAIN timeline \/ timeline'[k].cmd = None
  BY <1>1, MovedLater DEF CommandsIInv
<1>3. None \notin Windows
  BY CommandsAssumption
<1>4. \A v \in Windows : Committed(v)' <=> Committed(v)
  BY <1>1 DEF Committed
<1> QED
  BY <1>2, <1>3, <1>4, OthersStand

\* A command is applied while the session allows it: on the session that its user saw,
\* and only by an attempt that nobody was told the end of.
LEMMA CommandApplied ==
  ASSUME CommandsIInv, NEW w \in Windows, NEW n \in Attempts, Commit(w, n)
  PROVE  CommandsIInv'
<1>1. PICK x, q, r, v : x = window[w] /\ q = request[w] /\ r = q[n] /\ v = r.view
  OBVIOUS
<1>2. /\ r.stage = "ready" /\ ~Committed(w) /\ ~fenced /\ room.revision = x.expected
      /\ ApplyTransition(Transition(v, x.kind), w)
      /\ receipts' = receipts \cup {[cmd |-> w, expected |-> x.expected,
                                     resulting |-> room.revision + 1]}
      /\ UNCHANGED << window, roster, responses, fenced, clock >>
      /\ Reply(w, n, "ok") \/ Reply(w, n, "internal")
  BY <1>1 DEF Commit, ServerKeeps, Id
<1>3. /\ DOMAIN request = Windows /\ DOMAIN window = Windows /\ CommandFact(w, x, q)
      /\ RoomStands
  BY <1>1 DEF CommandsIInv
<1>4. /\ x.try \in Nat /\ x.try > 0 /\ n \in Nat /\ n <= x.try
      /\ x.expected \in Nat /\ room.revision \in Nat /\ x.kind \in CommandKinds
      /\ RequestFact(w, x, n, r)
  BY <1>1, <1>2, Underways
<1>5. v = room /\ Allowed(room, x.kind)
  BY <1>1, <1>2, <1>4 DEF RequestFact, ViewFact
<1>6. room.phase # "finished" /\ ~Hopeless(x)
  <2>1. room.phase # "finished"
    BY <1>4, <1>5 DEF Allowed, ClosedInsertionBoundary
  <2> QED
    BY <1>2, <1>4, <1>5, <2>1 DEF Hopeless
<1>7. /\ RoomStands' /\ RoomLater /\ room'.revision = room.revision + 1
      /\ \A k \in DOMAIN timeline' :
            k \in DOMAIN timeline \/ (k = room.revision + 1 /\ timeline'[k].cmd = w)
      /\ room.revision + 1 \in DOMAIN timeline' /\ timeline'[room.revision + 1].cmd = w
  BY <1>2, <1>3, <1>6, MovedLater
<1>8. Committed(w)' /\ \A u \in Windows : u # w => (Committed(u)' <=> Committed(u))
  <2>1. PICK receipt : receipt = [cmd |-> w, expected |-> x.expected,
                                  resulting |-> room.revision + 1]
    OBVIOUS
  <2>2. receipt.cmd = w /\ receipts' = receipts \cup {receipt}
    BY <1>2, <2>1
  <2> QED
    BY <2>2 DEF Committed, Id
<1>9. PICK s : /\ \/ \E code \in {"ok", "internal"} :
                        s = [stage |-> "replied", view |-> None, code |-> code]
                  \/ s = [stage |-> "over", view |-> None, code |-> None]
               /\ request' = [request EXCEPT ![w][n] = s]
  <2>1. [NoRequest EXCEPT !.stage = "over"] = [stage |-> "over", view |-> None, code |-> None]
    BY DEF NoRequest
  <2> QED
    BY <1>2, <2>1 DEF Reply
<1>10. PICK p : p = [q EXCEPT ![n] = s]
  OBVIOUS
<1>11. DOMAIN request' = Windows /\ request'[w] = p
       /\ \A u \in Windows : u # w => request'[u] = request[u]
  BY <1>1, <1>3, <1>9, <1>10
<1>12. DOMAIN p = Attempts /\ p[n] = s /\ \A m \in Attempts : m # n => p[m] = q[m]
  BY <1>3, <1>10 DEF CommandFact
<1>13. /\ s = [stage |-> s.stage, view |-> s.view, code |-> s.code]
       /\ s.stage \in {"replied", "over"} /\ s.code \in Codes \cup {None}
       /\ s.stage = "replied" => s.code \in {"ok", "internal"}
  <2>1. ASSUME NEW code \in {"ok", "internal"},
               s = [stage |-> "replied", view |-> None, code |-> code]
        PROVE  /\ s = [stage |-> s.stage, view |-> s.view, code |-> s.code]
               /\ s.stage = "replied" /\ s.code = code
    BY <2>1
  <2>2. ASSUME s = [stage |-> "over", view |-> None, code |-> None]
        PROVE  /\ s = [stage |-> s.stage, view |-> s.view, code |-> s.code]
               /\ s.stage = "over" /\ s.code = None
    BY <2>2
  <2> QED
    BY <1>9, <2>1, <2>2 DEF Codes
<1>14. RequestFact(w, x, n, s)'
  <2>1. s.stage = "replied" => TrueReply(w, x, n, s.code)'
    BY <1>8, <1>13 DEF TrueReply, Codes
  <2> QED
    BY <1>4, <1>13, <2>1 DEF RequestFact, Underway
<1>15. ASSUME NEW m \in Attempts, m # n PROVE RequestFact(w, x, m, q[m])'
  <2>1. RequestFact(w, x, m, q[m])
    BY <1>3 DEF CommandFact
  <2>2. ~(m = 1 /\ x.try = 1)
    BY <1>4, <1>15, CommandsAssumption DEF Attempts
  <2>3. ASSUME q[m].stage \in {"read", "ready"} PROVE ViewFact(x, q[m].view)'
    <3>1. ViewFact(x, q[m].view)
      BY <2>1, <2>3 DEF RequestFact
    <3> QED
      BY <1>4, <1>6, <1>7, <3>1 DEF ViewFact
  <2>4. ASSUME q[m].stage = "replied" PROVE TrueReply(w, x, m, q[m].code)'
    <3>1. TrueReply(w, x, m, q[m].code)
      BY <2>1, <2>4 DEF RequestFact
    <3> QED
      BY <1>6, <1>8, <2>2, <3>1 DEF TrueReply
  <2> QED
    BY <2>1, <2>2, <2>3, <2>4 DEF RequestFact
<1>16. WindowFact(w, x, p)'
  <2>1. x.outcome # "refused"
    <3>1. Underway(q[n])
      BY <1>1, <1>2 DEF Underway
    <3> QED
      BY <1>3, <1>6, <3>1 DEF CommandFact, WindowFact
  <2>2. \A k \in DOMAIN timeline' :
           timeline'[k].cmd = w => Committed(w)' /\ k = x.expected + 1 /\ x.try > 0
    <3>1. ASSUME NEW k \in DOMAIN timeline, timeline'[k].cmd = w PROVE FALSE
      <4>1. timeline[k].cmd = w
        BY <1>7, <3>1 DEF RoomLater
      <4> QED
        BY <1>2, <1>3, <4>1 DEF CommandFact, WindowFact
    <3> QED
      BY <1>2, <1>4, <1>7, <1>8, <3>1
  <2>3. \E k \in DOMAIN timeline' : timeline'[k].cmd = w
    BY <1>7
  <2>4. x.expected \in 0..room'.revision
    BY <1>2, <1>4, <1>7
  <2>5. /\ x = [state |-> x.state, kind |-> x.kind, expected |-> x.expected, try |-> x.try,
                outcome |-> x.outcome]
        /\ x.state \in {"idle", "busy", "pending"} /\ x.try \in 0..MaxTries
        /\ x.outcome \in {None, "done", "refused"}
        /\ x.state # "idle" => x.try > 0 /\ x.outcome = None
        /\ x.state = "idle" /\ x.outcome = None => x.try = 0
    BY <1>3 DEF CommandFact, WindowFact
  <2> QED
    BY <1>4, <1>8, <2>1, <2>2, <2>3, <2>4, <2>5 DEF WindowFact
<1>17. CommandFact(w, x, p)'
  BY <1>12, <1>14, <1>15, <1>16 DEF CommandFact
<1>18. ASSUME NEW u \in Windows, u # w PROVE CommandFact(u, window[u], request[u])'
  <2>1. PICK y, z : y = window'[u] /\ z = request'[u]
    OBVIOUS
  <2>2. CommandFact(u, y, z)
    BY <1>2, <1>11, <1>18, <2>1 DEF CommandsIInv
  <2>3. CommandFact(u, y, z)'
    BY <1>7, <1>8, <1>18, <2>2, CommandFrame
  <2> QED
    BY <2>1, <2>3
<1>19. CommandFact(w, window[w], request[w])'
  <2>1. window'[w] = x /\ request'[w] = p
    BY <1>1, <1>2, <1>11
  <2> QED
    BY <1>17, <2>1
<1>20. DOMAIN window' = Windows
  BY <1>2, <1>3
<1> QED
  BY <1>7, <1>11, <1>18, <1>19, <1>20 DEF CommandsIInv

\* The page and the others leave the windows' commands alone, and what they do to the room
\* is not hidden from them.
LEMMA AnswersRoom ==
  ASSUME AnswersNext, ~AdvanceByRest
  PROVE  UNCHANGED << room, timeline, receipts >> /\ (fenced => fenced')
<1>1. ASSUME \/ \E for \in {"sync", "broadcast", "rest"} : StartReading(for)
             \/ ReadData \/ Confirm \/ DeadlineExpires \/ SyncFallsBack \/ RestFails
             \/ Connect \/ Disconnect \/ FallbackPolls \/ AckTimesOut \/ ConfirmTimesOut
             \/ \E k \in Keys : SubmitResponse(k)
             \/ \E m \in mail : OnEnvelope(m) \/ MailLost(m) \/ SyncAnswered(m) \/ RestAnswered(m)
             \/ \E e \in Emissions : HearReply(e)
      PROVE  UNCHANGED roomVars
  BY <1>1 DEF StartReading, ReadData, Confirm, DeadlineExpires, SyncFallsBack, RestFails, Connect,
              Disconnect, FallbackPolls, AckTimesOut, ConfirmTimesOut, SubmitResponse, OnEnvelope,
              MailLost, SyncAnswered, RestAnswered, HearReply
<1>2. ASSUME \E e \in Emissions : \/ ReceiveSubmission(e) \/ ReadContext(e) \/ AcceptResponse(e)
                                  \/ ReadAcknowledgement(e) \/ SubmissionFails(e)
      PROVE  UNCHANGED << room, timeline, receipts, fenced >>
  BY <1>2 DEF ReceiveSubmission, ReadContext, AcceptResponse, ReadAcknowledgement, SubmissionFails,
              SubmissionKeeps
<1>3. ASSUME Tick \/ \E p \in Participants : JoinParticipantWithinLimit(p) \/ RivalAnswers(p)
      PROVE  UNCHANGED << room, timeline, receipts, fenced >>
  BY <1>3 DEF Tick, JoinParticipantWithinLimit, RivalAnswers
<1>4. ASSUME StartWorkspaceDeletion PROVE UNCHANGED << room, timeline, receipts >> /\ fenced'
  BY <1>4 DEF StartWorkspaceDeletion
<1>5. \/ UNCHANGED << room, timeline, receipts, fenced >>
      \/ UNCHANGED << room, timeline, receipts >> /\ fenced'
  BY <1>1, <1>2, <1>3, <1>4 DEF AnswersNext, RoomGoesOn, roomVars
<1> QED
  BY <1>5

\* A room that makes no transition is the same to the commands.
LEMMA RoomStays ==
  ASSUME CommandsIInv, RoomStands', UNCHANGED << window, request, room, timeline, receipts >>,
         fenced => fenced'
  PROVE  CommandsIInv'
<1>1. room.revision \in Nat
  <2>1. \A S, s : s \in Seq(S) => Len(s) \in Nat
    BY LenProperties
  <2> QED
    BY <2>1 DEF CommandsIInv, RoomStands, IsTimeline, LastEntryIsNow
<1>2. RoomLater
  BY <1>1 DEF RoomLater
<1>3. \A v \in Windows : Committed(v)' <=> Committed(v)
  BY DEF Committed
<1> QED
  BY <1>2, <1>3, OthersStand

\* Every step keeps what is known of the commands.
LEMMA CommandsGoOn ==
  ASSUME CommandsIInv, RoomStands', PresentationNext
  PROVE  CommandsIInv'
<1>1. CASE CommandsNext
  <2>1. ASSUME NEW w \in Windows, NEW kind \in CommandKinds, Run(w, kind) PROVE CommandsIInv'
    <3>1. PICK shown \in 0..room.revision : Send(w, 1, kind, shown)
      BY <2>1 DEF Run
    <3>2. window[w].outcome = None /\ window[w].try = 0
      BY <2>1 DEF Run, CommandsIInv, CommandFact, WindowFact
    <3>3. PICK n : n = 1
      OBVIOUS
    <3>4. n \in Attempts /\ n = window[w].try + 1 /\ ~(n > 1)
      BY <3>2, <3>3, CommandsAssumption DEF Attempts
    <3>5. Send(w, n, kind, shown)
      BY <3>1, <3>3
    <3> QED
      BY <3>2, <3>4, <3>5, CommandSent
  <2>2. ASSUME NEW w \in Windows, Retry(w) PROVE CommandsIInv'
    <3>1. PICK n, x : n = window[w].try + 1 /\ x = window[w]
      OBVIOUS
    <3>2. Send(w, n, x.kind, x.expected) /\ x.try < MaxTries /\ x.state = "pending"
      BY <2>2, <3>1 DEF Retry
    <3>3. WindowFact(w, x, request[w])
      BY <2>2, <3>1 DEF CommandsIInv, CommandFact
    <3>4. /\ x.try > 0 /\ x.outcome = None /\ x.try \in 0..MaxTries
          /\ x.expected \in 0..room.revision /\ x.kind \in CommandKinds
      BY <3>2, <3>3 DEF WindowFact
    <3>5. n \in Attempts
      BY <3>1, <3>2, <3>4, CommandsAssumption DEF Attempts
    <3> QED
      BY <2>2, <3>1, <3>2, <3>4, <3>5, CommandSent
  <2>3. ASSUME NEW w \in Windows, Acknowledge(w) \/ AckTimeout(w) PROVE CommandsIInv'
    BY <2>3, CommandSettled
  <2>4. ASSUME NEW w \in Windows, NEW n \in Attempts,
               \/ Authorize(w, n) \/ Prepare(w, n) \/ CommitRefused(w, n)
               \/ RacedReplay(w, n) \/ RequestFails(w, n)
        PROVE  CommandsIInv'
    BY <2>4, AttemptSteps
  <2>5. ASSUME NEW w \in Windows, NEW n \in Attempts, Commit(w, n) PROVE CommandsIInv'
    BY <2>5, CommandApplied
  <2>6. CASE ArchiveOrRestoreSource \/ \E w \in Windows : ChangePass(w)
    BY <2>6, RoomStays DEF ArchiveOrRestoreSource, ChangePass, roomVars
  <2>7. CASE OthersMoveOn
    <3>1. UNCHANGED << window, request >>
      BY <2>7 DEF OthersMoveOn, commandVars
    <3>2. CASE AdvanceByRest
      BY <3>1, <3>2, RestMovesOn
    <3>3. CASE StartWorkspaceDeletion \/ Tick
      BY <3>1, <3>3, RoomStays DEF StartWorkspaceDeletion, Tick
    <3> QED
      BY <2>7, <3>2, <3>3 DEF OthersMoveOn
  <2> QED
    BY <1>1, <2>1, <2>2, <2>3, <2>4, <2>5, <2>6, <2>7 DEF CommandsNext
<1>2. CASE AnswersNext /\ UNCHANGED commandVars
  <2>1. UNCHANGED << window, request >>
    BY <1>2 DEF commandVars
  <2>2. CASE AdvanceByRest
    BY <2>1, <2>2, RestMovesOn
  <2>3. CASE ~AdvanceByRest
    BY <1>2, <2>1, <2>3, AnswersRoom, RoomStays
  <2> QED
    BY <2>2, <2>3
<1> QED
  BY <1>1, <1>2 DEF PresentationNext

\* At first no window has sent its command.
LEMMA CommandsStart ==
  ASSUME PresentationInit
  PROVE  CommandsIInv
<1>1. RoomStands
  BY PresentationStarts DEF PresentationIInv
<1>2. timeline = << >> /\ receipts = {}
  BY DEF PresentationInit, RoomInit
<1>3. DOMAIN timeline = {} /\ \A w : ~Committed(w)
  BY <1>2 DEF Committed
<1>4. window = [w \in Windows |-> NewWindow]
      /\ request = [w \in Windows |-> [n \in Attempts |-> NoRequest]]
  BY DEF PresentationInit, CommandsInit
<1>5. ASSUME NEW w \in Windows, NEW x, x = window[w] PROVE CommandFact(w, x, request[w])
  <2>1. x = [state |-> "idle", kind |-> None, expected |-> None, try |-> 0, outcome |-> None]
    BY <1>4, <1>5 DEF NewWindow
  <2>2. /\ x.state = "idle" /\ x.try = 0 /\ x.outcome = None
        /\ x = [state |-> x.state, kind |-> x.kind, expected |-> x.expected, try |-> x.try,
                outcome |-> x.outcome]
    BY <2>1
  <2>3. None \notin {"done", "refused"} /\ 0 \in 0..MaxTries
    BY CommandsAssumption
  <2>4. WindowFact(w, x, request[w])
    BY <1>3, <2>2, <2>3 DEF WindowFact
  <2>5. ASSUME NEW n \in Attempts PROVE RequestFact(w, x, n, NoRequest)
    BY DEF RequestFact, NoRequest, Underway
  <2>6. DOMAIN request[w] = Attempts /\ \A n \in Attempts : request[w][n] = NoRequest
    BY <1>4
  <2> QED
    BY <2>4, <2>5, <2>6 DEF CommandFact
<1> QED
  BY <1>1, <1>4, <1>5 DEF CommandsIInv

\* What is known of the commands is what their windows may rely on.
LEMMA CommandsAreFinal ==
  ASSUME CommandsIInv
  PROVE  CommandsInv
<1>1. CommandsTypeOK
  BY DEF CommandsIInv, CommandFact, WindowFact, RequestFact, CommandsTypeOK
<1>2. ASSUME NEW w \in Windows, NEW applied,
             applied = {k \in DOMAIN timeline : timeline[k].cmd = Id(w)}
      PROVE  /\ window[w].outcome = "refused" => applied = {}
             /\ window[w].outcome = "done" =>
                   \/ applied = {window[w].expected + 1}
                   \/ window[w].kind = "advance" /\ applied = {} /\ room.phase = "finished"
             /\ Cardinality(applied) <= 1 /\ (applied # {}) = Committed(w)
  <2>1. PICK x : x = window[w]
    OBVIOUS
  <2>2. WindowFact(w, x, request[w])
    BY <2>1 DEF CommandsIInv, CommandFact
  <2>3. (applied # {}) <=> Committed(w)
    BY <1>2, <2>2 DEF WindowFact, Id
  <2>4. applied \subseteq {x.expected + 1}
    BY <1>2, <2>2 DEF WindowFact, Id
  <2>5. Cardinality(applied) <= 1
    <3>1. CASE applied = {}
      BY <3>1, FS_EmptySet
    <3>2. CASE applied = {x.expected + 1}
      BY <3>2, FS_Singleton
    <3> QED
      BY <2>4, <3>1, <3>2
  <2>6. Committed(w) \in BOOLEAN
    BY DEF Committed
  <2>7. x.outcome = "refused" => applied = {}
    BY <2>2, <2>3 DEF WindowFact
  <2>8. x.outcome = "done" =>
           \/ applied = {x.expected + 1}
           \/ x.kind = "advance" /\ applied = {} /\ room.phase = "finished"
    BY <2>2, <2>3, <2>4 DEF WindowFact
  <2> QED
    BY <2>1, <2>3, <2>5, <2>6, <2>7, <2>8
<1>3. SettledIsFinal
  BY <1>2 DEF SettledIsFinal
<1> QED
  BY <1>1, <1>3 DEF CommandsInv

\* A command that its window was told is refused is not applied, then or later, whatever
\* its other attempts do; one that was done is done once, on the state its user saw.
THEOREM CommandsSettleForGood == PresentationSpec => []CommandsInv
<1>1. PresentationInit => CommandsIInv
  BY CommandsStart
<1>2. CommandsIInv /\ PresentationIInv'
         /\ [PresentationNext]_<< roomVars, commandVars, answersVars >> => CommandsIInv'
  <2>1. ASSUME CommandsIInv, PresentationIInv', PresentationNext PROVE CommandsIInv'
    BY <2>1, CommandsGoOn DEF PresentationIInv
  <2>2. ASSUME CommandsIInv, PresentationIInv',
               UNCHANGED << roomVars, commandVars, answersVars >>
        PROVE  CommandsIInv'
    BY <2>2, RoomStays DEF PresentationIInv, roomVars, commandVars
  <2> QED
    BY <2>1, <2>2
<1>3. CommandsIInv => CommandsInv
  BY CommandsAreFinal
<1> QED
  BY <1>1, <1>2, <1>3, PresentationStands, PTL DEF PresentationSpec

-------------------------------------------------------------------------------
(* The blocks: what has been presented stays where it is, and linked recovery *)
(* stays indivisible.                                                         *)

IsSequence(s) == \E S : s \in Seq(S)

IsInserted(b) == \E kind \in Insertions : \E i \in DOMAIN Insertion[kind] : b = Insertion[kind][i]

\* No insertion uses the id.
IsForeign(id) == \A kind \in Insertions : id \notin IdsOf(Insertion[kind])

Links(b, c) == b.recheck # None /\ b.recheck = c.id

\* The blocks of a session at the x-th of them. What was inserted and is still to come is
\* next, so nothing inserted lies behind a block of the version that is still to come.
BlocksFact(B, x) ==
    /\ IsSequence(B) /\ x \in 0..Len(B)
    /\ \A i, j \in DOMAIN B : B[i].id = B[j].id => i = j
    /\ \A i \in DOMAIN B : IsInserted(B[i]) \/ (IsForeign(B[i].id) /\ IsForeign(B[i].recheck))
    /\ \A i, j \in DOMAIN B : x < i /\ i < j /\ IsInserted(B[j]) => IsInserted(B[i])
    /\ \A i, j \in DOMAIN B : i < j /\ IsInserted(B[i]) /\ Links(B[i], B[j]) => j = i + 1
    /\ \A i, j, m \in DOMAIN B :
          i <= x /\ i < m /\ m < j /\ Links(B[i], B[j]) => ~IsInserted(B[m])

\* A sequence has its positions.
LEMMA SequencePositions ==
  ASSUME NEW B, IsSequence(B)
  PROVE  Len(B) \in Nat /\ DOMAIN B = 1..Len(B)
  BY LenProperties DEF IsSequence

\* What an insertion is made of.
LEMMA InsertionShape ==
  ASSUME NEW kind \in Insertions
  PROVE  /\ IsSequence(Insertion[kind]) /\ Len(Insertion[kind]) \in Nat
         /\ Len(Insertion[kind]) > 0 /\ DOMAIN Insertion[kind] = 1..Len(Insertion[kind])
         /\ \A i, j \in DOMAIN Insertion[kind] :
               Insertion[kind][i].id = Insertion[kind][j].id => i = j
         /\ \A i \in DOMAIN Insertion[kind] :
               Insertion[kind][i].recheck # None =>
                  /\ i + 1 \in DOMAIN Insertion[kind]
                  /\ Insertion[kind][i].recheck = Insertion[kind][i + 1].id
         /\ \A i \in DOMAIN Insertion[kind] :
               /\ Insertion[kind][i].id \in IdsOf(Insertion[kind])
               /\ Insertion[kind][i].recheck # None =>
                     Insertion[kind][i].recheck \in IdsOf(Insertion[kind])
         /\ \A other \in Insertions \ {kind} :
               IdsOf(Insertion[kind]) \cap IdsOf(Insertion[other]) = {}
<1>1. PICK C : C = Insertion[kind]
  OBVIOUS
<1>2. /\ C \in Seq({C[i] : i \in DOMAIN C}) /\ C # << >>
      /\ \A i, j \in DOMAIN C : C[i].id = C[j].id => i = j
      /\ \A i \in DOMAIN C :
            C[i].recheck = None \/ (i + 1 \in DOMAIN C /\ C[i].recheck = C[i + 1].id)
      /\ \A other \in Insertions \ {kind} : IdsOf(C) \cap IdsOf(Insertion[other]) = {}
  BY <1>1, BlocksAssumption
<1>3. IsSequence(C)
  BY <1>2 DEF IsSequence
<1>4. Len(C) \in Nat /\ DOMAIN C = 1..Len(C)
  BY <1>3, SequencePositions
<1>5. Len(C) > 0
  BY <1>2, <1>4, EmptySeq
<1>6. \A i \in DOMAIN C : C[i].id \in IdsOf(C)
  BY DEF IdsOf
<1> QED
  BY <1>1, <1>2, <1>3, <1>4, <1>5, <1>6

\* A sequence put into another.
Put(B, C, x) == SubSeq(B, 1, x) \o C \o SubSeq(B, x + 1, Len(B))

\* Where the elements of both then are.
IsPut(D, B, C, x) ==
    /\ IsSequence(D) /\ Len(D) = Len(B) + Len(C)
    /\ \A i \in 1..x : D[i] = B[i]
    /\ \A i \in 1..Len(C) : D[x + i] = C[i]
    /\ \A i \in (x + 1)..Len(B) : D[Len(C) + i] = B[i]

\* They are all there, in their order.
LEMMA PutInto ==
  ASSUME NEW B, NEW C, IsSequence(B), IsSequence(C), NEW x \in 0..Len(B), NEW D,
         D = Put(B, C, x)
  PROVE  IsPut(D, B, C, x)
<1>1. PICK S, T : B \in Seq(S) /\ C \in Seq(T)
  BY DEF IsSequence
<1>2. PICK U : U = S \cup T
  OBVIOUS
<1>3. B \in Seq(U) /\ C \in Seq(U)
  BY <1>1, <1>2, SeqMonotonic
<1>4. Len(B) \in Nat /\ Len(C) \in Nat /\ x \in Nat /\ x <= Len(B)
  BY <1>3, LenProperties
<1>5. PICK P, Q : P = SubSeq(B, 1, x) /\ Q = SubSeq(B, x + 1, Len(B))
  OBVIOUS
<1>6. \A i \in 1..Len(B) : B[i] \in U
  BY <1>3, ElementOfSeq
<1>7. P \in Seq(U) /\ Len(P) = x /\ \A i \in 1..x : P[i] = B[i]
  <2>1. \A i \in 1..x : B[i] \in U
    BY <1>4, <1>6
  <2>2. 1 \in Int /\ x \in Int
    BY <1>4
  <2>3. /\ SubSeq(B, 1, x) \in Seq(U)
        /\ Len(SubSeq(B, 1, x)) = IF 1 <= x THEN x - 1 + 1 ELSE 0
        /\ \A i \in 1..(x - 1 + 1) : SubSeq(B, 1, x)[i] = B[1 + i - 1]
    BY <2>1, <2>2, SubSeqProperties
  <2> QED
    BY <1>4, <1>5, <2>3
<1>8. Q \in Seq(U) /\ Len(Q) = Len(B) - x /\ \A i \in 1..(Len(B) - x) : Q[i] = B[x + i]
  <2>1. PICK a, b : a = x + 1 /\ b = Len(B)
    OBVIOUS
  <2>2. a \in Int /\ b \in Int /\ \A i \in a..b : B[i] \in U
    BY <1>4, <1>6, <2>1
  <2>3. /\ SubSeq(B, a, b) \in Seq(U)
        /\ Len(SubSeq(B, a, b)) = IF a <= b THEN b - a + 1 ELSE 0
        /\ \A i \in 1..(b - a + 1) : SubSeq(B, a, b)[i] = B[a + i - 1]
    BY <2>2, SubSeqProperties
  <2>4. Q = SubSeq(B, a, b)
    BY <1>5, <2>1
  <2>5. \A i \in 1..(Len(B) - x) : i \in 1..(b - a + 1) /\ a + i - 1 = x + i
    BY <1>4, <2>1
  <2> QED
    BY <1>4, <2>1, <2>3, <2>4, <2>5
<1>9. PICK R : R = P \o C
  OBVIOUS
<1>10. /\ R \in Seq(U) /\ Len(R) = x + Len(C)
       /\ \A i \in 1..(x + Len(C)) : R[i] = IF i <= x THEN P[i] ELSE C[i - x]
  BY <1>3, <1>7, <1>9, ConcatProperties
<1>11. D = R \o Q
  BY <1>5, <1>9 DEF Put
<1>12. /\ D \in Seq(U) /\ Len(D) = Len(R) + Len(Q)
       /\ \A i \in 1..(Len(R) + Len(Q)) : D[i] = IF i <= Len(R) THEN R[i] ELSE Q[i - Len(R)]
  <2>1. R \in Seq(U) /\ Q \in Seq(U)
    BY <1>8, <1>10
  <2>2. /\ R \o Q \in Seq(U) /\ Len(R \o Q) = Len(R) + Len(Q)
        /\ \A i \in 1..(Len(R) + Len(Q)) :
              (R \o Q)[i] = IF i <= Len(R) THEN R[i] ELSE Q[i - Len(R)]
    BY <2>1, ConcatProperties
  <2> QED
    BY <1>11, <2>2
<1>13. Len(D) = Len(B) + Len(C) /\ Len(R) + Len(Q) = Len(B) + Len(C)
  <2>1. Len(R) = x + Len(C) /\ Len(Q) = Len(B) - x /\ Len(D) = Len(R) + Len(Q)
    BY <1>8, <1>10, <1>12
  <2> QED
    BY <1>4, <2>1
<1>14. ASSUME NEW i \in 1..x PROVE D[i] = B[i]
  <2>1. i \in 1..(Len(R) + Len(Q)) /\ i <= Len(R) /\ i \in 1..(x + Len(C)) /\ i <= x
    BY <1>4, <1>10, <1>13
  <2> QED
    BY <1>7, <1>10, <1>12, <2>1
<1>15. ASSUME NEW i \in 1..Len(C) PROVE D[x + i] = C[i]
  <2>1. PICK k : k = x + i
    OBVIOUS
  <2>2. /\ k \in 1..(Len(R) + Len(Q)) /\ k <= Len(R) /\ k \in 1..(x + Len(C)) /\ ~(k <= x)
        /\ k - x = i
    BY <1>4, <1>10, <1>13, <2>1
  <2>3. D[k] = R[k] /\ R[k] = C[k - x]
    BY <1>10, <1>12, <2>2
  <2> QED
    BY <2>1, <2>2, <2>3
<1>16. ASSUME NEW i \in (x + 1)..Len(B) PROVE D[Len(C) + i] = B[i]
  <2>1. PICK k : k = Len(C) + i
    OBVIOUS
  <2>2. PICK l : l = k - Len(R)
    OBVIOUS
  <2>3. /\ k \in 1..(Len(R) + Len(Q)) /\ ~(k <= Len(R)) /\ l \in 1..(Len(B) - x) /\ x + l = i
    BY <1>4, <1>10, <1>13, <2>1, <2>2
  <2>4. D[k] = Q[l] /\ Q[l] = B[x + l]
    BY <1>8, <1>12, <2>2, <2>3
  <2> QED
    BY <2>1, <2>3, <2>4
<1>17. IsSequence(D)
  BY <1>12 DEF IsSequence
<1> QED
  BY <1>13, <1>14, <1>15, <1>16, <1>17 DEF IsPut

\* The next block is presented.
LEMMA BlocksAdvance ==
  ASSUME NEW B, NEW x, BlocksFact(B, x), x < Len(B)
  PROVE  BlocksFact(B, x + 1)
<1>1. Len(B) \in Nat /\ DOMAIN B = 1..Len(B) /\ x \in Nat
  BY SequencePositions DEF BlocksFact
<1>2. x + 1 \in 0..Len(B)
  BY <1>1
<1>3. \A i, j \in DOMAIN B : x + 1 < i /\ i < j /\ IsInserted(B[j]) => IsInserted(B[i])
  <2>1. \A i \in DOMAIN B : x + 1 < i => x < i
    BY <1>1
  <2> QED
    BY <2>1 DEF BlocksFact
<1>4. ASSUME NEW i \in DOMAIN B, NEW j \in DOMAIN B, NEW m \in DOMAIN B,
             i <= x + 1, i < m, m < j, Links(B[i], B[j])
      PROVE  ~IsInserted(B[m])
  <2>1. CASE i <= x
    BY <1>4, <2>1 DEF BlocksFact
  <2>2. CASE i = x + 1
    <3>1. i < j /\ j # i + 1 /\ x < i
      BY <1>1, <1>4, <2>2
    <3>2. ~IsInserted(B[i])
      BY <1>4, <3>1 DEF BlocksFact
    <3> QED
      BY <1>4, <3>1, <3>2 DEF BlocksFact
  <2> QED
    BY <1>1, <1>4, <2>1, <2>2
<1> QED
  BY <1>2, <1>3, <1>4 DEF BlocksFact

\* What an insertion leaves of the blocks.
IsInsertion(D, B, kind, x) ==
    /\ BlocksFact(D, x + 1) /\ \A i \in 1..x : D[i] = B[i]
    /\ \A i \in DOMAIN D : (\E j \in DOMAIN B : D[i] = B[j])
                               \/ D[i].id \in IdsOf(Insertion[kind])

\* Questions are put behind the block presented, where no question is linked across.
LEMMA BlocksInsert ==
  ASSUME NEW B, NEW x, BlocksFact(B, x), NEW kind \in Insertions,
         \A i \in DOMAIN B : B[i].id \notin IdsOf(Insertion[kind]),
         \A i \in 1..x, j \in (x + 1)..Len(B) : B[i].recheck # B[j].id,
         NEW D, D = Put(B, Insertion[kind], x)
  PROVE  IsInsertion(D, B, kind, x)
<1>1. PICK C : C = Insertion[kind]
  OBVIOUS
<1>2. PICK n, l : n = Len(B) /\ l = Len(C)
  OBVIOUS
<1>3. /\ IsSequence(C) /\ l \in Nat /\ l > 0 /\ DOMAIN C = 1..l
      /\ \A i, j \in DOMAIN C : C[i].id = C[j].id => i = j
      /\ \A i \in DOMAIN C :
            C[i].recheck # None => i + 1 \in DOMAIN C /\ C[i].recheck = C[i + 1].id
      /\ \A i \in DOMAIN C :
            C[i].id \in IdsOf(C) /\ (C[i].recheck # None => C[i].recheck \in IdsOf(C))
      /\ \A other \in Insertions \ {kind} : IdsOf(C) \cap IdsOf(Insertion[other]) = {}
  BY <1>1, <1>2, InsertionShape
<1>4. IsSequence(B) /\ n \in Nat /\ DOMAIN B = 1..n /\ x \in Nat /\ x <= n /\ x \in 0..Len(B)
  BY <1>2, SequencePositions DEF BlocksFact
<1>5. D = Put(B, C, x)
  BY <1>1
<1>6. /\ IsSequence(D) /\ Len(D) = n + l
      /\ \A i \in 1..x : D[i] = B[i]
      /\ \A i \in 1..l : D[x + i] = C[i]
      /\ \A i \in (x + 1)..n : D[l + i] = B[i]
  <2>1. IsSequence(B) /\ IsSequence(C) /\ x \in 0..Len(B)
    BY <1>3, <1>4
  <2>2. IsPut(D, B, C, x)
    BY <1>5, <2>1, PutInto
  <2> QED
    BY <1>2, <2>2 DEF IsPut
<1>7. DOMAIN D = 1..(n + l)
  BY <1>6, SequencePositions
<1>8. n \in Nat /\ l \in Nat /\ l > 0 /\ x \in Nat /\ x <= n
  BY <1>3, <1>4
\* Where a block of the result comes from.
<1> DEFINE Before(i) == i \in 1..x /\ i \in DOMAIN B /\ D[i] = B[i]
           Among(i) == i - x \in DOMAIN C /\ D[i] = C[i - x] /\ x < i /\ i <= x + l
           Behind(i) == i - l \in DOMAIN B /\ D[i] = B[i - l] /\ x < i - l /\ x + l < i
<1>9. \A i \in DOMAIN D : i \in Nat /\ (Before(i) \/ Among(i) \/ Behind(i))
  <2>1. ASSUME NEW i \in DOMAIN D PROVE i \in Nat /\ (Before(i) \/ Among(i) \/ Behind(i))
    <3>1. i \in Nat /\ 1 <= i /\ i <= n + l
      BY <1>7, <1>8
    <3>2. CASE i <= x
      <4>1. i \in 1..x /\ i \in DOMAIN B
        BY <1>4, <3>1, <3>2
      <4> QED
        BY <1>6, <3>1, <4>1
    <3>3. CASE x < i /\ i <= x + l
      <4>1. PICK k : k = i - x
        OBVIOUS
      <4>2. k \in 1..l /\ x + k = i
        BY <1>3, <1>4, <3>1, <3>3, <4>1
      <4>3. D[x + k] = C[k]
        BY <1>6, <4>2
      <4> QED
        BY <1>3, <3>1, <3>3, <4>1, <4>2, <4>3
    <3>4. CASE x + l < i
      <4>1. PICK k : k = i - l
        OBVIOUS
      <4>2. k \in (x + 1)..n /\ l + k = i /\ x < k /\ k \in DOMAIN B
        BY <1>3, <1>4, <3>1, <3>4, <4>1
      <4>3. D[l + k] = B[k]
        BY <1>6, <4>2
      <4> QED
        BY <3>1, <3>4, <4>1, <4>2, <4>3
    <3>5. i <= x \/ (x < i /\ i <= x + l) \/ x + l < i
      BY <1>8, <3>1
    <3> QED
      BY <3>1, <3>2, <3>3, <3>4, <3>5
  <2> QED
    BY <2>1
<1>10. /\ \A i \in DOMAIN B : B[i].id \notin IdsOf(C)
      /\ \A i \in 1..x, j \in DOMAIN B : x < j => B[i].recheck # B[j].id
  BY <1>1, <1>2, <1>4
\* Nothing of the session is linked to what comes in, nor the other way round.
<1>11. ASSUME NEW i \in DOMAIN B, NEW k \in DOMAIN C
       PROVE  ~Links(B[i], C[k]) /\ ~Links(C[k], B[i])
  <2>1. C[k].id \in IdsOf(C) /\ B[i].id \notin IdsOf(C)
    BY <1>3, <1>10
  <2>2. ~Links(C[k], B[i])
    BY <1>3, <2>1 DEF Links
  <2>3. ASSUME Links(B[i], C[k]) PROVE FALSE
    <3>1. B[i].recheck \in IdsOf(C) /\ B[i].recheck # None
      BY <2>1, <2>3 DEF Links
    <3>2. ~IsForeign(B[i].recheck)
      BY <1>1, <3>1 DEF IsForeign
    <3>3. IsInserted(B[i])
      BY <3>2 DEF BlocksFact
    <3>4. PICK other \in Insertions : \E h \in DOMAIN Insertion[other] : B[i] = Insertion[other][h]
      BY <3>3 DEF IsInserted
    <3>5. PICK h \in DOMAIN Insertion[other] : B[i] = Insertion[other][h]
      BY <3>4
    <3>6. B[i].recheck \in IdsOf(Insertion[other]) /\ B[i].id \in IdsOf(Insertion[other])
      BY <3>1, <3>5, InsertionShape
    <3>7. other = kind
      BY <1>3, <3>1, <3>6
    <3> QED
      BY <1>1, <2>1, <3>6, <3>7
  <2> QED
    BY <2>2, <2>3
<1>12. \A k \in DOMAIN C : IsInserted(C[k])
  BY <1>1 DEF IsInserted
<1>13. \A k, h \in DOMAIN C : Links(C[k], C[h]) => h = k + 1
  BY <1>3 DEF Links
<1>14. /\ \A i, j \in DOMAIN B : B[i].id = B[j].id => i = j
       /\ \A i, j \in DOMAIN B : x < i /\ i < j /\ IsInserted(B[j]) => IsInserted(B[i])
       /\ \A i, j \in DOMAIN B : i < j /\ IsInserted(B[i]) /\ Links(B[i], B[j]) => j = i + 1
       /\ \A i, j, m \in DOMAIN B :
             i <= x /\ i < m /\ m < j /\ Links(B[i], B[j]) => ~IsInserted(B[m])
       /\ \A i \in DOMAIN B :
             IsInserted(B[i]) \/ (IsForeign(B[i].id) /\ IsForeign(B[i].recheck))
  BY DEF BlocksFact
<1> HIDE DEF Before, Among, Behind
<1>15. ASSUME NEW i \in DOMAIN D, NEW j \in DOMAIN D, D[i].id = D[j].id PROVE i = j
  <2>1. i \in Nat /\ j \in Nat
    BY <1>9
  <2>2. \A k \in DOMAIN C, h \in DOMAIN B : C[k].id # B[h].id
    BY <1>3, <1>10
  <2>3. \/ (Before(i) /\ Before(j)) \/ (Among(i) /\ Among(j)) \/ (Behind(i) /\ Behind(j))
        \/ (Before(i) /\ Behind(j)) \/ (Behind(i) /\ Before(j))
    BY <1>9, <1>15, <2>2 DEF Before, Among, Behind
  <2>4. CASE Before(i) /\ Before(j)
    BY <1>14, <1>15, <2>4 DEF Before
  <2>5. CASE Among(i) /\ Among(j)
    <3>1. i - x = j - x
      BY <1>3, <1>15, <2>5 DEF Among
    <3> QED
      BY <1>4, <2>1, <3>1
  <2>6. CASE Behind(i) /\ Behind(j)
    <3>1. i - l = j - l
      BY <1>14, <1>15, <2>6 DEF Behind
    <3> QED
      BY <1>3, <2>1, <3>1
  <2>7. CASE Before(i) /\ Behind(j)
    <3>1. i = j - l
      BY <1>14, <1>15, <2>7 DEF Before, Behind
    <3> QED
      BY <1>4, <2>7, <3>1 DEF Before, Behind
  <2>8. CASE Behind(i) /\ Before(j)
    <3>1. j = i - l
      BY <1>14, <1>15, <2>8 DEF Before, Behind
    <3> QED
      BY <1>4, <2>8, <3>1 DEF Before, Behind
  <2> QED
    BY <2>3, <2>4, <2>5, <2>6, <2>7, <2>8
<1>16. \A i \in DOMAIN D : IsInserted(D[i]) \/ (IsForeign(D[i].id) /\ IsForeign(D[i].recheck))
  BY <1>9, <1>12, <1>14 DEF Before, Among, Behind
<1>17. ASSUME NEW i \in DOMAIN D, NEW j \in DOMAIN D, x + 1 < i, i < j, IsInserted(D[j])
       PROVE  IsInserted(D[i])
  <2>1. CASE Among(i)
    BY <1>12, <2>1 DEF Among
  <2>2. CASE Behind(i)
    <3>1. Behind(j)
      <4>1. i \in Nat /\ j \in Nat /\ x + l < i
        BY <1>9, <2>2 DEF Behind
      <4>2. ~(j <= x) /\ ~(j <= x + l)
        BY <1>17, <1>8, <4>1
      <4>3. ~Before(j) /\ ~Among(j)
        BY <4>1, <4>2 DEF Before, Among
      <4> QED
        BY <1>9, <4>3
    <3>2. i - l < j - l /\ x < i - l
      BY <1>3, <1>9, <1>17, <2>2 DEF Behind
    <3> QED
      BY <1>14, <1>17, <2>2, <3>1, <3>2 DEF Behind
  <2>3. ~Before(i)
    <3>1. i \in Nat /\ ~(i <= x)
      BY <1>9, <1>17, <1>8
    <3> QED
      BY <3>1 DEF Before
  <2> QED
    BY <1>9, <2>1, <2>2, <2>3
<1>18. ASSUME NEW i \in DOMAIN D, NEW j \in DOMAIN D, i < j, Links(D[i], D[j])
       PROVE  \/ (Before(i) /\ Before(j)) \/ (Among(i) /\ Among(j))
              \/ (Behind(i) /\ Behind(j))
  <2>1. i \in Nat /\ j \in Nat
    BY <1>9
  <2>2. ~(Before(i) /\ Among(j)) /\ ~(Among(i) /\ Behind(j))
    BY <1>11, <1>18 DEF Before, Among, Behind
  <2>3. ~(Before(i) /\ Behind(j))
    BY <1>10, <1>18 DEF Before, Behind, Links
  <2>4. ASSUME Among(i) PROVE ~Before(j)
    <3>1. x < i /\ ~(j <= x)
      BY <1>18, <1>8, <2>1, <2>4 DEF Among
    <3> QED
      BY <1>8, <3>1 DEF Before
  <2>5. ASSUME Behind(i) PROVE ~Before(j) /\ ~Among(j)
    <3>1. x + l < i
      BY <2>5 DEF Behind
    <3>2. ~(j <= x) /\ ~(j <= x + l)
      BY <1>18, <1>8, <2>1, <3>1
    <3> QED
      BY <1>8, <3>2 DEF Before, Among
  <2> QED
    BY <1>9, <2>2, <2>3, <2>4, <2>5
<1>19. ASSUME NEW i \in DOMAIN D, NEW j \in DOMAIN D, i < j, IsInserted(D[i]), Links(D[i], D[j])
       PROVE  j = i + 1
  <2>1. i \in Nat /\ j \in Nat
    BY <1>9
  <2>2. CASE Before(i) /\ Before(j)
    BY <1>14, <1>19, <2>2 DEF Before
  <2>3. CASE Among(i) /\ Among(j)
    <3>1. j - x = (i - x) + 1
      BY <1>13, <1>19, <2>3 DEF Among
    <3> QED
      BY <1>4, <2>1, <3>1
  <2>4. CASE Behind(i) /\ Behind(j)
    <3>1. i - l < j - l
      BY <1>3, <1>19, <2>1
    <3>2. j - l = (i - l) + 1
      BY <1>14, <1>19, <2>4, <3>1 DEF Behind
    <3> QED
      BY <1>3, <2>1, <3>2
  <2> QED
    BY <1>18, <1>19, <2>2, <2>3, <2>4
<1>20. ASSUME NEW i \in DOMAIN D, NEW j \in DOMAIN D, NEW m \in DOMAIN D,
              i <= x + 1, i < m, m < j, Links(D[i], D[j])
       PROVE  ~IsInserted(D[m])
  <2>1. i \in Nat /\ j \in Nat /\ m \in Nat /\ i < j
    BY <1>9, <1>20
  <2>2. CASE Before(i) /\ Before(j)
    <3>1. Before(m)
      <4>1. j \in 1..x
        BY <2>2 DEF Before
      <4>2. m <= x /\ ~(x < m) /\ ~(x + l < m)
        BY <1>20, <1>8, <2>1, <4>1
      <4>3. ~Among(m) /\ ~Behind(m)
        BY <4>2 DEF Among, Behind
      <4> QED
        BY <1>9, <4>3
    <3>2. i <= x
      BY <2>2 DEF Before
    <3> QED
      BY <1>14, <1>20, <2>2, <3>1, <3>2 DEF Before
  <2>3. CASE Among(i) /\ Among(j)
    <3>1. j - x = (i - x) + 1
      BY <1>13, <1>20, <2>3 DEF Among
    <3> QED
      BY <1>4, <1>20, <2>1, <3>1
  <2>4. CASE Behind(i) /\ Behind(j)
    BY <1>3, <1>4, <1>20, <2>1, <2>4 DEF Behind
  <2> QED
    BY <1>18, <1>20, <2>1, <2>2, <2>3, <2>4
<1>21. x + 1 \in 0..Len(D)
  BY <1>3, <1>4, <1>6
<1>22. BlocksFact(D, x + 1)
  BY <1>6, <1>15, <1>16, <1>17, <1>19, <1>20, <1>21 DEF BlocksFact
<1>23. \A i \in DOMAIN D : (\E j \in DOMAIN B : D[i] = B[j]) \/ D[i].id \in IdsOf(C)
  BY <1>3, <1>9 DEF Before, Among, Behind
<1> QED
  BY <1>1, <1>6, <1>22, <1>23 DEF IsInsertion

-------------------------------------------------------------------------------
(* The room: its timeline names the blocks that were presented.               *)

\* The index of a session only grows, and grows when a question is opened.
TimelineStands ==
    \A k \in DOMAIN timeline :
        /\ timeline[k].index \in 0..room.index
        /\ timeline[k].index # 0 => room.blocks[timeline[k].index].id = timeline[k].block
        /\ timeline[k].phase = "question_open" => timeline[k].index # 0
        /\ timeline[k].seq \in 0..EventSeq(room, roster, responses)
        /\ \A j \in DOMAIN timeline :
              j < k => /\ timeline[j].seq < timeline[k].seq
                       /\ timeline[k].phase = "question_open" =>
                             timeline[j].index < timeline[k].index

PhaseStands ==
    /\ room.phase \in Phases /\ room.status \in {"active", "finished"}
    /\ (room.status = "finished") <=> (room.phase = "finished")
    /\ room.phase = "lobby" => room.index = 0
    /\ roster \subseteq Participants /\ clock \in 0..MaxTime /\ fenced \in BOOLEAN

RoomIInv == BlocksFact(room.blocks, room.index) /\ TimelineStands /\ PhaseStands

\* What may be inserted more than once is inserted by one command each time.
InsertionsStand ==
    /\ \A w \in Windows : window[w].try > 0 => window[w].kind \in Offers[w]
    /\ \A kind \in {"pack", "published"} :
          Inserted(room, kind) => \E w \in Windows : Committed(w) /\ window[w].kind = kind

\* The transition to t that a command of some kind asks for: the blocks presented stay, a
\* question is opened at the next of them, and what comes in is what the kind inserts.
TransitionFact(t, kind) ==
    /\ BlocksFact(t.blocks, t.index) /\ \A i \in 1..room.index : t.blocks[i] = room.blocks[i]
    /\ t.index = room.index \/ t.index = room.index + 1
    /\ t.phase = "question_open" => t.index = room.index + 1
    /\ t.phase \in Phases \ {"lobby"}
    /\ t.status \in {"active", "finished"} /\ (t.status = "finished" <=> t.phase = "finished")
    /\ \A i \in DOMAIN t.blocks :
          \/ \E j \in DOMAIN room.blocks : t.blocks[i] = room.blocks[j]
          \/ kind \in Insertions /\ t.blocks[i].id \in IdsOf(Insertion[kind])

\* A transition has what it was given.
LEMMA ToFields ==
  ASSUME NEW r, NEW phase, NEW index, NEW blocks, NEW t, t = To(r, phase, index, blocks)
  PROVE  /\ t.phase = phase /\ t.index = index /\ t.blocks = blocks
         /\ t.status = IF phase = "finished" THEN "finished" ELSE "active"
  BY DEF To

\* The blocks stay, and the next one or none is presented.
StaysOrPresents(t, phase, index) ==
    /\ t.phase = phase /\ t.index = index /\ t.blocks = room.blocks
    /\ t.status = IF phase = "finished" THEN "finished" ELSE "active"
    /\ phase \in Phases \ {"lobby"}
    /\ index = room.index \/ (index = room.index + 1 /\ room.index < Len(room.blocks))
    /\ phase = "question_open" => index = room.index + 1

\* Whatever the command, that is such a transition.
LEMMA PresentingStands ==
  ASSUME RoomIInv, NEW kind, NEW t, NEW phase, NEW index, StaysOrPresents(t, phase, index)
  PROVE  TransitionFact(t, kind)
<1>1. PICK B, x : B = room.blocks /\ x = room.index
  OBVIOUS
<1>2. BlocksFact(B, x) /\ Len(B) \in Nat /\ x \in Nat /\ x <= Len(B) /\ DOMAIN B = 1..Len(B)
  BY <1>1, SequencePositions DEF RoomIInv, BlocksFact
<1>3. /\ t.phase = phase /\ t.index = index /\ t.blocks = B
      /\ t.status = IF phase = "finished" THEN "finished" ELSE "active"
      /\ phase \in Phases \ {"lobby"}
      /\ index = x \/ (index = x + 1 /\ x < Len(B))
      /\ phase = "question_open" => index = x + 1
  BY <1>1 DEF StaysOrPresents
<1>4. BlocksFact(B, index)
  BY <1>2, <1>3, BlocksAdvance
<1> QED
  BY <1>1, <1>3, <1>4 DEF TransitionFact

\* Each transition of the service is one.
LEMMA TransitionStands ==
  ASSUME RoomIInv, NEW kind \in CommandKinds, Allowed(room, kind),
         kind \in {"pack", "published"} => ~Inserted(room, kind)
  PROVE  TransitionFact(Transition(room, kind), kind)
<1>1. PICK B, x, t : B = room.blocks /\ x = room.index /\ t = Transition(room, kind)
  OBVIOUS
<1>2. BlocksFact(B, x) /\ Len(B) \in Nat /\ x \in Nat /\ x <= Len(B) /\ DOMAIN B = 1..Len(B)
  BY <1>1, SequencePositions DEF RoomIInv, BlocksFact
<1>3. room.phase # "finished" /\ room.phase \in Phases
  <2>1. kind \in {"advance", "card"} \cup Insertions
    BY DEF CommandKinds
  <2>2. kind \in Insertions => ClosedInsertionBoundary(room)
    BY DEF Allowed, Insertions
  <2> QED
    BY <2>1, <2>2 DEF Allowed, ClosedInsertionBoundary, RoomIInv, PhaseStands
<1>5. CASE kind = "advance"
  <2>1. t = NextTransition(room)
    BY <1>1, <1>5 DEF Transition
  <2>2. CASE room.phase = "question_open"
    <3>1. t = To(room, "question_reveal", x, B)
      <4>1. ~BranchesToRecheck(room)
        BY <2>2 DEF BranchesToRecheck
      <4> QED
        BY <1>1, <2>1, <2>2, <4>1 DEF NextTransition
    <3>2. StaysOrPresents(t, "question_reveal", x)
      BY <1>1, <3>1, ToFields DEF StaysOrPresents, Phases
    <3> QED
      BY <1>1, <3>2, PresentingStands
  <2>3. CASE room.phase # "question_open" /\ BranchesToRecheck(room)
    <3>1. t = To(room, "intervention", x, B)
      BY <1>1, <2>1, <2>3, Zenon DEF NextTransition
    <3>2. StaysOrPresents(t, "intervention", x)
      BY <1>1, <3>1, ToFields DEF StaysOrPresents, Phases
    <3> QED
      BY <1>1, <3>2, PresentingStands
  <2>4. CASE room.phase # "question_open" /\ ~BranchesToRecheck(room) /\ x < Len(B)
    <3>1. t = Present(room, x + 1, B)
      BY <1>1, <2>1, <2>4 DEF NextTransition
    <3>2. PICK phase, index : /\ phase = (IF B[x + 1].kind = "content" THEN "content"
                                          ELSE "question_open")
                              /\ index = x + 1
      OBVIOUS
    <3>3. t = To(room, phase, index, B)
      BY <3>1, <3>2 DEF Present
    <3>4. /\ t.phase = phase /\ t.index = index /\ t.blocks = B
          /\ t.status = IF phase = "finished" THEN "finished" ELSE "active"
      BY <3>3, ToFields
    <3>5. phase \in Phases \ {"lobby"} /\ phase # "finished"
      BY <3>2 DEF Phases
    <3>6. StaysOrPresents(t, phase, index)
      BY <1>1, <2>4, <3>2, <3>4, <3>5 DEF StaysOrPresents
    <3> QED
      BY <1>1, <3>6, PresentingStands
  <2>5. CASE room.phase # "question_open" /\ ~BranchesToRecheck(room) /\ ~(x < Len(B))
    <3>1. t = To(room, "finished", x, B)
      BY <1>1, <2>1, <2>5 DEF NextTransition
    <3>2. StaysOrPresents(t, "finished", x)
      BY <1>1, <3>1, ToFields DEF StaysOrPresents, Phases
    <3> QED
      BY <1>1, <3>2, PresentingStands
  <2> QED
    BY <2>2, <2>3, <2>4, <2>5
<1>6. CASE kind = "card"
  <2>1. PICK s : s = To(room, "intervention", x, B)
    OBVIOUS
  <2>2. s = [phase |-> "intervention", index |-> x, blocks |-> B, card |-> None,
             status |-> "active"]
    BY <2>1 DEF To
  <2>3. t = [s EXCEPT !.card = CurrentId(room)]
    BY <1>1, <1>6, <2>1 DEF Transition, CardTransition
  <2>4. t.phase = "intervention" /\ t.index = x /\ t.blocks = B /\ t.status = "active"
    BY <2>2, <2>3
  <2>5. StaysOrPresents(t, "intervention", x)
    BY <1>1, <2>4 DEF StaysOrPresents, Phases
  <2> QED
    BY <1>1, <2>5, PresentingStands
<1>7. CASE kind \in Insertions
  <2>1. ~Inserted(room, kind) /\ ClosedInsertionBoundary(room)
    BY <1>7 DEF Allowed, Insertions
  <2>2. \A i \in DOMAIN B : B[i].id \notin IdsOf(Insertion[kind])
    BY <1>1, <2>1 DEF Inserted, IdsOf
  <2>3. \A i \in 1..x, j \in (x + 1)..Len(B) : B[i].recheck # B[j].id
    <3>1. CASE room.phase = "lobby"
      BY <1>1, <3>1 DEF RoomIInv, PhaseStands
    <3>2. CASE room.phase # "lobby"
      BY <1>1, <2>1, <3>2 DEF ClosedInsertionBoundary
    <3> QED
      BY <3>1, <3>2
  <2>4. PICK D : D = Put(B, Insertion[kind], x)
    OBVIOUS
  <2>5. t = To(room, "question_open", x + 1, D)
    <3>1. t = InsertionTransition(room, kind)
      BY <1>1, <1>7 DEF Transition, Insertions
    <3> QED
      BY <1>1, <2>4, <3>1 DEF InsertionTransition, Put
  <2>6. /\ t.phase = "question_open" /\ t.index = x + 1 /\ t.blocks = D
        /\ t.status = "active"
    BY <2>5, ToFields
  <2>7. IsInsertion(D, B, kind, x)
    BY <1>2, <1>7, <2>2, <2>3, <2>4, BlocksInsert
  <2>8. "question_open" \in Phases \ {"lobby"}
    BY DEF Phases
  <2> QED
    BY <1>1, <1>7, <2>6, <2>7, <2>8 DEF TransitionFact, IsInsertion
<1> QED
  BY <1>1, <1>5, <1>6, <1>7 DEF CommandKinds

\* A transition is recorded last.
LEMMA EntryRecorded ==
  ASSUME RoomStands, NEW t, NEW cmd, ApplyTransition(t, cmd)
  PROVE  timeline'[Len(timeline) + 1] = Entry(t, cmd)
<1>1. PICK e : e = Entry(t, cmd)
  OBVIOUS
<1>2. PICK S : timeline \in Seq(S)
  BY DEF RoomStands, IsTimeline
<1>3. timeline \in Seq(S \cup {e})
  BY <1>2, SeqMonotonic
<1>4. timeline' = Append(timeline, e)
  BY <1>1 DEF ApplyTransition
<1>5. timeline'[Len(timeline) + 1] = e
  BY <1>3, <1>4, AppendProperties
<1> QED
  BY <1>1, <1>5

\* A transition of the room leaves its record coherent.
LEMMA RoomMoved ==
  ASSUME RoomIInv, RoomStands, NEW t, NEW kind, TransitionFact(t, kind), NEW cmd,
         ApplyTransition(t, cmd), UNCHANGED << roster, responses, fenced, clock >>
  PROVE  RoomIInv'
<1>1. PICK n, x, y, s : /\ n = Len(timeline) /\ x = room.index /\ y = t.index
                        /\ s = EventSeq(room, roster, responses)
  OBVIOUS
<1>2. /\ n \in Nat /\ Len(timeline') = n + 1 /\ DOMAIN timeline = 1..n
      /\ DOMAIN timeline' = 1..(n + 1)
      /\ \A i \in 1..n : timeline'[i] = timeline[i]
  BY <1>1, MovedRoom
<1>3. PICK e : e = Entry(t, cmd)
  OBVIOUS
<1>4. timeline'[n + 1] = e
  BY <1>1, <1>3, EntryRecorded
<1>5. room' = Moved(t)
  BY DEF ApplyTransition
<1>6. /\ room'.phase = t.phase /\ room'.index = y /\ room'.blocks = t.blocks
      /\ room'.status = t.status /\ room'.revision = room.revision + 1
  BY <1>1, <1>5 DEF Moved
<1>7. /\ e.seq = EventSeq(room', roster, responses) /\ e.phase = t.phase /\ e.index = y
      /\ e.block = IF y = 0 THEN None ELSE t.blocks[y].id
  BY <1>1, <1>3, <1>5 DEF Entry
<1>8. s \in Nat /\ EventSeq(room', roster, responses) = s + 1
  <2>1. room.revision \in Nat
    BY <1>1, <1>2 DEF RoomStands, LastEntryIsNow
  <2>2. Cardinality(roster) \in Nat /\ Cardinality(responses) \in Nat
    BY FS_CardinalityType DEF RoomStands
  <2>3. PICK r, a, b : /\ r = room.revision /\ a = Cardinality(roster)
                       /\ b = Cardinality(responses)
    OBVIOUS
  <2>4. s = r + a + b /\ EventSeq(room', roster, responses) = (r + 1) + a + b
    BY <1>1, <1>6, <2>3 DEF EventSeq
  <2>5. r \in Nat /\ a \in Nat /\ b \in Nat
    BY <2>1, <2>2, <2>3
  <2> QED
    BY <2>4, <2>5
<1>9. EventSeq(room, roster, responses)' = s + 1
  BY <1>8
<1>10. x \in Nat /\ (y = x \/ y = x + 1) /\ (t.phase = "question_open" => y = x + 1)
  BY <1>1, SequencePositions DEF RoomIInv, BlocksFact, TransitionFact
<1>11. BlocksFact(room.blocks, room.index)'
  <2>1. BlocksFact(t.blocks, y)
    BY <1>1 DEF TransitionFact
  <2>2. BlocksFact(room'.blocks, room'.index)
    BY <1>6, <2>1
  <2> QED
    BY <2>2
<1>12. ASSUME NEW k \in 1..n
       PROVE  /\ timeline[k].index \in 0..x
              /\ timeline[k].index # 0 => t.blocks[timeline[k].index].id = timeline[k].block
              /\ timeline[k].phase = "question_open" => timeline[k].index # 0
              /\ timeline[k].seq \in 0..s
              /\ \A j \in 1..n :
                    j < k => /\ timeline[j].seq < timeline[k].seq
                             /\ timeline[k].phase = "question_open" =>
                                   timeline[j].index < timeline[k].index
  <2>1. /\ timeline[k].index \in 0..x
        /\ timeline[k].index # 0 => room.blocks[timeline[k].index].id = timeline[k].block
        /\ timeline[k].phase = "question_open" => timeline[k].index # 0
        /\ timeline[k].seq \in 0..s
        /\ \A j \in 1..n :
              j < k => /\ timeline[j].seq < timeline[k].seq
                       /\ timeline[k].phase = "question_open" =>
                             timeline[j].index < timeline[k].index
    BY <1>1, <1>2 DEF RoomIInv, TimelineStands
  <2>2. timeline[k].index # 0 => timeline[k].index \in 1..x
    BY <1>10, <2>1
  <2>3. \A i \in 1..x : t.blocks[i] = room.blocks[i]
    BY <1>1 DEF TransitionFact
  <2> QED
    BY <2>1, <2>2, <2>3
<1>13. ASSUME NEW k \in 1..(n + 1)
       PROVE  /\ timeline'[k].index \in 0..y
              /\ timeline'[k].index # 0 => t.blocks[timeline'[k].index].id = timeline'[k].block
              /\ timeline'[k].phase = "question_open" => timeline'[k].index # 0
              /\ timeline'[k].seq \in 0..(s + 1)
              /\ \A j \in 1..(n + 1) :
                    j < k => /\ timeline'[j].seq < timeline'[k].seq
                             /\ timeline'[k].phase = "question_open" =>
                                   timeline'[j].index < timeline'[k].index
  <2>1. CASE k \in 1..n
    <3>1. timeline'[k] = timeline[k] /\ \A j \in 1..(n + 1) : j < k => j \in 1..n
      BY <1>2, <2>1
    <3>2. timeline'[k].index \in 0..y /\ timeline'[k].seq \in 0..(s + 1)
      BY <1>8, <1>10, <1>12, <2>1, <3>1
    <3> QED
      BY <1>2, <1>12, <2>1, <3>1, <3>2
  <2>2. CASE k = n + 1
    <3>1. timeline'[k] = e
      BY <1>4, <2>2
    <3>2. ASSUME NEW j \in 1..(n + 1), j < k
          PROVE  /\ timeline'[j].seq < e.seq
                 /\ e.phase = "question_open" => timeline'[j].index < e.index
      <4>1. j \in 1..n
        BY <1>2, <2>2, <3>2
      <4>2. timeline'[j] = timeline[j] /\ timeline[j].seq \in 0..s /\ timeline[j].index \in 0..x
        BY <1>2, <1>12, <4>1
      <4>3. e.seq = s + 1
        BY <1>7, <1>8
      <4>4. timeline'[j].seq < e.seq
        BY <1>8, <4>2, <4>3
      <4>5. e.phase = "question_open" => timeline'[j].index < e.index
        BY <1>7, <1>10, <4>2
      <4> QED
        BY <4>4, <4>5
    <3>3. e.index \in 0..y /\ e.seq \in 0..(s + 1)
      BY <1>7, <1>8, <1>10
    <3>4. /\ e.index # 0 => t.blocks[e.index].id = e.block
          /\ e.phase = "question_open" => e.index # 0
      BY <1>7, <1>10
    <3> QED
      BY <3>1, <3>2, <3>3, <3>4
  <2>3. k \in 1..n \/ k = n + 1
    BY <1>2
  <2> QED
    BY <2>1, <2>2, <2>3
<1>14. TimelineStands'
  BY <1>2, <1>6, <1>9, <1>13 DEF TimelineStands
<1>15. PhaseStands'
  BY <1>6 DEF PhaseStands, RoomIInv, TransitionFact
<1> QED
  BY <1>11, <1>14, <1>15 DEF RoomIInv

\* So does whatever is no transition.
RoomQuiet ==
    /\ UNCHANGED << room, timeline >> /\ roster \subseteq roster' /\ responses \subseteq responses'
    /\ roster' \subseteq roster \cup Participants
    /\ clock' = clock \/ (clock < MaxTime /\ clock' = clock + 1)
    /\ fenced' = fenced \/ fenced' = TRUE

\* Nothing that it counts goes away.
LEMMA RoomRests ==
  ASSUME RoomIInv, RoomStands, RoomStands', RoomQuiet
  PROVE  RoomIInv'
<1>1. EventSeq(room, roster, responses) \in Nat /\ EventSeq(room, roster, responses)' \in Nat
      /\ EventSeq(room, roster, responses) <= EventSeq(room, roster, responses)'
  <2>1. /\ Cardinality(roster) \in Nat /\ Cardinality(roster') \in Nat
        /\ Cardinality(roster) <= Cardinality(roster')
    BY CountsGrow DEF RoomQuiet, RoomStands
  <2>2. /\ Cardinality(responses) \in Nat /\ Cardinality(responses') \in Nat
        /\ Cardinality(responses) <= Cardinality(responses')
    BY CountsGrow DEF RoomQuiet, RoomStands
  <2>3. room.revision \in Nat /\ room' = room
    <3>1. \A S, s : s \in Seq(S) => Len(s) \in Nat
      BY LenProperties
    <3> QED
      BY <3>1 DEF RoomStands, IsTimeline, LastEntryIsNow, RoomQuiet
  <2> QED
    BY <2>1, <2>2, <2>3 DEF EventSeq
<1>2. BlocksFact(room.blocks, room.index)'
  <2>1. PICK B, x : B = room.blocks /\ x = room.index
    OBVIOUS
  <2>2. BlocksFact(B, x) /\ room'.blocks = B /\ room'.index = x
    BY <2>1 DEF RoomIInv, RoomQuiet
  <2>3. BlocksFact(room'.blocks, room'.index)
    BY <2>2
  <2> QED
    BY <2>3
<1>3. TimelineStands'
  <2>1. PICK n, m : n = EventSeq(room, roster, responses)
                    /\ m = EventSeq(room, roster, responses)'
    OBVIOUS
  <2>2. \A i : i \in 0..n => i \in 0..m
    BY <1>1, <2>1
  <2>3. \A k \in DOMAIN timeline : timeline[k].seq \in 0..m
    BY <2>1, <2>2 DEF RoomIInv, TimelineStands
  <2> QED
    BY <2>1, <2>3 DEF RoomIInv, TimelineStands, RoomQuiet
<1>4. PhaseStands'
  <2>1. clock' \in 0..MaxTime /\ clock \in 0..MaxTime
    BY RoomAssumption DEF RoomIInv, PhaseStands, RoomQuiet
  <2>2. roster' \subseteq Participants /\ fenced' \in BOOLEAN
    BY DEF RoomIInv, PhaseStands, RoomQuiet
  <2> QED
    BY <2>1, <2>2 DEF RoomIInv, PhaseStands, RoomQuiet
<1> QED
  BY <1>2, <1>3, <1>4 DEF RoomIInv

\* The room moves on by itself, by a window's command, or quietly.
LEMMA StepsOfRoom ==
  ASSUME PresentationNext
  PROVE  \/ AdvanceByRest
         \/ \E w \in Windows, n \in Attempts : Commit(w, n)
         \/ RoomQuiet /\ receipts' = receipts
<1>1. ASSUME UNCHANGED << room, timeline, receipts, roster, responses, fenced, clock >>
      PROVE  RoomQuiet /\ receipts' = receipts
  BY <1>1 DEF RoomQuiet
<1>2. ASSUME UNCHANGED roomVars PROVE RoomQuiet /\ receipts' = receipts
  BY <1>1, <1>2 DEF roomVars
<1>3. ASSUME Tick \/ StartWorkspaceDeletion PROVE RoomQuiet /\ receipts' = receipts
  BY <1>3 DEF Tick, StartWorkspaceDeletion, RoomQuiet
<1>4. CASE CommandsNext
  <2>1. ASSUME NEW w \in Windows,
               \/ \E kind \in CommandKinds : Run(w, kind)
               \/ Retry(w) \/ Acknowledge(w) \/ AckTimeout(w) \/ ChangePass(w)
               \/ \E n \in Attempts :
                     \/ Authorize(w, n) \/ Prepare(w, n) \/ CommitRefused(w, n)
                     \/ RacedReplay(w, n) \/ RequestFails(w, n)
        PROVE  UNCHANGED roomVars
    BY <2>1 DEF Run, Retry, Send, Acknowledge, AckTimeout, Settle, ChangePass, Authorize, Prepare,
                CommitRefused, RacedReplay, RequestFails
  <2>2. ASSUME ArchiveOrRestoreSource PROVE UNCHANGED roomVars
    BY <2>2 DEF ArchiveOrRestoreSource
  <2> QED
    BY <1>2, <1>3, <1>4, <2>1, <2>2 DEF CommandsNext, OthersMoveOn
<1>5. CASE AnswersNext
  <2>1. ASSUME \/ \E for \in {"sync", "broadcast", "rest"} : StartReading(for)
               \/ ReadData \/ Confirm \/ DeadlineExpires \/ SyncFallsBack \/ RestFails
               \/ Connect \/ Disconnect \/ FallbackPolls \/ AckTimesOut \/ ConfirmTimesOut
               \/ \E k \in Keys : SubmitResponse(k)
               \/ \E m \in mail : OnEnvelope(m) \/ MailLost(m) \/ SyncAnswered(m) \/ RestAnswered(m)
               \/ \E e \in Emissions : HearReply(e)
        PROVE  UNCHANGED roomVars
    BY <2>1 DEF StartReading, ReadData, Confirm, DeadlineExpires, SyncFallsBack, RestFails, Connect,
                Disconnect, FallbackPolls, AckTimesOut, ConfirmTimesOut, SubmitResponse, OnEnvelope,
                MailLost, SyncAnswered, RestAnswered, HearReply
  <2>2. ASSUME \E e \in Emissions : \/ ReceiveSubmission(e) \/ ReadContext(e)
                                    \/ ReadAcknowledgement(e) \/ SubmissionFails(e)
        PROVE  UNCHANGED << room, timeline, receipts, roster, responses, fenced, clock >>
    BY <2>2 DEF ReceiveSubmission, ReadContext, ReadAcknowledgement, SubmissionFails,
                SubmissionKeeps
  <2>3. ASSUME NEW e \in Emissions, AcceptResponse(e)
        PROVE  RoomQuiet /\ receipts' = receipts
    BY <2>3 DEF AcceptResponse, SubmissionKeeps, RoomQuiet
  <2>4. ASSUME NEW p \in Participants, JoinParticipantWithinLimit(p) \/ RivalAnswers(p)
        PROVE  RoomQuiet /\ receipts' = receipts
    BY <2>4 DEF JoinParticipantWithinLimit, RivalAnswers, RoomQuiet
  <2> QED
    BY <1>1, <1>2, <1>3, <1>5, <2>1, <2>2, <2>3, <2>4 DEF AnswersNext, RoomGoesOn
<1> QED
  BY <1>4, <1>5 DEF PresentationNext

\* A window that sends its command again, or for the first time, and one that settles it.
LEMMA WindowSends ==
  ASSUME CommandsIInv, NEW v \in Windows, NEW n, NEW kind, NEW expected,
         Send(v, n, kind, expected)
  PROVE  /\ window'[v].kind = kind /\ window'[v].try = n
         /\ \A w \in Windows : w # v => window'[w] = window[w]
<1>1. PICK x, y : x = window[v] /\ y = SentAgain(x, kind, expected, n)
  OBVIOUS
<1>2. /\ DOMAIN window = Windows
      /\ x = [state |-> x.state, kind |-> x.kind, expected |-> x.expected, try |-> x.try,
              outcome |-> x.outcome]
  BY <1>1 DEF CommandsIInv, CommandFact, WindowFact
<1>3. y = [state |-> "busy", kind |-> kind, expected |-> expected, try |-> n,
           outcome |-> x.outcome]
  BY <1>1, <1>2, WindowFields
<1>4. window' = [window EXCEPT ![v] = y]
  BY <1>1, <1>2 DEF Send, SentAgain
<1>5. window'[v] = y /\ \A w \in Windows : w # v => window'[w] = window[w]
  BY <1>2, <1>4
<1> QED
  BY <1>3, <1>5

LEMMA WindowSettles ==
  ASSUME CommandsIInv, NEW v \in Windows, NEW state, NEW outcome, Settle(v, state, outcome)
  PROVE  /\ window'[v].kind = window[v].kind /\ window'[v].try = window[v].try
         /\ \A w \in Windows : w # v => window'[w] = window[w]
<1>1. PICK x, y : x = window[v] /\ y = Settled(x, state, outcome)
  OBVIOUS
<1>2. /\ DOMAIN window = Windows
      /\ x = [state |-> x.state, kind |-> x.kind, expected |-> x.expected, try |-> x.try,
              outcome |-> x.outcome]
  BY <1>1 DEF CommandsIInv, CommandFact, WindowFact
<1>3. y = [state |-> state, kind |-> x.kind, expected |-> x.expected, try |-> x.try,
           outcome |-> outcome]
  BY <1>1, <1>2, WindowFields
<1>4. window' = [window EXCEPT ![v] = y]
  BY <1>1, <1>2 DEF Settle, Settled
<1>5. window'[v] = y /\ \A w \in Windows : w # v => window'[w] = window[w]
  BY <1>2, <1>4
<1> QED
  BY <1>1, <1>3, <1>5

\* A window keeps the kind of its command, or sends its first, of a kind that it has.
KindKept(w) ==
    window'[w].kind = window[w].kind /\ (window'[w].try > 0 => window[w].try > 0)
KindSent(w) == window'[w].kind \in Offers[w] /\ ~Committed(w)

\* There is nothing else that it does.
LEMMA KindsGo ==
  ASSUME CommandsIInv, PresentationNext
  PROVE  \A w \in Windows : KindKept(w) \/ KindSent(w)
<1>1. ASSUME UNCHANGED window PROVE \A w \in Windows : KindKept(w)
  BY <1>1 DEF KindKept
<1>2. CASE CommandsNext
  <2>1. ASSUME NEW v \in Windows, NEW kind \in CommandKinds, Run(v, kind)
        PROVE  \A w \in Windows : KindKept(w) \/ KindSent(w)
    <3>1. kind \in Offers[v] /\ \E shown \in 0..room.revision : Send(v, 1, kind, shown)
      BY <2>1 DEF Run
    <3>2. window'[v].kind = kind /\ \A w \in Windows : w # v => window'[w] = window[w]
      BY <3>1, WindowSends
    <3>3. ~Committed(v)
      BY <2>1 DEF Run, CommandsIInv, CommandFact, WindowFact
    <3> QED
      BY <3>1, <3>2, <3>3 DEF KindKept, KindSent
  <2>2. ASSUME NEW v \in Windows, Retry(v) PROVE \A w \in Windows : KindKept(w)
    <3>1. PICK n, kind, expected :
             /\ n = window[v].try + 1 /\ kind = window[v].kind /\ expected = window[v].expected
      OBVIOUS
    <3>2. Send(v, n, kind, expected) /\ window[v].state = "pending"
      BY <2>2, <3>1 DEF Retry
    <3>3. window'[v].kind = kind /\ \A w \in Windows : w # v => window'[w] = window[w]
      BY <3>2, WindowSends
    <3>4. window[v].try > 0
      BY <3>2 DEF CommandsIInv, CommandFact, WindowFact
    <3> QED
      BY <3>1, <3>3, <3>4 DEF KindKept
  <2>3. ASSUME NEW v \in Windows, Acknowledge(v) \/ AckTimeout(v)
        PROVE  \A w \in Windows : KindKept(w)
    <3>1. \E state, outcome : Settle(v, state, outcome)
      BY <2>3 DEF Acknowledge, AckTimeout
    <3>2. /\ window'[v].kind = window[v].kind /\ window'[v].try = window[v].try
          /\ \A w \in Windows : w # v => window'[w] = window[w]
      BY <3>1, WindowSettles
    <3> QED
      BY <3>2 DEF KindKept
  <2>4. ASSUME NEW v \in Windows, NEW n \in Attempts,
               \/ Authorize(v, n) \/ Prepare(v, n) \/ Commit(v, n) \/ CommitRefused(v, n)
               \/ RacedReplay(v, n) \/ RequestFails(v, n)
        PROVE  UNCHANGED window
    BY <2>4 DEF Authorize, Prepare, Commit, CommitRefused, RacedReplay, RequestFails, ServerKeeps
  <2>5. ASSUME \/ ArchiveOrRestoreSource \/ OthersMoveOn \/ \E v \in Windows : ChangePass(v)
        PROVE  UNCHANGED window
    BY <2>5 DEF ArchiveOrRestoreSource, OthersMoveOn, ChangePass, commandVars
  <2> QED
    BY <1>1, <1>2, <2>1, <2>2, <2>3, <2>4, <2>5 DEF CommandsNext
<1>3. CASE UNCHANGED commandVars
  BY <1>1, <1>3 DEF commandVars
<1> QED
  BY <1>2, <1>3 DEF PresentationNext

\* While no kind comes in, what the windows insert stays theirs.
LEMMA InsertionsRest ==
  ASSUME CommandsIInv, InsertionsStand, PresentationNext, receipts \subseteq receipts',
         \A kind \in {"pack", "published"} : Inserted(room, kind)' =>
            \/ Inserted(room, kind)
            \/ \E w \in Windows : Committed(w)' /\ window'[w].kind = kind
  PROVE  InsertionsStand'
<1>1. ASSUME NEW w \in Windows, window'[w].try > 0 PROVE window'[w].kind \in Offers[w]
  BY <1>1, KindsGo DEF KindKept, KindSent, InsertionsStand
<1>2. ASSUME NEW w \in Windows, Committed(w)
      PROVE  Committed(w)' /\ window'[w].kind = window[w].kind
  BY <1>2, KindsGo DEF KindKept, KindSent, Committed
<1>3. ASSUME NEW kind \in {"pack", "published"}, Inserted(room, kind)'
      PROVE  \E w \in Windows : Committed(w)' /\ window'[w].kind = kind
  <2>1. CASE Inserted(room, kind)
    <3>1. PICK w \in Windows : Committed(w) /\ window[w].kind = kind
      BY <2>1 DEF InsertionsStand
    <3> QED
      BY <1>2, <3>1
  <2> QED
    BY <1>3, <2>1
<1> QED
  BY <1>1, <1>3 DEF InsertionsStand

\* A transition brings in what its own command inserts.
LEMMA TransitionInserts ==
  ASSUME NEW t, NEW kind, TransitionFact(t, kind), NEW other \in Insertions,
         NEW r, r.blocks = t.blocks, Inserted(r, other)
  PROVE  Inserted(room, other) \/ kind = other
<1>1. PICK i \in DOMAIN t.blocks, j \in DOMAIN Insertion[other] :
         t.blocks[i].id = Insertion[other][j].id
  BY DEF Inserted
<1>2. CASE \E k \in DOMAIN room.blocks : t.blocks[i] = room.blocks[k]
  BY <1>1, <1>2 DEF Inserted
<1>3. CASE kind \in Insertions /\ t.blocks[i].id \in IdsOf(Insertion[kind])
  <2>1. t.blocks[i].id \in IdsOf(Insertion[other])
    BY <1>1 DEF IdsOf
  <2>2. kind # other => IdsOf(Insertion[other]) \cap IdsOf(Insertion[kind]) = {}
    BY <1>3, InsertionShape
  <2> QED
    BY <1>3, <2>1, <2>2
<1> QED
  BY <1>2, <1>3 DEF TransitionFact

\* A command is committed on the session as it is, which allows it, and no other window has
\* inserted what it inserts.
LEMMA CommitIsCurrent ==
  ASSUME CommandsIInv, InsertionsStand, NEW w \in Windows, NEW n \in Attempts, Commit(w, n),
         NEW kind, kind = window[w].kind
  PROVE  /\ kind \in CommandKinds /\ Allowed(room, kind)
         /\ ApplyTransition(Transition(room, kind), w) /\ Committed(w)'
         /\ receipts \subseteq receipts' /\ UNCHANGED << window, roster, responses, fenced, clock >>
         /\ kind \in {"pack", "published"} => ~Inserted(room, kind)
<1>1. PICK x, q, r, v : x = window[w] /\ q = request[w] /\ r = q[n] /\ v = r.view
  OBVIOUS
<1>2. /\ r.stage = "ready" /\ ~Committed(w) /\ ~fenced /\ room.revision = x.expected
      /\ ApplyTransition(Transition(v, kind), w)
      /\ receipts' = receipts \cup {[cmd |-> w, expected |-> x.expected,
                                     resulting |-> room.revision + 1]}
      /\ UNCHANGED << window, roster, responses, fenced, clock >>
  BY <1>1 DEF Commit, ServerKeeps, Id
<1>3. /\ x.try \in Nat /\ x.try > 0 /\ n \in Nat /\ n <= x.try
      /\ x.expected \in Nat /\ room.revision \in Nat /\ x.kind \in CommandKinds
      /\ RequestFact(w, x, n, r)
  BY <1>1, <1>2, Underways
<1>4. v = room /\ Allowed(room, kind)
  BY <1>1, <1>2, <1>3 DEF RequestFact, ViewFact
<1>5. Committed(w)' /\ receipts \subseteq receipts'
  <2>1. PICK receipt : receipt = [cmd |-> w, expected |-> x.expected,
                                  resulting |-> room.revision + 1]
    OBVIOUS
  <2>2. receipt.cmd = w /\ receipts' = receipts \cup {receipt}
    BY <1>2, <2>1
  <2> QED
    BY <2>2 DEF Committed, Id
<1>6. ASSUME kind \in {"pack", "published"}, Inserted(room, kind) PROVE FALSE
  <2>1. PICK u \in Windows : Committed(u) /\ window[u].kind = kind
    BY <1>6 DEF InsertionsStand
  <2>2. u # w
    BY <1>2, <2>1
  <2>3. window[u].try > 0
    <3>1. WindowFact(u, window[u], request[u])
      BY DEF CommandsIInv, CommandFact
    <3> QED
      BY <2>1, <3>1 DEF WindowFact
  <2>4. kind \in Offers[u] /\ kind \in Offers[w]
    BY <1>1, <1>3, <2>1, <2>3 DEF InsertionsStand
  <2>5. Offers[u] \cap Offers[w] \cap {"pack", "published"} = {}
    BY <2>2, CommandsAssumption
  <2> QED
    BY <1>6, <2>4, <2>5
<1> QED
  BY <1>1, <1>2, <1>3, <1>4, <1>5, <1>6

\* Every step of the whole keeps the room coherent.
LEMMA RoomGoesOnCoherent ==
  ASSUME RoomIInv, InsertionsStand, CommandsIInv, RoomStands', PresentationNext
  PROVE  RoomIInv' /\ InsertionsStand'
<1>1. RoomStands
  BY DEF CommandsIInv
<1>2. ASSUME NEW t, NEW kind, NEW cmd, TransitionFact(t, kind), ApplyTransition(t, cmd),
             UNCHANGED << roster, responses, fenced, clock >>, receipts \subseteq receipts',
             kind \in {"pack", "published"} =>
                \E w \in Windows : Committed(w)' /\ window'[w].kind = kind
      PROVE  RoomIInv' /\ InsertionsStand'
  <2>1. room'.blocks = t.blocks
    BY <1>2 DEF ApplyTransition, Moved
  <2>2. ASSUME NEW other \in {"pack", "published"}, Inserted(room, other)'
        PROVE  \/ Inserted(room, other)
               \/ \E w \in Windows : Committed(w)' /\ window'[w].kind = other
    <3>1. PICK r : r = room'
      OBVIOUS
    <3>2. Inserted(r, other) /\ r.blocks = t.blocks /\ other \in Insertions
      BY <2>1, <2>2, <3>1 DEF Insertions
    <3>3. Inserted(room, other) \/ kind = other
      BY <1>2, <3>2, TransitionInserts
    <3> QED
      BY <1>2, <2>2, <3>3
  <2>3. InsertionsStand'
    BY <1>2, <2>2, InsertionsRest
  <2> QED
    BY <1>1, <1>2, <2>3, RoomMoved
<1>3. CASE AdvanceByRest
  <2>1. PICK kind, t : kind = "advance" /\ t = NextTransition(room)
    OBVIOUS
  <2>2. t = Transition(room, kind) /\ kind \in CommandKinds /\ kind \notin {"pack", "published"}
    BY <2>1 DEF Transition, CommandKinds
  <2>3. Allowed(room, kind)
    BY <1>3, <2>1 DEF AdvanceByRest, Allowed
  <2>4. TransitionFact(t, kind)
    BY <2>2, <2>3, TransitionStands
  <2>5. /\ ApplyTransition(t, None) /\ UNCHANGED << roster, responses, fenced, clock >>
        /\ receipts' = receipts
    BY <1>3, <2>1 DEF AdvanceByRest
  <2> QED
    BY <1>2, <2>2, <2>4, <2>5
<1>4. ASSUME NEW w \in Windows, NEW n \in Attempts, Commit(w, n)
      PROVE  RoomIInv' /\ InsertionsStand'
  <2>1. PICK kind, t : kind = window[w].kind /\ t = Transition(room, kind)
    OBVIOUS
  <2>2. /\ kind \in CommandKinds /\ Allowed(room, kind) /\ ApplyTransition(t, w) /\ Committed(w)'
        /\ receipts \subseteq receipts' /\ UNCHANGED << window, roster, responses, fenced, clock >>
        /\ kind \in {"pack", "published"} => ~Inserted(room, kind)
    BY <1>4, <2>1, CommitIsCurrent
  <2>3. TransitionFact(t, kind)
    BY <2>1, <2>2, TransitionStands
  <2>4. Committed(w)' /\ window'[w].kind = kind
    BY <2>1, <2>2
  <2> QED
    BY <1>2, <2>2, <2>3, <2>4
<1>5. CASE RoomQuiet /\ receipts' = receipts
  <2>1. \A kind : Inserted(room, kind)' => Inserted(room, kind)
    BY <1>5 DEF Inserted, RoomQuiet
  <2>2. InsertionsStand'
    BY <1>5, <2>1, InsertionsRest
  <2> QED
    BY <1>1, <1>5, <2>2, RoomRests
<1>6. \/ AdvanceByRest
      \/ \E w \in Windows, n \in Attempts : Commit(w, n)
      \/ RoomQuiet /\ receipts' = receipts
  BY StepsOfRoom
<1> QED
  BY <1>3, <1>4, <1>5, <1>6

\* A session starts in its lobby with the blocks of its version, and nothing inserted.
LEMMA RoomStartsCoherent ==
  ASSUME PresentationInit
  PROVE  RoomIInv /\ InsertionsStand
<1>1. PICK B : B = room.blocks
  OBVIOUS
<1>2. /\ B \in Decks /\ room.phase = "lobby" /\ room.index = 0 /\ room.status = "active"
      /\ timeline = << >> /\ receipts = {} /\ roster \subseteq Participants /\ fenced = FALSE
      /\ clock = 0
  BY <1>1, AnswersAssumption DEF PresentationInit, RoomInit
<1>3. /\ B \in Seq({B[i] : i \in DOMAIN B})
      /\ \A i, j \in DOMAIN B : B[i].id = B[j].id => i = j
      /\ \A kind \in Insertions : \A i \in DOMAIN B :
            {B[i].id, B[i].recheck} \cap IdsOf(Insertion[kind]) = {}
  <2>1. B \in Decks \cup {Insertion[kind] : kind \in Insertions}
    BY <1>2
  <2>2. /\ B \in Seq({B[i] : i \in DOMAIN B})
        /\ \A i, j \in DOMAIN B : B[i].id = B[j].id => i = j
    BY <2>1, BlocksAssumption
  <2>3. \A kind \in Insertions : \A i \in DOMAIN B :
           {B[i].id, B[i].recheck} \cap IdsOf(Insertion[kind]) = {}
    BY <1>2, BlocksAssumption
  <2> QED
    BY <2>2, <2>3
<1>4. IsSequence(B)
  BY <1>3 DEF IsSequence
<1>5. Len(B) \in Nat /\ DOMAIN B = 1..Len(B)
  BY <1>4, SequencePositions
<1>6. \A i \in DOMAIN B : IsForeign(B[i].id) /\ IsForeign(B[i].recheck)
  BY <1>3 DEF IsForeign
<1>7. \A i \in DOMAIN B : ~IsInserted(B[i])
  BY <1>6, InsertionShape DEF IsInserted, IsForeign
<1>8. BlocksFact(B, 0)
  BY <1>3, <1>4, <1>5, <1>6, <1>7 DEF BlocksFact
<1>9. \A kind \in Insertions : ~Inserted(room, kind)
  BY <1>1, <1>6 DEF Inserted, IsForeign, IdsOf
<1>10. DOMAIN timeline = {}
  BY <1>2
<1>11. TimelineStands
  BY <1>10 DEF TimelineStands
<1>12. PhaseStands
  <2>1. 0 \in 0..MaxTime
    BY RoomAssumption
  <2>2. room.phase \in Phases /\ room.phase # "finished" /\ room.status # "finished"
    BY <1>2 DEF Phases
  <2>3. room.status \in {"active", "finished"} /\ fenced \in BOOLEAN
    BY <1>2
  <2> QED
    BY <1>2, <2>1, <2>2, <2>3, Zenon DEF PhaseStands
<1>13. InsertionsStand
  <2>1. \A w \in Windows : window[w].try = 0
    BY DEF PresentationInit, CommandsInit, NewWindow
  <2> QED
    BY <1>9, <2>1 DEF InsertionsStand, Insertions
<1> QED
  BY <1>1, <1>2, <1>8, <1>11, <1>12, <1>13 DEF RoomIInv

\* What is kept is what the room promises.
LEMMA CoherentRoom ==
  ASSUME RoomIInv, RoomStands
  PROVE  RoomInv
<1>1. PICK B, x : B = room.blocks /\ x = room.index
  OBVIOUS
<1>2. BlocksFact(B, x) /\ Len(B) \in Nat /\ DOMAIN B = 1..Len(B)
  BY <1>1, SequencePositions DEF RoomIInv, BlocksFact
<1>3. RoomTypeOK
  <2>1. room.revision = Len(timeline)
    BY DEF RoomStands, LastEntryIsNow
  <2>2. (room.status = "finished") = (room.phase = "finished")
    BY DEF RoomIInv, PhaseStands
  <2> QED
    BY <1>1, <1>2, <2>1, <2>2 DEF RoomTypeOK, RoomIInv, PhaseStands, BlocksFact
<1>4. TimelineNamesBlocks
  BY DEF RoomIInv, TimelineStands, TimelineNamesBlocks
<1>5. RechecksStayLinked
  <2>1. ASSUME NEW i \in DOMAIN B, NEW j \in DOMAIN B, Links(B[i], B[j]), i < j, i <= x,
               NEW kind \in DOMAIN Insertion, NEW m \in (i + 1)..(j - 1),
               B[m] \in ToSet(Insertion[kind])
        PROVE  FALSE
    <3>1. m \in DOMAIN B /\ i < m /\ m < j
      BY <1>2, <2>1
    <3>2. ~IsInserted(B[m])
      BY <1>2, <2>1, <3>1 DEF BlocksFact
    <3>3. kind \in Insertions
      BY <2>1, BlocksAssumption
    <3> QED
      BY <2>1, <3>2, <3>3 DEF ToSet, IsInserted
  <2> QED
    BY <1>1, <2>1 DEF RechecksStayLinked, Links
<1> QED
  BY <1>3, <1>4, <1>5 DEF RoomInv

\* The room's blocks, its insertions and the commands of its windows stand in every behaviour.
CommandedRoom == RoomIInv /\ InsertionsStand /\ CommandsIInv

LEMMA CommandedRoomStands == PresentationSpec => []CommandedRoom
<1>1. PresentationInit => RoomIInv /\ InsertionsStand /\ CommandsIInv
  BY RoomStartsCoherent, CommandsStart
<1>2. RoomIInv /\ InsertionsStand /\ CommandsIInv /\ PresentationIInv'
         /\ [PresentationNext]_<< roomVars, commandVars, answersVars >>
      => (RoomIInv /\ InsertionsStand /\ CommandsIInv)'
  <2>1. ASSUME RoomIInv, InsertionsStand, CommandsIInv, PresentationIInv', PresentationNext
        PROVE  (RoomIInv /\ InsertionsStand /\ CommandsIInv)'
    BY <2>1, CommandsGoOn, RoomGoesOnCoherent DEF PresentationIInv
  <2>2. ASSUME RoomIInv, InsertionsStand, CommandsIInv, PresentationIInv',
               UNCHANGED << roomVars, commandVars, answersVars >>
        PROVE  (RoomIInv /\ InsertionsStand /\ CommandsIInv)'
    <3>1. CommandsIInv'
      BY <2>2, RoomStays DEF PresentationIInv, roomVars, commandVars
    <3>2. InsertionsStand'
      BY <2>2 DEF roomVars, commandVars, InsertionsStand, Inserted, Committed
    <3>3. RoomIInv'
      <4>1. RoomQuiet
        BY <2>2 DEF roomVars, RoomQuiet
      <4> QED
        BY <2>2, <4>1, RoomRests DEF CommandsIInv, PresentationIInv
    <3> QED
      BY <3>1, <3>2, <3>3
  <2> QED
    BY <2>1, <2>2
<1> QED
  BY <1>1, <1>2, PresentationStands, PTL DEF PresentationSpec, CommandedRoom

\* Whatever the windows insert, and whatever session they computed it from, a block that was
\* presented stays where the timeline names it, and a question presented and its recheck
\* stay together.
THEOREM RoomStaysCoherent == PresentationSpec => []RoomInv
<1>1. CommandedRoom => RoomInv
  BY CoherentRoom DEF CommandedRoom, CommandsIInv
<1> QED
  BY <1>1, CommandedRoomStands, PTL

-------------------------------------------------------------------------------
(* The page's submission is always watched.                                   *)

\* A transition opened the block, with that deadline.
OpenAt(rev, block, closes) ==
    /\ rev \in DOMAIN timeline /\ timeline[rev].phase = "question_open"
    /\ timeline[rev].block = block
    /\ closes = IF room.flex THEN None ELSE timeline[rev].at + TimeLimit

\* That deadline is over.
Over(rev, block) == \E closes \in Nat : OpenAt(rev, block, closes) /\ clock > closes

\* A snapshot tells the time at which it was built, and of a question when it was opened.
Dated(s) ==
    /\ s.phase = "question_open" => OpenAt(s.rev, s.block, s.closes)
    /\ s.at \in 0..clock
    /\ s.accepting => s.phase = "question_open" /\ (s.closes = None \/ s.at <= s.closes)

\* The snapshots that are shown, or may still be.
Letters == {m \in mail : Readable(m)}
Acks == {e \in Emissions : EmissionAt(e, "replied")}
Seen == {client.view} \cup {m.snap : m \in Letters} \cup {emission[e].snap : e \in Acks}

SeenDated == \A s \in Seen : Dated(s)

\* So does what the server has read for the next one, and the page's fence.
ReadingDated ==
    reading # NoReading /\ reading.row.phase = "question_open" =>
        OpenAt(reading.row.revision, CurrentId(reading.row), reading.row.closes)

FenceDated(c) == c.fence.at \in 0..clock /\ (c.view.accepting => c.fence.at = c.view.at)
PageDated == FenceDated(client)

\* A broadcast counts whatever was committed before it was built.
Latest(s) == \A t \in Seen : t.seq > s.seq => t.at >= s.at

BroadcastsLatest == \A m \in Letters : m.for = "broadcast" => Latest(m.snap)

TimesStand == SeenDated /\ ReadingDated /\ PageDated /\ BroadcastsLatest

IsAnswer(for) == for \in {"sync", "rest"}

\* One answer at most is on its way, to the reconciliation under way.
OneAnswer ==
    /\ reconc = [stage |-> reconc.stage, waiters |-> reconc.waiters]
    /\ reconc.stage \in {"none", "sync", "rest"}
    /\ IsAnswer(reading.for) => reconc.stage = reading.for
    /\ \A m \in mail : IsAnswer(m.for) => reconc.stage = m.for /\ reading.for # m.for

\* Those who wait for the reconciliation's end wait for the submission's.
WaitersFact ==
    /\ client.link \in {"down", "up", "ready"}
    /\ client.sub.timer \in {"none", "ack", "confirm"}
    /\ client.sub.timer # "none" => client.sub.key # None
    /\ reconc.stage = "none" => reconc.waiters = {}
    /\ \A w \in reconc.waiters :
          w.key = client.sub.key /\ w.key # None /\ w.timer \in {"ack", "confirm"}

\* The submission is for a question that was presented.
QuestionFact ==
    client.sub.key # None => \E closes : OpenAt(client.sub.expected, client.sub.block, closes)

\* Someone waits for the end of a submission that no timer runs for.
WatchFact ==
    client.sub.key # None /\ client.sub.timer = "none" =>
        \E w \in reconc.waiters :
            w.timer = "ack" => (client.sub.replayed => w.replayed)

\* A snapshot shows the block as a question that takes answers.
Shows(b, s) == s.block = b /\ s.phase = "question_open" /\ s.accepting

\* Nothing shows it with a later sequence number.
NotAfter(b, seq) == \A t \in Seen : Shows(b, t) => t.seq <= seq

\* The page shows it as closed, and no snapshot on its way opens it again.
Shut(b) == ~Shows(b, client.view) /\ NotAfter(b, client.fence.seq)

\* The answer of the reconciliation shows it as closed, after whatever shows it as open.
Conclusive(b) ==
    /\ IsAnswer(reading.for) => NotAfter(b, reading.seq)
    /\ \A m \in Letters : IsAnswer(m.for) => ~Shows(b, m.snap) /\ NotAfter(b, m.snap.seq)

\* The question was shown as closed, and is asked about once more.
Confirming ==
    client.sub.timer = "confirm" \/ \E w \in reconc.waiters : w.timer = "confirm"

ConfirmFact ==
    Confirming =>
        /\ client.sub.replayed /\ Over(client.sub.expected, client.sub.block)
        /\ Shut(client.sub.block) \/ Conclusive(client.sub.block)

WatchStands == OneAnswer /\ WaitersFact /\ QuestionFact /\ WatchFact /\ ConfirmFact

\* A block is opened once.
LEMMA OpenedOnce ==
  ASSUME RoomIInv, RoomStands, NEW j, NEW k, NEW b, NEW c, NEW d, OpenAt(j, b, c), OpenAt(k, b, d)
  PROVE  j = k /\ c = d
<1>1. PICK B, x : B = room.blocks /\ x = room.index
  OBVIOUS
<1>2. BlocksFact(B, x) /\ Len(B) \in Nat /\ DOMAIN B = 1..Len(B) /\ x \in 0..Len(B)
  BY <1>1, SequencePositions DEF RoomIInv, BlocksFact
<1>3. PICK S : timeline \in Seq(S)
  BY DEF RoomStands, IsTimeline
<1>4. DOMAIN timeline \subseteq Nat
  BY <1>3, LenProperties
<1>5. j \in Nat /\ k \in Nat /\ j \in DOMAIN timeline /\ k \in DOMAIN timeline
  BY <1>4 DEF OpenAt
<1>6. \A i \in {j, k} : /\ timeline[i].phase = "question_open" /\ timeline[i].block = b
                        /\ timeline[i].index \in DOMAIN B
                        /\ B[timeline[i].index].id = b
  <2>1. ASSUME NEW i \in DOMAIN timeline, timeline[i].phase = "question_open",
               timeline[i].block = b
        PROVE  timeline[i].index \in DOMAIN B /\ B[timeline[i].index].id = b
    <3>1. /\ timeline[i].index \in 0..x /\ timeline[i].index # 0
          /\ B[timeline[i].index].id = timeline[i].block
      BY <1>1, <2>1 DEF RoomIInv, TimelineStands
    <3> QED
      BY <1>2, <2>1, <3>1
  <2> QED
    BY <2>1 DEF OpenAt
<1>7. timeline[j].index = timeline[k].index
  BY <1>2, <1>6 DEF BlocksFact
<1>8. ASSUME NEW m \in {j, k}, NEW i \in {j, k}, m < i PROVE FALSE
  <2>1. timeline[m].index < timeline[i].index
    BY <1>5, <1>6, <1>8 DEF RoomIInv, TimelineStands
  <2>2. timeline[m].index \in Nat
    BY <1>2, <1>6
  <2>3. timeline[m].index = timeline[i].index
    BY <1>7
  <2> QED
    BY <2>1, <2>2, <2>3
<1>9. j = k
  BY <1>5, <1>8
<1> QED
  BY <1>9 DEF OpenAt

\* What is seen.
LEMMA SeenSnapshots ==
  ASSUME PresentationIInv
  PROVE  \A s \in Seen : /\ Moment(s) \in Known /\ s.seq \in Nat /\ s.rev \in Nat
                         /\ s.closes \in Nat \cup {None}
                         /\ s.seq <= EventSeq(room, roster, responses)
                         /\ s = client.view \/ SnapStands(s)
<1>1. ASSUME NEW s, Moment(s) \in Known
      PROVE  /\ s.seq \in Nat /\ s.rev \in Nat /\ s.closes \in Nat \cup {None}
             /\ s.seq <= EventSeq(room, roster, responses)
  <2>1. PICK x : x = Moment(s)
    OBVIOUS
  <2>2. x.seq = s.seq /\ x.rev = s.rev /\ x.closes = s.closes
    BY <2>1 DEF Moment
  <2>3. x.seq \in Nat /\ x.rev \in Nat /\ x.closes \in Nat \cup {None}
    BY <1>1, <2>1, KnownNumbers DEF PresentationIInv
  <2>4. x.seq \in 0..EventSeq(room, roster, responses)
    BY <1>1, <2>1 DEF PresentationIInv, MomentsStand, Past
  <2>5. x.seq <= EventSeq(room, roster, responses)
    BY <2>4
  <2> QED
    BY <2>2, <2>3, <2>5
<1>2. Moment(client.view) \in Known
  BY DEF Known
<1>3. ASSUME NEW m \in Letters PROVE Moment(m.snap) \in Known /\ SnapStands(m.snap)
  BY ReadableMail DEF Letters
<1>4. ASSUME NEW e \in Acks PROVE Moment(emission[e].snap) \in Known /\ SnapStands(emission[e].snap)
  <2>1. EmissionFact(e, emission[e]) /\ EmissionAt(e, "replied") /\ e \in Emissions
    BY DEF Acks, PresentationIInv, EmissionsStand
  <2>2. SnapStands(emission[e].snap)
    BY <2>1 DEF EmissionFact, EmissionAt
  <2> QED
    BY <2>1, <2>2 DEF Known
<1>5. ASSUME NEW s \in Seen PROVE Moment(s) \in Known /\ (s = client.view \/ SnapStands(s))
  BY <1>2, <1>3, <1>4 DEF Seen
<1> QED
  BY <1>1, <1>5

\* How the record goes on.
TimelineGoes ==
    /\ \A k \in DOMAIN timeline : k \in DOMAIN timeline' /\ timeline'[k] = timeline[k]
    /\ room'.flex = room.flex /\ clock \in Nat /\ clock' \in Nat /\ clock <= clock'

\* When a question was opened stays known.
LEMMA OpenStays ==
  ASSUME TimelineGoes, NEW rev, NEW b, NEW c, OpenAt(rev, b, c)
  PROVE  OpenAt(rev, b, c)'
  BY DEF TimelineGoes, OpenAt

LEMMA OverStays ==
  ASSUME TimelineGoes, NEW rev, NEW b, Over(rev, b)
  PROVE  Over(rev, b)'
<1>1. PICK closes \in Nat : OpenAt(rev, b, closes) /\ clock > closes
  BY DEF Over
<1>2. OpenAt(rev, b, closes)'
  BY <1>1, OpenStays
<1>3. clock' > closes
  BY <1>1 DEF TimelineGoes
<1> QED
  BY <1>2, <1>3 DEF Over

\* A snapshot shown as it is or as closed, and one that was built.
Like(s, t) ==
    /\ s.seq = t.seq /\ s.rev = t.rev /\ s.phase = t.phase /\ s.block = t.block
    /\ s.closes = t.closes /\ s.at = t.at /\ (s.accepting => t.accepting)

Fresh(s) ==
    /\ s.phase = "question_open" => OpenAt(s.rev, s.block, s.closes)
    /\ s.at = clock
    /\ s.accepting => s.phase = "question_open" /\ (s.closes = None \/ clock <= s.closes)

SeenGoes == \A s \in Seen' : (\E t \in Seen : Like(s, t)) \/ (Fresh(s) /\ clock' = clock)

\* Dates stay right.
LEMMA DatesStay ==
  ASSUME TimelineGoes, SeenGoes, SeenDated
  PROVE  SeenDated'
<1>1. ASSUME NEW s, NEW t, Dated(t), Like(s, t) PROVE Dated(s)'
  <2>1. s.phase = "question_open" => OpenAt(s.rev, s.block, s.closes)
    BY <1>1 DEF Dated, Like
  <2>2. s.phase = "question_open" => OpenAt(s.rev, s.block, s.closes)'
    BY <2>1, OpenStays
  <2>3. s.at \in 0..clock'
    BY <1>1 DEF Dated, Like, TimelineGoes
  <2>4. s.accepting => s.phase = "question_open" /\ (s.closes = None \/ s.at <= s.closes)
    BY <1>1 DEF Dated, Like
  <2> QED
    BY <2>2, <2>3, <2>4 DEF Dated
<1>2. ASSUME NEW s, Fresh(s), clock' = clock PROVE Dated(s)'
  <2>1. s.phase = "question_open" => OpenAt(s.rev, s.block, s.closes)'
    BY <1>2, OpenStays DEF Fresh
  <2>2. s.at \in 0..clock'
    BY <1>2 DEF Fresh, TimelineGoes
  <2>3. s.accepting => s.phase = "question_open" /\ (s.closes = None \/ s.at <= s.closes)
    BY <1>2 DEF Fresh
  <2> QED
    BY <2>1, <2>2, <2>3 DEF Dated
<1>3. ASSUME NEW s \in Seen' PROVE Dated(s)'
  BY <1>1, <1>2 DEF SeenGoes, SeenDated
<1> QED
  BY <1>3 DEF SeenDated

\* So does what a broadcast counts.
LEMMA LatestStays ==
  ASSUME TimelineGoes, SeenGoes, NEW s, s.at \in 0..clock, Latest(s)
  PROVE  Latest(s)'
<1>1. ASSUME NEW u \in Seen', u.seq > s.seq PROVE u.at >= s.at
  <2>1. CASE \E t \in Seen : Like(u, t)
    BY <1>1, <2>1 DEF Latest, Like
  <2>2. CASE Fresh(u)
    BY <2>2 DEF Fresh, TimelineGoes
  <2> QED
    BY <2>1, <2>2 DEF SeenGoes
<1> QED
  BY <1>1 DEF Latest

\* Once the deadline of a question is over, nothing is built that shows it as open.
LEMMA FreshIsShut ==
  ASSUME RoomIInv, RoomStands, NEW rev, NEW b, Over(rev, b), NEW s, Fresh(s)
  PROVE  ~Shows(b, s)
<1>1. PICK closes \in Nat : OpenAt(rev, b, closes) /\ clock > closes
  BY DEF Over
<1>2. ASSUME Shows(b, s) PROVE FALSE
  <2>1. OpenAt(s.rev, b, s.closes)
    BY <1>2 DEF Shows, Fresh
  <2>2. s.closes = closes
    BY <1>1, <2>1, OpenedOnce
  <2>3. closes # None
    BY RoomAssumption
  <2>4. s.closes = None \/ clock <= s.closes
    BY <1>2 DEF Shows, Fresh
  <2> QED
    BY <1>1, <2>2, <2>3, <2>4 DEF RoomStands
<1> QED
  BY <1>2

\* So nothing shows it later than it was shown.
LEMMA NotAfterStays ==
  ASSUME RoomIInv, RoomStands, SeenGoes, NEW rev, NEW b, Over(rev, b), NEW seq, NotAfter(b, seq)
  PROVE  NotAfter(b, seq)'
<1>1. ASSUME NEW u \in Seen', Shows(b, u) PROVE u.seq <= seq
  <2>1. CASE \E t \in Seen : Like(u, t)
    BY <1>1, <2>1 DEF NotAfter, Shows, Like
  <2>2. CASE Fresh(u)
    BY <1>1, <2>2, FreshIsShut
  <2> QED
    BY <2>1, <2>2 DEF SeenGoes
<1> QED
  BY <1>1 DEF NotAfter, Shows

\* The record goes on in every step.
LEMMA RecordGoesOn ==
  ASSUME RoomStands, PresentationNext
  PROVE  TimelineGoes
<1>1. ASSUME NEW t, NEW cmd, ApplyTransition(t, cmd), UNCHANGED << roster, responses, clock >>
      PROVE  TimelineGoes
  <2>1. /\ \A i \in 1..Len(timeline) : timeline'[i] = timeline[i]
        /\ DOMAIN timeline = 1..Len(timeline) /\ DOMAIN timeline' = 1..Len(timeline')
        /\ Len(timeline) \in Nat /\ Len(timeline') = Len(timeline) + 1 /\ room'.flex = room.flex
    BY <1>1, MovedRoom
  <2> QED
    BY <1>1, <2>1 DEF TimelineGoes, RoomStands
<1>2. CASE RoomQuiet
  BY <1>2 DEF RoomQuiet, TimelineGoes, RoomStands
<1> QED
  BY <1>1, <1>2, StepsOfRoom DEF AdvanceByRest, Commit

\* What is seen, while the page, the mail and the acknowledgements stay.
LEMMA SeenStays ==
  ASSUME UNCHANGED << client, mail, emission >>
  PROVE  Seen' = Seen /\ Letters' = Letters
  BY DEF Seen, Letters, Acks, Readable, EmissionAt

\* Neither the windows nor the others change what the page waits for.
LEMMA RoomWatched ==
  ASSUME TimesStand, WatchStands, TimelineGoes, UNCHANGED answersVars
  PROVE  TimesStand' /\ WatchStands'
<1>1. UNCHANGED << client, reconc, emission, reading, mail >>
  BY DEF answersVars
<1>2. Seen' = Seen /\ Letters' = Letters
  BY <1>1, SeenStays
<1>3. SeenGoes
  BY <1>2 DEF SeenGoes, Like
<1>4. SeenDated'
  BY <1>3, DatesStay DEF TimesStand
<1>5. ReadingDated'
  <2>1. PICK r : r = reading
    OBVIOUS
  <2>2. r # NoReading /\ r.row.phase = "question_open" =>
           OpenAt(r.row.revision, CurrentId(r.row), r.row.closes)
    BY <2>1 DEF TimesStand, ReadingDated
  <2>3. r # NoReading /\ r.row.phase = "question_open" =>
           OpenAt(r.row.revision, CurrentId(r.row), r.row.closes)'
    BY <2>2, OpenStays
  <2> QED
    BY <1>1, <2>1, <2>3 DEF ReadingDated
<1>6. PageDated'
  <2>1. \A x : x \in 0..clock => x \in 0..clock'
    BY DEF TimelineGoes
  <2> QED
    BY <1>1, <2>1 DEF TimesStand, PageDated, FenceDated
<1>7. BroadcastsLatest'
  BY <1>2 DEF TimesStand, BroadcastsLatest, Latest
<1>8. OneAnswer' /\ WaitersFact' /\ WatchFact'
  BY <1>1 DEF WatchStands, OneAnswer, WaitersFact, WatchFact
<1>9. QuestionFact'
  <2>1. ASSUME NEW rev, NEW b, NEW c, OpenAt(rev, b, c) PROVE OpenAt(rev, b, c)'
    BY <2>1, OpenStays
  <2> QED
    BY <1>1, <2>1 DEF WatchStands, QuestionFact
<1>10. ConfirmFact'
  <2>1. ASSUME NEW b PROVE (Shut(b) => Shut(b)') /\ (Conclusive(b) => Conclusive(b)')
    BY <1>1, <1>2 DEF Shut, Conclusive, NotAfter, Shows
  <2>2. PICK x : x = client.sub
    OBVIOUS
  <2>3. Confirming => /\ x.replayed /\ Over(x.expected, x.block)
                      /\ Shut(x.block) \/ Conclusive(x.block)
    BY <2>2 DEF WatchStands, ConfirmFact
  <2>4. Confirming' => Confirming
    BY <1>1 DEF Confirming
  <2>5. Confirming' => x.replayed /\ Over(x.expected, x.block)'
                          /\ (Shut(x.block)' \/ Conclusive(x.block)')
    BY <2>1, <2>3, <2>4, OverStays
  <2> QED
    BY <1>1, <2>2, <2>5 DEF ConfirmFact
<1> QED
  BY <1>4, <1>5, <1>6, <1>7, <1>8, <1>9, <1>10 DEF TimesStand, WatchStands

\* The row of the session tells when its question was opened.
LEMMA RowTells ==
  ASSUME RoomStands, room.phase = "question_open"
  PROVE  OpenAt(room.revision, CurrentId(room), room.closes)
<1>1. PICK S : timeline \in Seq(S)
  BY DEF RoomStands, IsTimeline
<1>2. Len(timeline) \in Nat /\ DOMAIN timeline = 1..Len(timeline)
  BY <1>1, LenProperties
<1>3. Len(timeline) > 0 /\ room.revision = Len(timeline)
  BY <1>2 DEF RoomStands, LastEntryIsNow
<1>4. room.revision \in DOMAIN timeline
  BY <1>2, <1>3
<1>5. /\ timeline[room.revision].phase = "question_open"
      /\ timeline[room.revision].block = CurrentId(room)
      /\ room.closes = IF room.flex THEN None ELSE timeline[room.revision].at + TimeLimit
  BY <1>3 DEF RoomStands, LastEntryIsNow
<1> QED
  BY <1>4, <1>5 DEF OpenAt

\* What the server builds of a row is a snapshot of the present.
LEMMA BuiltIsFresh ==
  ASSUME NEW r, NEW seq, NEW joined, NEW answers, NEW s, s = Snapshot(r, seq, joined, answers),
         r.phase = "question_open" => OpenAt(r.revision, CurrentId(r), r.closes)
  PROVE  Fresh(s) /\ s.seq = seq
<1>1. /\ s.seq = seq /\ s.rev = r.revision /\ s.phase = r.phase /\ s.block = CurrentId(r)
      /\ s.closes = r.closes /\ s.at = clock
      /\ s.accepting = (r.phase = "question_open" /\ (r.closes = None \/ clock <= r.closes))
  BY DEF Snapshot
<1> QED
  BY <1>1 DEF Fresh

\* What a reading that starts, goes on or starts again has read.
ReadsOn(r) ==
    \/ r.row = room /\ r.seq = EventSeq(room, roster, responses)
    \/ reading # NoReading /\ r.row = reading.row /\ r.seq = reading.seq /\ r.for = reading.for

\* The server reads, and posts nothing.
LEMMA ReadWatched ==
  ASSUME PresentationIInv, TimesStand, WatchStands, NEW r, reading' = r, ReadsOn(r),
         IsAnswer(r.for) => reconc.stage = r.for /\ \A m \in mail : m.for # r.for,
         UNCHANGED << client, reconc, emission, mail, room, timeline, roster, responses, clock >>
  PROVE  TimesStand' /\ WatchStands'
<1>1. Seen' = Seen /\ Letters' = Letters
  BY SeenStays
<1>2. SeenDated' /\ PageDated' /\ BroadcastsLatest'
  BY <1>1 DEF TimesStand, SeenDated, PageDated, FenceDated, BroadcastsLatest, Latest, Dated, OpenAt
<1>3. r.row.phase = "question_open" => OpenAt(r.row.revision, CurrentId(r.row), r.row.closes)
  BY RowTells DEF ReadsOn, TimesStand, ReadingDated, PresentationIInv
<1>4. ReadingDated'
  BY <1>3 DEF ReadingDated, OpenAt
<1>5. OneAnswer' /\ WaitersFact' /\ WatchFact' /\ QuestionFact'
  BY DEF WatchStands, OneAnswer, WaitersFact, WatchFact, QuestionFact, OpenAt
<1>6. ASSUME NEW b PROVE Shut(b)' <=> Shut(b)
  BY <1>1 DEF Shut, NotAfter
<1>7. ASSUME NEW b, Conclusive(b) PROVE Conclusive(b)'
  <2>1. ASSUME IsAnswer(r.for) PROVE NotAfter(b, r.seq)
    <3>1. CASE r.row = room /\ r.seq = EventSeq(room, roster, responses)
      BY <3>1, SeenSnapshots DEF NotAfter
    <3>2. CASE r.seq = reading.seq /\ r.for = reading.for
      BY <1>7, <2>1, <3>2 DEF Conclusive
    <3> QED
      BY <3>1, <3>2 DEF ReadsOn
  <2>2. \A seq : NotAfter(b, seq)' <=> NotAfter(b, seq)
    BY <1>1 DEF NotAfter
  <2> QED
    BY <1>1, <1>7, <2>1, <2>2 DEF Conclusive
<1>8. ConfirmFact'
  <2>1. PICK x : x = client.sub
    OBVIOUS
  <2>2. Confirming' <=> Confirming
    BY DEF Confirming
  <2>3. Over(x.expected, x.block)' <=> Over(x.expected, x.block)
    BY DEF Over, OpenAt
  <2> QED
    BY <1>6, <1>7, <2>1, <2>2, <2>3 DEF WatchStands, ConfirmFact
<1> QED
  BY <1>2, <1>4, <1>5, <1>8 DEF TimesStand, WatchStands

\* The server posts what it has read, or nothing of it.
LEMMA PostWatched ==
  ASSUME PresentationIInv, RoomIInv, TimesStand, WatchStands, TimelineGoes, reading # NoReading,
         NEW s, (s = None /\ reading.for # "rest") \/ (Fresh(s) /\ s.seq = reading.seq), Post(s),
         reading.for = "broadcast" /\ s # None => reading.seq = EventSeq(room, roster, responses),
         UNCHANGED << client, reconc, emission, room, timeline, roster, responses, clock >>
  PROVE  TimesStand' /\ WatchStands'
<1>1. PICK m : m = [for |-> reading.for, snap |-> s]
  OBVIOUS
<1>2. /\ m.for = reading.for /\ m.snap = s /\ mail' = mail \cup {m} /\ reading' = NoReading
  BY <1>1 DEF Post
<1>3. Readable(m) => Fresh(s) /\ s.seq = reading.seq
  BY <1>2 DEF Readable
<1>4. Letters' \subseteq Letters \cup {m} /\ Letters \subseteq Letters'
      /\ (m \in Letters' => Readable(m))
  BY <1>2 DEF Letters, Readable
<1>5. \A t \in Seen' : t \in Seen \/ (t = s /\ Readable(m))
  BY <1>2, <1>4 DEF Seen, Acks, EmissionAt
<1>6. SeenGoes
  BY <1>3, <1>5 DEF SeenGoes, Like
<1>7. SeenDated'
  BY <1>6, DatesStay DEF TimesStand
<1>8. PageDated' /\ ReadingDated'
  BY <1>2 DEF TimesStand, PageDated, FenceDated, ReadingDated
<1>9. BroadcastsLatest'
  <2>1. ASSUME NEW n \in Letters, n.for = "broadcast" PROVE Latest(n.snap)'
    <3>1. PICK t : t = n.snap
      OBVIOUS
    <3>2. t \in Seen /\ Latest(t)
      BY <2>1, <3>1 DEF Seen, TimesStand, BroadcastsLatest
    <3>3. t.at \in 0..clock
      BY <3>2 DEF TimesStand, SeenDated, Dated
    <3>4. Latest(t)'
      BY <1>6, <3>2, <3>3, LatestStays
    <3> QED
      BY <1>2, <3>1, <3>4 DEF Latest
  <2>2. ASSUME Readable(m), m.for = "broadcast" PROVE Latest(s)'
    <3>1. s # None /\ s.seq = EventSeq(room, roster, responses) /\ reading.seq \in Nat
      BY <1>2, <1>3, <2>2, KnownNumbers DEF Readable, PresentationIInv
    <3>2. ASSUME NEW t \in Seen' PROVE ~(t.seq > s.seq)
      <4>1. CASE t \in Seen
        BY <1>3, <2>2, <3>1, <4>1, SeenSnapshots
      <4>2. CASE t = s
        BY <1>3, <2>2, <3>1, <4>2
      <4> QED
        BY <1>5, <4>1, <4>2
    <3> QED
      BY <3>2 DEF Latest
  <2>3. ASSUME NEW n \in Letters', n.for = "broadcast" PROVE Latest(n.snap)'
    <3>1. CASE n \in Letters
      BY <2>1, <2>3, <3>1
    <3>2. CASE n = m
      BY <1>2, <1>4, <2>2, <2>3, <3>2 DEF Latest
    <3> QED
      BY <1>4, <3>1, <3>2
  <2> QED
    BY <2>3 DEF BroadcastsLatest
<1>10. OneAnswer'
  <2>1. reading'.for = "none"
    BY <1>2 DEF NoReading
  <2> QED
    BY <1>2, <2>1 DEF WatchStands, OneAnswer, IsAnswer
<1>11. WaitersFact' /\ WatchFact' /\ QuestionFact'
  BY DEF WatchStands, WaitersFact, WatchFact, QuestionFact, OpenAt
<1>12. ASSUME NEW rev, NEW b, Over(rev, b), Shut(b) PROVE Shut(b)'
  <2>1. PICK x : x = client.fence.seq
    OBVIOUS
  <2>2. NotAfter(b, x)'
    BY <1>6, <1>12, <2>1, NotAfterStays DEF Shut, PresentationIInv
  <2> QED
    BY <1>12, <2>1, <2>2 DEF Shut, NotAfter
<1>13. ASSUME NEW rev, NEW b, Over(rev, b), Conclusive(b) PROVE Conclusive(b)'
  <2>1. ASSUME NEW n \in Letters', IsAnswer(n.for)
        PROVE  ~Shows(b, n.snap) /\ NotAfter(b, n.snap.seq)'
    <3>1. PICK t : t = n.snap
      OBVIOUS
    <3>2. CASE n \in Letters
      <4>1. ~Shows(b, t) /\ NotAfter(b, t.seq)
        BY <1>13, <2>1, <3>1, <3>2 DEF Conclusive
      <4>2. NotAfter(b, t.seq)'
        BY <1>6, <1>13, <4>1, NotAfterStays DEF PresentationIInv
      <4> QED
        BY <3>1, <4>1, <4>2 DEF NotAfter
    <3>3. CASE n = m
      <4>1. t = s /\ Fresh(s) /\ s.seq = reading.seq /\ IsAnswer(reading.for)
        BY <1>2, <1>3, <1>4, <2>1, <3>1, <3>3
      <4>2. ~Shows(b, t)
        BY <1>13, <4>1, FreshIsShut DEF PresentationIInv
      <4>3. NotAfter(b, t.seq)
        BY <1>13, <4>1 DEF Conclusive
      <4>4. NotAfter(b, t.seq)'
        BY <1>6, <1>13, <4>3, NotAfterStays DEF PresentationIInv
      <4> QED
        BY <3>1, <4>2, <4>4 DEF NotAfter
    <3> QED
      BY <1>4, <3>2, <3>3
  <2>2. ~IsAnswer(reading'.for)
    BY <1>2 DEF NoReading, IsAnswer
  <2> QED
    BY <2>1, <2>2 DEF Conclusive, NotAfter
<1>14. ConfirmFact'
  <2>1. PICK x : x = client.sub
    OBVIOUS
  <2>2. Confirming' <=> Confirming
    BY DEF Confirming
  <2>3. Over(x.expected, x.block)' <=> Over(x.expected, x.block)
    BY DEF Over, OpenAt
  <2> QED
    BY <1>12, <1>13, <2>1, <2>2, <2>3 DEF WatchStands, ConfirmFact
<1> QED
  BY <1>7, <1>8, <1>9, <1>10, <1>11, <1>14 DEF TimesStand, WatchStands

\* Where the room stays, its record does.
LEMMA RecordStays ==
  ASSUME RoomStands, UNCHANGED << room, timeline, clock >>
  PROVE  TimelineGoes
  BY DEF RoomStands, TimelineGoes

\* Every step of a reading.
LEMMA ReadingsWatched ==
  ASSUME PresentationIInv, RoomIInv, TimesStand, WatchStands,
         (\E for \in {"sync", "broadcast", "rest"} : StartReading(for)) \/ ReadData \/ Confirm
  PROVE  TimesStand' /\ WatchStands'
<1> USE DEF PresentationIInv
<1>1. ASSUME NEW for \in {"sync", "broadcast", "rest"}, StartReading(for)
      PROVE  TimesStand' /\ WatchStands'
  <2>1. PICK r : r = reading'
    OBVIOUS
  <2>2. r.row = room /\ r.seq = EventSeq(room, roster, responses) /\ r.for = for
    BY <1>1, <2>1 DEF StartReading
  <2>3. ReadsOn(r)
    BY <2>2 DEF ReadsOn
  <2>4. IsAnswer(r.for) => reconc.stage = r.for /\ \A m \in mail : m.for # r.for
    BY <1>1, <2>2 DEF StartReading, IsAnswer
  <2>5. UNCHANGED << client, reconc, emission, mail, room, timeline, roster, responses, clock >>
    BY <1>1 DEF StartReading, roomVars
  <2> QED
    BY <2>1, <2>3, <2>4, <2>5, ReadWatched
<1>2. CASE ReadData
  <2>1. /\ UNCHANGED << client, reconc, emission, mail, room, timeline, roster, responses, clock >>
        /\ reading # NoReading
        /\ reading' = [reading EXCEPT !.data = [joined |-> roster, answers |-> responses]]
    BY <1>2 DEF ReadData, roomVars
  <2>2. reading = [for |-> reading.for, row |-> reading.row, seq |-> reading.seq,
                   data |-> reading.data, attempt |-> reading.attempt]
    BY <2>1 DEF ReadingFact
  <2>3. PICK r : r = reading'
    OBVIOUS
  <2>4. r.for = reading.for /\ r.row = reading.row /\ r.seq = reading.seq
    BY <2>1, <2>2, <2>3
  <2>5. ReadsOn(r)
    BY <2>1, <2>4 DEF ReadsOn
  <2>6. IsAnswer(r.for) => reconc.stage = r.for /\ \A m \in mail : m.for # r.for
    BY <2>4 DEF WatchStands, OneAnswer
  <2> QED
    BY <2>1, <2>3, <2>5, <2>6, ReadWatched
<1>3. CASE Confirm
  <2>1. PICK s : s = Snapshot(reading.row, reading.seq, reading.data.joined, reading.data.answers)
    OBVIOUS
  <2>2. /\ UNCHANGED << client, reconc, emission, room, timeline, roster, responses, clock >>
        /\ reading # NoReading
    BY <1>3 DEF Confirm, roomVars
  <2>3. Fresh(s) /\ s.seq = reading.seq
    <3>1. PICK r : r = reading.row
      OBVIOUS
    <3>2. r.phase = "question_open" => OpenAt(r.revision, CurrentId(r), r.closes)
      BY <2>2, <3>1 DEF TimesStand, ReadingDated
    <3> QED
      BY <2>1, <3>1, <3>2, BuiltIsFresh
  <2>4. TimelineGoes
    BY <2>2, RecordStays
  <2>5. CASE reading.for = "rest" \/ EventSeq(room, roster, responses) = reading.seq
    <3>1. Post(s)
      BY <1>3, <2>1, <2>5 DEF Confirm
    <3>2. reading.for = "broadcast" => reading.seq = EventSeq(room, roster, responses)
      BY <2>5
    <3> QED
      BY <2>2, <2>3, <2>4, <3>1, <3>2, PostWatched
  <2>6. CASE ~(reading.for = "rest" \/ EventSeq(room, roster, responses) = reading.seq)
             /\ reading.attempt < ReadAttempts
    <3>1. /\ reading' = [reading EXCEPT !.row = room, !.data = None, !.attempt = @ + 1,
                                        !.seq = EventSeq(room, roster, responses)]
          /\ UNCHANGED mail
      BY <1>3, <2>6 DEF Confirm
    <3>2. reading = [for |-> reading.for, row |-> reading.row, seq |-> reading.seq,
                     data |-> reading.data, attempt |-> reading.attempt]
      BY <2>2 DEF ReadingFact
    <3>3. reading' = [for |-> reading.for, row |-> room,
                      seq |-> EventSeq(room, roster, responses), data |-> None,
                      attempt |-> reading.attempt + 1]
      BY <3>1, <3>2
    <3>4. PICK r : r = reading'
      OBVIOUS
    <3>5. r.for = reading.for /\ r.row = room /\ r.seq = EventSeq(room, roster, responses)
      BY <3>3, <3>4
    <3>6. ReadsOn(r)
      BY <3>5 DEF ReadsOn
    <3>7. IsAnswer(r.for) => reconc.stage = r.for /\ \A m \in mail : m.for # r.for
      BY <3>5 DEF WatchStands, OneAnswer
    <3> QED
      BY <2>2, <3>1, <3>4, <3>6, <3>7, ReadWatched
  <2>7. CASE ~(reading.for = "rest" \/ EventSeq(room, roster, responses) = reading.seq)
             /\ ~(reading.attempt < ReadAttempts)
    <3>1. Post(None)
      BY <1>3, <2>7 DEF Confirm
    <3> QED
      BY <2>2, <2>4, <2>7, <3>1, PostWatched
  <2> QED
    BY <2>5, <2>6, <2>7
<1> QED
  BY <1>1, <1>2, <1>3

-------------------------------------------------------------------------------
(* Steps after which nothing is seen that was not, but for a fresh snapshot.  *)

\* The mail loses letters, and the reading ends or stays.
LessIsRead ==
    /\ Letters' \subseteq Letters
    /\ reading' = reading \/ reading' = NoReading

\* What is dated stays so.
LEMMA TimesGo ==
  ASSUME TimelineGoes, SeenGoes, LessIsRead, TimesStand, PageDated'
  PROVE  TimesStand'
<1>1. SeenDated'
  BY DatesStay DEF TimesStand
<1>2. ReadingDated'
  <2>1. PICK r : r = reading'
    OBVIOUS
  <2>2. r # NoReading /\ r.row.phase = "question_open" =>
           OpenAt(r.row.revision, CurrentId(r.row), r.row.closes)
    BY <2>1 DEF TimesStand, ReadingDated, LessIsRead
  <2>3. r # NoReading /\ r.row.phase = "question_open" =>
           OpenAt(r.row.revision, CurrentId(r.row), r.row.closes)'
    BY <2>2, OpenStays
  <2> QED
    BY <2>1, <2>3 DEF ReadingDated
<1>3. ASSUME NEW m \in Letters', m.for = "broadcast" PROVE Latest(m.snap)'
  <2>1. PICK s : s = m.snap
    OBVIOUS
  <2>2. m \in Letters /\ s \in Seen /\ Latest(s)
    BY <1>3, <2>1 DEF LessIsRead, Seen, TimesStand, BroadcastsLatest
  <2>3. s.at \in 0..clock
    BY <2>2 DEF TimesStand, SeenDated, Dated
  <2>4. Latest(s)'
    BY <2>2, <2>3, LatestStays
  <2> QED
    BY <2>1, <2>4 DEF Latest
<1>4. BroadcastsLatest'
  BY <1>3 DEF BroadcastsLatest
<1> QED
  BY <1>1, <1>2, <1>4 DEF TimesStand

\* Whatever is later than a sequence number is later than an earlier one.
LEMMA NotAfterLater ==
  ASSUME PresentationIInv, NEW b, NEW x \in Nat, NEW y \in Nat, x <= y, NotAfter(b, x)
  PROVE  NotAfter(b, y)
<1>1. ASSUME NEW t \in Seen, Shows(b, t) PROVE t.seq <= y
  <2>1. t.seq \in Nat /\ t.seq <= x
    BY <1>1, SeenSnapshots DEF NotAfter
  <2> QED
    BY <2>1
<1> QED
  BY <1>1 DEF NotAfter

\* An answer that is conclusive stays so.
LEMMA ConclusiveStays ==
  ASSUME PresentationIInv, RoomIInv, SeenGoes, LessIsRead, NEW rev, NEW b, Over(rev, b),
         Conclusive(b)
  PROVE  Conclusive(b)'
<1> USE DEF PresentationIInv
<1>1. ASSUME IsAnswer(reading'.for) PROVE NotAfter(b, reading.seq)'
  <2>1. reading' = reading
    BY <1>1 DEF LessIsRead, NoReading, IsAnswer
  <2>2. PICK x : x = reading.seq
    OBVIOUS
  <2>3. NotAfter(b, x)
    BY <1>1, <2>1, <2>2 DEF Conclusive
  <2>4. NotAfter(b, x)'
    BY <2>3, NotAfterStays
  <2> QED
    BY <2>1, <2>2, <2>4 DEF NotAfter
<1>2. ASSUME NEW m \in Letters', IsAnswer(m.for) PROVE ~Shows(b, m.snap) /\ NotAfter(b, m.snap.seq)'
  <2>1. PICK x : x = m.snap.seq
    OBVIOUS
  <2>2. ~Shows(b, m.snap) /\ NotAfter(b, x)
    BY <1>2, <2>1 DEF Conclusive, LessIsRead
  <2>3. NotAfter(b, x)'
    BY <2>2, NotAfterStays
  <2> QED
    BY <2>1, <2>2, <2>3 DEF NotAfter
<1> QED
  BY <1>1, <1>2 DEF Conclusive

\* While the page stays, so does what it waits for.
LEMMA StillWatched ==
  ASSUME PresentationIInv, RoomIInv, TimesStand, WatchStands, SeenGoes,
         UNCHANGED << client, reconc, reading, mail, room, timeline, clock >>
  PROVE  TimesStand' /\ WatchStands'
<1>1. TimelineGoes /\ LessIsRead
  BY RecordStays DEF PresentationIInv, LessIsRead, Letters, Readable
<1>2. PageDated'
  BY DEF TimesStand, PageDated, FenceDated
<1>3. TimesStand'
  BY <1>1, <1>2, TimesGo
<1>4. OneAnswer' /\ WaitersFact' /\ WatchFact' /\ QuestionFact'
  BY DEF WatchStands, OneAnswer, WaitersFact, WatchFact, QuestionFact, OpenAt
<1>5. ConfirmFact'
  <2>1. PICK x, y : x = client.sub /\ y = client.fence.seq
    OBVIOUS
  <2>2. Confirming' <=> Confirming
    BY DEF Confirming
  <2>3. Over(x.expected, x.block)' <=> Over(x.expected, x.block)
    BY DEF Over, OpenAt
  <2>4. ASSUME Over(x.expected, x.block), Shut(x.block) PROVE Shut(x.block)'
    <3>1. NotAfter(x.block, y)'
      BY <2>1, <2>4, NotAfterStays DEF Shut, PresentationIInv
    <3> QED
      BY <2>1, <2>4, <3>1 DEF Shut, NotAfter
  <2>5. ASSUME Over(x.expected, x.block), Conclusive(x.block) PROVE Conclusive(x.block)'
    BY <1>1, <2>5, ConclusiveStays
  <2> QED
    BY <2>1, <2>2, <2>3, <2>4, <2>5 DEF WatchStands, ConfirmFact
<1> QED
  BY <1>3, <1>4, <1>5 DEF WatchStands

\* The server's steps of a submission are such, and only its acknowledgement is fresh.
LEMMA SubmissionsWatched ==
  ASSUME PresentationIInv, RoomIInv, TimesStand, WatchStands, NEW e \in Emissions,
         \/ ReceiveSubmission(e) \/ ReadContext(e) \/ AcceptResponse(e)
         \/ ReadAcknowledgement(e) \/ SubmissionFails(e)
  PROVE  TimesStand' /\ WatchStands'
<1>1. UNCHANGED << client, reconc, reading, mail, room, timeline, clock >>
  BY DEF ReceiveSubmission, ReadContext, AcceptResponse, ReadAcknowledgement, SubmissionFails,
         SubmissionKeeps
<1>2. ASSUME NEW em, emission' = [emission EXCEPT ![e] = em],
             em.stage = "replied" => Fresh(em.snap)
      PROVE  SeenGoes
  <2>1. /\ DOMAIN emission' = Emissions /\ emission'[e] = em
        /\ \A o \in Emissions : o # e => emission'[o] = emission[o]
    BY <1>2, OneEmission DEF PresentationIInv, EmissionsStand
  <2>2. ASSUME NEW s \in Seen', s \notin Seen PROVE Fresh(s)
    <3>1. PICK o \in Emissions : emission'[o].stage = "replied" /\ s = emission'[o].snap
      BY <1>1, <2>2 DEF Seen, Letters, Acks, Readable, EmissionAt
    <3>2. o = e
      BY <2>1, <2>2, <3>1 DEF Seen, Acks, EmissionAt
    <3> QED
      BY <1>2, <2>1, <3>1, <3>2
  <2>3. \A s : Like(s, s)
    BY DEF Like
  <2> QED
    BY <1>1, <2>2, <2>3 DEF SeenGoes
<1>3. EmissionFact(e, emission[e])
  BY DEF PresentationIInv, EmissionsStand
<1>4. PICK em : em = emission[e]
  OBVIOUS
<1>5. em = [stage |-> em.stage, block |-> em.block, expected |-> em.expected, at |-> em.at,
            elapsed |-> em.elapsed, snap |-> em.snap]
  BY <1>3, <1>4 DEF EmissionFact
<1>6. CASE ReceiveSubmission(e)
  <2>1. emission' = [emission EXCEPT ![e] = WithAt(em, "received", clock)]
    BY <1>4, <1>6 DEF ReceiveSubmission, WithAt
  <2>2. WithAt(em, "received", clock).stage = "received"
    BY <1>5, EmissionFields
  <2> QED
    BY <1>1, <1>2, <2>1, <2>2, StillWatched
<1>7. CASE ReadContext(e)
  <2>1. PICK stage, x : /\ stage = (IF em.at >= LiveExpiresAt THEN "refused" ELSE "ready")
                        /\ x = Elapsed(em.at)
    OBVIOUS
  <2>2. emission' = [emission EXCEPT ![e] = WithElapsed(em, stage, x)]
    BY <1>4, <1>7, <2>1 DEF ReadContext, WithElapsed
  <2>3. WithElapsed(em, stage, x).stage = stage /\ stage # "replied"
    BY <1>5, <2>1, EmissionFields
  <2> QED
    BY <1>1, <1>2, <2>2, <2>3, StillWatched
<1>8. CASE AcceptResponse(e) \/ SubmissionFails(e)
  <2>1. PICK stage : /\ stage \in {"saved", "refused"}
                     /\ emission' = [emission EXCEPT ![e].stage = stage]
    BY <1>8 DEF AcceptResponse, SubmissionFails
  <2>2. PICK o : o = [em EXCEPT !.stage = stage]
    OBVIOUS
  <2>3. o.stage = stage /\ emission' = [emission EXCEPT ![e] = o]
    BY <1>4, <1>5, <2>1, <2>2
  <2> QED
    BY <1>1, <1>2, <2>1, <2>3, StillWatched
<1>9. CASE ReadAcknowledgement(e)
  <2>1. PICK s : s = SnapshotNow
    OBVIOUS
  <2>2. Fresh(s)
    <3>1. PICK r : r = room
      OBVIOUS
    <3>2. r.phase = "question_open" => OpenAt(r.revision, CurrentId(r), r.closes)
      BY <3>1, RowTells DEF PresentationIInv
    <3>3. s = Snapshot(r, EventSeq(room, roster, responses), roster, responses)
      BY <2>1, <3>1 DEF SnapshotNow
    <3> QED
      BY <3>2, <3>3, BuiltIsFresh
  <2>3. emission' = [emission EXCEPT ![e] = WithSnap(em, "replied", s)]
    BY <1>4, <1>9, <2>1 DEF ReadAcknowledgement, WithSnap
  <2>4. WithSnap(em, "replied", s).snap = s
    BY <1>5, EmissionFields
  <2> QED
    BY <1>1, <1>2, <2>2, <2>3, <2>4, StillWatched
<1> QED
  BY <1>6, <1>7, <1>8, <1>9

-------------------------------------------------------------------------------
(* The page's steps.                                                          *)

\* A step of the page leaves the acknowledgements that are on their way as they are.
LEMMA RepliesStay ==
  ASSUME PresentationIInv, PageStep
  PROVE  \A e \in Emissions : emission'[e].stage = "replied" => emission'[e] = emission[e]
<1>1. CASE emission' = emission
  BY <1>1
<1>2. CASE client.sub.key # None /\ emission' = Sent(<< client.sub.key, 2 >>, client.sub)
  <2>1. PICK k, sub : k = client.sub.key /\ sub = client.sub
    OBVIOUS
  <2>2. k \in Keys /\ DOMAIN emission = Emissions /\ emission' = Sent(<< k, 2 >>, sub)
    BY <1>2, <2>1 DEF PresentationIInv, PageStands, EmissionsStand
  <2>3. /\ emission'[<< k, 2 >>] =
              [stage |-> "sent", block |-> sub.block, expected |-> sub.expected, at |-> None,
               elapsed |-> None, snap |-> None]
        /\ \A e \in Emissions : e # << k, 2 >> => emission'[e] = emission[e]
    BY <2>2, SubmissionSent
  <2>4. emission'[<< k, 2 >>].stage = "sent"
    BY <2>3
  <2> QED
    BY <2>3, <2>4
<1> QED
  BY <1>1, <1>2 DEF PageStep

\* What the page shows was on its way, or was shown.
ShowsSeen == \E t \in Seen : Like(client'.view, t)

\* So nothing is seen that was not.
LEMMA PageSees ==
  ASSUME ShowsSeen, mail' \subseteq mail, reading' = reading \/ reading' = NoReading,
         \A e \in Emissions : emission'[e].stage = "replied" => emission'[e] = emission[e]
  PROVE  SeenGoes /\ LessIsRead
<1>1. \A s : Like(s, s)
  BY DEF Like
<1>2. ASSUME NEW s \in Seen' PROVE \E t \in Seen : Like(s, t)
  <2>1. CASE s = client'.view
    BY <2>1 DEF ShowsSeen
  <2>2. CASE \E m \in mail : Readable(m) /\ s = m.snap
    BY <1>1, <2>2 DEF Seen, Letters
  <2>3. ASSUME NEW e \in Emissions, emission'[e].stage = "replied", s = emission'[e].snap
        PROVE  s \in Seen
    BY <2>3 DEF Seen, Acks, EmissionAt
  <2> QED
    BY <1>1, <2>1, <2>2, <2>3 DEF Seen, Letters, Acks, Readable, EmissionAt
<1>3. Letters' \subseteq Letters
  BY DEF Letters, Readable
<1> QED
  BY <1>2, <1>3 DEF SeenGoes, LessIsRead

\* A question that is shut on the page stays shut: what comes later does not show it, and
\* at the same place the page does not open it again.
LEMMA ShutStays ==
  ASSUME PresentationIInv, RoomIInv, TimesStand, PageStep, SeenGoes, ShowsSeen,
         NEW rev, NEW b, Over(rev, b), Shut(b)
  PROVE  Shut(b)'
<1> USE DEF PresentationIInv
<1>1. PICK p, d : p = client /\ d = client'
  OBVIOUS
<1>2. /\ PageStands(p) /\ PageStands(d) /\ NotBack(p, d) /\ Moment(p.view) \in Known
      /\ Moment(d.view) \in Known
  BY <1>1, PresentPage DEF PageStep
<1>3. /\ p.fence.seq = p.view.seq /\ d.fence.seq = d.view.seq
  BY <1>2 DEF PageStands
<1>4. /\ p.view.seq \in Nat /\ d.view.seq \in Nat /\ p.view.rev \in Nat /\ d.view.rev \in Nat
  <2>1. \A x \in {p, d} : Moment(x.view).seq \in Nat /\ Moment(x.view).rev \in Nat
    BY <1>2, KnownNumbers
  <2> QED
    BY <2>1 DEF Moment
<1>5. p.view.seq <= d.view.seq
  BY <1>2, <1>4 DEF NotBack
<1>6. PICK y : y = d.fence.seq
  OBVIOUS
<1>7. NotAfter(b, y)
  <2>1. PICK x : x = p.fence.seq
    OBVIOUS
  <2>2. NotAfter(b, x)
    BY <1>1, <2>1 DEF Shut
  <2>3. x \in Nat /\ y \in Nat /\ x <= y
    BY <1>3, <1>4, <1>5, <1>6, <2>1
  <2> QED
    BY <2>2, <2>3, NotAfterLater
<1>8. NotAfter(b, y)'
  BY <1>7, NotAfterStays
<1>9. ASSUME Shows(b, d.view) PROVE FALSE
  <2>1. PICK t \in Seen : Like(d.view, t)
    BY <1>1 DEF ShowsSeen
  <2>2. Shows(b, t) /\ Dated(t)
    BY <1>9, <2>1 DEF Shows, Like, TimesStand, SeenDated
  <2>3. t.seq <= p.fence.seq
    BY <1>1, <2>2 DEF Shut, NotAfter
  <2>4. d.view.seq = p.view.seq
    <3>1. t.seq = d.view.seq
      BY <2>1 DEF Like
    <3> QED
      BY <1>3, <1>4, <1>5, <2>3, <3>1
  <2>5. d.view.rev = p.view.rev /\ d.view.phase = p.view.phase
    <3>1. PICK x, z : x = Moment(p.view) /\ z = Moment(d.view)
      OBVIOUS
    <3>2. /\ x.seq = p.view.seq /\ x.rev = p.view.rev /\ x.phase = p.view.phase
          /\ z.seq = d.view.seq /\ z.rev = d.view.rev /\ z.phase = d.view.phase
      BY <3>1 DEF Moment
    <3>3. Ordered(x, z) /\ Ordered(z, x)
      BY <1>2, <3>1 DEF MomentsStand
    <3> QED
      BY <1>4, <2>4, <3>2, <3>3 DEF Ordered
  <2>6. p.view.block = b
    <3>1. OpenAt(d.view.rev, b, t.closes)
      BY <2>1, <2>2 DEF Shows, Dated, Like
    <3>2. p.view \in Seen /\ p.view.phase = "question_open"
      BY <1>1, <1>9, <2>5 DEF Seen, Shows
    <3>3. OpenAt(p.view.rev, p.view.block, p.view.closes)
      BY <3>2 DEF TimesStand, SeenDated, Dated
    <3> QED
      BY <2>5, <3>1, <3>3 DEF OpenAt
  <2>7. ~p.view.accepting
    BY <1>1, <1>9, <2>5, <2>6 DEF Shut, Shows
  <2>8. ~d.view.accepting
    BY <1>2, <2>4, <2>7 DEF NotBack
  <2> QED
    BY <1>9, <2>8 DEF Shows
<1> QED
  BY <1>1, <1>6, <1>8, <1>9 DEF Shut, NotAfter

\* From p to d the submission is the same, and is emitted no more.
SameSub(p, d) ==
    /\ d.sub.key = p.sub.key /\ d.sub.block = p.sub.block /\ d.sub.expected = p.sub.expected
    /\ d.sub.replayed = p.sub.replayed

\* What is asked about once more stays closed.
LEMMA ConfirmStays ==
  ASSUME PresentationIInv, RoomIInv, TimesStand, ConfirmFact, PageStep, SeenGoes, LessIsRead,
         ShowsSeen, Confirming' => Confirming /\ SameSub(client, client')
  PROVE  ConfirmFact'
<1>1. PICK x, y : x = client.sub /\ y = client'.sub
  OBVIOUS
<1>2. TimelineGoes
  BY RecordStays DEF PageStep, PresentationIInv
<1>3. Over(x.expected, x.block) => Over(x.expected, x.block)'
  BY <1>2, OverStays
<1>4. Over(x.expected, x.block) /\ Shut(x.block) => Shut(x.block)'
  BY ShutStays
<1>5. Over(x.expected, x.block) /\ Conclusive(x.block) => Conclusive(x.block)'
  BY ConclusiveStays
<1>6. Confirming' => /\ x.replayed /\ Over(x.expected, x.block)'
                     /\ Shut(x.block)' \/ Conclusive(x.block)'
  BY <1>1, <1>3, <1>4, <1>5 DEF ConfirmFact
<1>7. Confirming' => y.replayed = x.replayed /\ y.expected = x.expected /\ y.block = x.block
  BY <1>1 DEF SameSub
<1> QED
  BY <1>1, <1>6, <1>7 DEF ConfirmFact

\* The page's timers and its link: the submission stays, and what it waits for.
LEMMA TimersWatched ==
  ASSUME PresentationIInv, RoomIInv, TimesStand, WatchStands, PageStep,
         UNCHANGED << emission, reading, mail >>,
         Like(client'.view, client.view), PageDated', SameSub(client, client'),
         OneAnswer', WaitersFact', WatchFact', Confirming' => Confirming
  PROVE  TimesStand' /\ WatchStands'
<1>1. ShowsSeen
  BY DEF ShowsSeen, Seen
<1>2. SeenGoes /\ LessIsRead
  BY <1>1, PageSees
<1>3. TimelineGoes
  BY RecordStays DEF PageStep, PresentationIInv
<1>4. TimesStand'
  BY <1>2, <1>3, TimesGo
<1>5. ConfirmFact'
  BY <1>1, <1>2, ConfirmStays DEF WatchStands
<1>6. QuestionFact'
  <2>1. \A rev, b, c : OpenAt(rev, b, c) => OpenAt(rev, b, c)'
    BY DEF OpenAt, PageStep
  <2>2. PICK x, y : x = client.sub /\ y = client'.sub
    OBVIOUS
  <2>3. x.key # None => \E c : OpenAt(x.expected, x.block, c)'
    BY <2>1, <2>2 DEF WatchStands, QuestionFact
  <2>4. y.key = x.key /\ y.expected = x.expected /\ y.block = x.block
    BY <2>2 DEF SameSub
  <2> QED
    BY <2>2, <2>3, <2>4 DEF QuestionFact
<1> QED
  BY <1>4, <1>5, <1>6 DEF WatchStands

\* A reconciliation is asked for, by those who wait for its result, or joined.
LEMMA ReconcileWatched ==
  ASSUME PresentationIInv, RoomIInv, TimesStand, WatchStands, NEW d, NEW waiters,
         Reconcile(d, waiters), UNCHANGED << emission, reading, mail >>,
         UNCHANGED << room, timeline, roster, responses, clock >>,
         d = [link |-> d.link, sub |-> d.sub, told |-> d.told, view |-> d.view, fence |-> d.fence],
         d.link \in {"down", "up", "ready"},
         d.view = client.view, d.fence = client.fence, d.told = client.told,
         d.sub = [key |-> client.sub.key, block |-> client.sub.block,
                  expected |-> client.sub.expected, replayed |-> client.sub.replayed,
                  timer |-> d.sub.timer],
         NEW timer, d.sub.timer = timer, timer \in {"none", client.sub.timer},
         \A w \in waiters : /\ w.key = client.sub.key /\ w.key # None
                            /\ w.timer \in {"ack", "confirm"}
                            /\ w.timer = "confirm" => client.sub.timer = "confirm",
         \/ timer = client.sub.timer
         \/ \E w \in waiters : w.timer = "ack" => (client.sub.replayed => w.replayed)
  PROVE  TimesStand' /\ WatchStands'
<1>1. PageStep
  BY ReconcileGoes
<1>2. PICK p, c, r : p = client /\ c = client' /\ r = reconc'
  OBVIOUS
<1>3. /\ c.sub = d.sub /\ c.view = d.view /\ c.fence = d.fence
      /\ c.link \in {"down", "up", "ready"}
  <2>1. c = d \/ c = [d EXCEPT !.link = "up"]
    BY <1>2 DEF Reconcile
  <2> QED
    BY <2>1
<1>4. /\ c.sub.key = p.sub.key /\ c.sub.block = p.sub.block /\ c.sub.expected = p.sub.expected
      /\ c.sub.replayed = p.sub.replayed /\ c.sub.timer = timer
  BY <1>2, <1>3
<1>5. /\ reconc.stage # "none" => r.stage = reconc.stage
      /\ reconc.stage = "none" => reconc.waiters = {}
      /\ r.stage \in {"sync", "rest"} /\ r.waiters = reconc.waiters \cup waiters
      /\ r = [stage |-> r.stage, waiters |-> r.waiters]
  <2>1. CASE reconc.stage # "none"
    <3>1. reconc' = [reconc EXCEPT !.waiters = @ \cup waiters] /\ reconc.stage \in {"sync", "rest"}
      BY <2>1 DEF Reconcile, WatchStands, OneAnswer
    <3>2. reconc = [stage |-> reconc.stage, waiters |-> reconc.waiters]
      BY DEF WatchStands, OneAnswer
    <3> QED
      BY <1>2, <2>1, <3>1, <3>2
  <2>2. CASE reconc.stage = "none"
    <3>1. reconc.waiters = {}
      BY <2>2 DEF WatchStands, WaitersFact
    <3>2. r = [stage |-> IF d.link = "down" THEN "rest" ELSE "sync", waiters |-> waiters]
      BY <1>2, <2>2 DEF Reconcile
    <3> QED
      BY <2>2, <3>1, <3>2
  <2> QED
    BY <2>1, <2>2
<1>6. Like(c.view, p.view) /\ FenceDated(c)'
  BY <1>2, <1>3 DEF Like, TimesStand, PageDated, FenceDated
<1>7. OneAnswer'
  BY <1>2, <1>5 DEF WatchStands, OneAnswer, IsAnswer
<1>8. WaitersFact'
  BY <1>2, <1>3, <1>4, <1>5 DEF WatchStands, WaitersFact
<1>9. WatchFact'
  BY <1>2, <1>4, <1>5 DEF WatchStands, WatchFact
<1>10. Confirming' => Confirming
  BY <1>2, <1>4, <1>5 DEF Confirming
<1>11. SameSub(p, c)
  BY <1>4 DEF SameSub
<1>12. PageDated'
  BY <1>2, <1>6 DEF PageDated, FenceDated
<1> QED
  BY <1>1, <1>2, <1>6, <1>7, <1>8, <1>9, <1>10, <1>11, <1>12, TimersWatched

\* Every such step of the page.
LEMMA TimerStepsWatched ==
  ASSUME PresentationIInv, RoomIInv, TimesStand, WatchStands,
         \/ DeadlineExpires \/ SyncFallsBack \/ Connect \/ Disconnect
         \/ FallbackPolls \/ AckTimesOut \/ ConfirmTimesOut
  PROVE  TimesStand' /\ WatchStands'
<1>1. PageStep
  BY PageSteps
<1>2. UNCHANGED << room, timeline, roster, responses, clock >>
  BY <1>1 DEF PageStep
<1>3. PICK p : p = client
  OBVIOUS
<1>4. /\ p = [link |-> p.link, sub |-> p.sub, told |-> p.told, view |-> p.view, fence |-> p.fence]
      /\ p.sub = [key |-> p.sub.key, block |-> p.sub.block, expected |-> p.sub.expected,
                  replayed |-> p.sub.replayed, timer |-> p.sub.timer]
  BY <1>3 DEF PresentationIInv, PageStands
<1>5. p.link \in {"down", "up", "ready"}
  BY <1>3 DEF WatchStands, WaitersFact
<1>6. CASE DeadlineExpires
  <2>1. PICK at : at = IF p.fence.at < p.view.closes + 1 THEN p.view.closes + 1 ELSE p.fence.at
    OBVIOUS
  <2>2. PICK d : d = client'
    OBVIOUS
  <2>3. /\ d = [p EXCEPT !.view.accepting = FALSE, !.fence.at = at]
        /\ p.view.closes # None /\ clock > p.view.closes
        /\ UNCHANGED << reconc, emission, reading, mail >>
    BY <1>3, <1>6, <2>1, <2>2 DEF DeadlineExpires
  <2>4. PICK x : x = [p EXCEPT !.view.accepting = FALSE]
    OBVIOUS
  <2>5. /\ x.link = p.link /\ x.sub = p.sub /\ x.fence = p.fence
        /\ x.view = [p.view EXCEPT !.accepting = FALSE]
        /\ x = [link |-> x.link, sub |-> x.sub, told |-> x.told, view |-> x.view,
                fence |-> x.fence]
    BY <1>4, <2>4
  <2>6. d = [x EXCEPT !.fence.at = at]
    BY <2>3, <2>4
  <2>7. /\ d.link = p.link /\ d.sub = p.sub /\ d.view = [p.view EXCEPT !.accepting = FALSE]
        /\ d.fence = [p.fence EXCEPT !.at = at]
    BY <2>5, <2>6
  <2>8. /\ p.view = [seq |-> p.view.seq, rev |-> p.view.rev, joined |-> p.view.joined,
                     answers |-> p.view.answers, phase |-> p.view.phase, block |-> p.view.block,
                     mine |-> p.view.mine, closes |-> p.view.closes, at |-> p.view.at,
                     accepting |-> p.view.accepting]
        /\ p.fence = [seq |-> p.view.seq, rev |-> p.view.rev, at |-> p.fence.at]
    BY <1>3 DEF PresentationIInv, PageStands
  <2>9. d.fence.at = at /\ d.view.accepting = FALSE /\ Like(d.view, p.view)
    <3>1. PICK v : v = d.view
      OBVIOUS
    <3>2. v = [p.view EXCEPT !.accepting = FALSE]
      BY <2>7, <3>1
    <3>3. v.accepting = FALSE /\ Like(v, p.view)
      BY <2>8, <3>2 DEF Like
    <3> QED
      BY <2>7, <2>8, <3>1, <3>3
  <2>10. at \in 0..clock
    <3>1. p.view.closes \in Nat \cup {None} /\ clock \in Nat
      BY <1>3, PresentPage DEF PresentationIInv, RoomStands
    <3>2. p.fence.at \in 0..clock
      BY <1>3 DEF TimesStand, PageDated, FenceDated
    <3> QED
      BY <2>1, <2>3, <3>1, <3>2
  <2>11. PageDated'
    BY <1>2, <2>2, <2>9, <2>10 DEF PageDated, FenceDated
  <2>12. OneAnswer' /\ WaitersFact' /\ WatchFact' /\ (Confirming' => Confirming)
    BY <1>3, <2>2, <2>3, <2>7 DEF WatchStands, OneAnswer, WaitersFact, WatchFact, Confirming
  <2>13. SameSub(p, d)
    BY <2>7 DEF SameSub
  <2> QED
    BY <1>1, <1>3, <2>2, <2>3, <2>9, <2>11, <2>12, <2>13, TimersWatched
<1>7. \A s : Like(s, s)
  BY DEF Like
<1>8. CASE Disconnect
  <2>1. PICK d : d = client'
    OBVIOUS
  <2>2. d = [p EXCEPT !.link = "down"] /\ UNCHANGED << reconc, emission, reading, mail >>
    BY <1>3, <1>8, <2>1 DEF Disconnect
  <2>3. d.view = p.view /\ d.fence = p.fence /\ d.sub = p.sub /\ d.link = "down"
    BY <1>4, <2>2
  <2>4. OneAnswer' /\ WaitersFact' /\ WatchFact' /\ (Confirming' => Confirming)
    BY <1>3, <2>1, <2>2, <2>3 DEF WatchStands, OneAnswer, WaitersFact, WatchFact, Confirming
  <2>5. PageDated' /\ SameSub(p, d)
    BY <1>2, <1>3, <2>1, <2>3 DEF TimesStand, PageDated, FenceDated, SameSub
  <2> QED
    BY <1>1, <1>3, <1>7, <2>1, <2>2, <2>3, <2>4, <2>5, TimersWatched
<1>9. CASE Connect
  <2>1. PICK d : d = [p EXCEPT !.link = "up"]
    OBVIOUS
  <2>2. Reconcile(d, {}) /\ UNCHANGED << emission, reading, mail >>
    BY <1>3, <1>9, <2>1 DEF Connect
  <2>3. /\ d = [link |-> d.link, sub |-> d.sub, told |-> d.told, view |-> d.view,
                fence |-> d.fence]
        /\ d.view = p.view /\ d.fence = p.fence /\ d.told = p.told /\ d.sub = p.sub
        /\ d.link = "up"
    BY <1>4, <2>1
  <2> QED
    BY <1>2, <1>3, <1>4, <2>2, <2>3, ReconcileWatched
<1>10. CASE FallbackPolls
  <2>1. Reconcile(p, {}) /\ UNCHANGED << emission, reading, mail >>
    BY <1>3, <1>10 DEF FallbackPolls
  <2> QED
    BY <1>2, <1>3, <1>4, <1>5, <2>1, ReconcileWatched
<1>11. CASE AckTimesOut \/ ConfirmTimesOut
  <2>1. PICK d : d = [p EXCEPT !.sub.timer = "none"]
    OBVIOUS
  <2>2. PICK w : /\ w.key = p.sub.key /\ w.timer = p.sub.timer /\ w.timer \in {"ack", "confirm"}
                 /\ w.timer = "ack" => w.replayed = p.sub.replayed
                 /\ Reconcile(d, {w})
    <3>1. CASE AckTimesOut
      BY <1>3, <2>1, <3>1 DEF AckTimesOut
    <3>2. CASE ConfirmTimesOut
      BY <1>3, <2>1, <3>2 DEF ConfirmTimesOut
    <3> QED
      BY <1>11, <3>1, <3>2
  <2>3. UNCHANGED << emission, reading, mail >>
    BY <1>11 DEF AckTimesOut, ConfirmTimesOut
  <2>4. p.sub.key # None
    BY <1>3, <2>2 DEF WatchStands, WaitersFact
  <2>5. /\ d = [link |-> d.link, sub |-> d.sub, told |-> d.told, view |-> d.view,
                fence |-> d.fence]
        /\ d.view = p.view /\ d.fence = p.fence /\ d.told = p.told /\ d.link = p.link
        /\ d.sub = [p.sub EXCEPT !.timer = "none"]
    BY <1>4, <2>1
  <2>6. d.sub = [key |-> p.sub.key, block |-> p.sub.block, expected |-> p.sub.expected,
                 replayed |-> p.sub.replayed, timer |-> d.sub.timer] /\ d.sub.timer = "none"
    BY <1>4, <2>5
  <2>7. PICK timer : timer = "none"
    OBVIOUS
  <2> QED
    BY <1>2, <1>3, <1>5, <2>2, <2>3, <2>4, <2>5, <2>6, <2>7, ReconcileWatched
<1>12. CASE SyncFallsBack
  <2>1. /\ reconc.stage = "sync" /\ reconc' = [reconc EXCEPT !.stage = "rest"]
        /\ mail' = {m \in mail : m.for # "sync"}
        /\ reading' = IF reading.for = "sync" THEN NoReading ELSE reading
        /\ UNCHANGED << client, emission >>
    BY <1>12 DEF SyncFallsBack, WithoutAnswersFor
  <2>2. /\ reconc'.stage = "rest" /\ reconc'.waiters = reconc.waiters
        /\ reconc' = [stage |-> reconc'.stage, waiters |-> reconc'.waiters]
    BY <2>1 DEF WatchStands, OneAnswer
  <2>3. OneAnswer'
    BY <2>1, <2>2 DEF WatchStands, OneAnswer, IsAnswer, NoReading
  <2>4. WaitersFact' /\ WatchFact' /\ (Confirming' => Confirming) /\ QuestionFact'
    BY <1>2, <2>1, <2>2 DEF WatchStands, WaitersFact, WatchFact, Confirming, QuestionFact, OpenAt
  <2>5. ShowsSeen
    BY <1>7, <2>1 DEF ShowsSeen, Seen
  <2>6. SeenGoes /\ LessIsRead
    BY <2>1, <2>5, PageSees
  <2>7. TimelineGoes
    BY <1>2, RecordStays DEF PresentationIInv
  <2>8. PageDated' /\ SameSub(client, client')
    BY <1>2, <2>1 DEF TimesStand, PageDated, FenceDated, SameSub
  <2>9. TimesStand'
    BY <2>6, <2>7, <2>8, TimesGo
  <2>10. ConfirmFact'
    BY <1>1, <2>4, <2>5, <2>6, <2>8, ConfirmStays DEF WatchStands
  <2> QED
    BY <2>3, <2>4, <2>9, <2>10 DEF WatchStands
<1> QED
  BY <1>6, <1>8, <1>9, <1>10, <1>11, <1>12

-------------------------------------------------------------------------------
(* Snapshots arrive.                                                          *)

\* What is shown of a snapshot: nothing, or all of it.
LEMMA ShownFields ==
  ASSUME NEW c, PageStands(c), NEW s, NEW d, d = Shown(c, s)
  PROVE  /\ d.sub = c.sub /\ d.link = c.link
         /\ \/ d = c /\ ~Applies(c.fence, s)
            \/ d.view = s /\ d.fence.seq = s.seq /\ d.fence.at = s.at
<1>1. CASE ~Applies(c.fence, s)
  BY <1>1 DEF Shown
<1>2. CASE Applies(c.fence, s)
  <2>1. c = [link |-> c.link, sub |-> c.sub, told |-> c.told, view |-> c.view, fence |-> c.fence]
    BY DEF PageStands
  <2>2. d = [c EXCEPT !.view = s, !.fence = Fence(s)]
    BY <1>2 DEF Shown
  <2>3. d.sub = c.sub /\ d.link = c.link /\ d.view = s /\ d.fence = Fence(s)
    BY <2>1, <2>2
  <2> QED
    BY <2>3 DEF Fence
<1> QED
  BY <1>1, <1>2

\* So the page's fence stays dated.
LEMMA ShownDated ==
  ASSUME PresentationIInv, TimesStand, NEW s \in Seen, NEW c, c = Shown(client, s)
  PROVE  c.view \in Seen /\ FenceDated(c)
<1>1. PICK p : p = client
  OBVIOUS
<1>2. PageStands(p) /\ p.view \in Seen /\ FenceDated(p) /\ Dated(s)
  BY <1>1 DEF PresentationIInv, TimesStand, PageDated, SeenDated, Seen
<1>3. \/ c = p
      \/ c.view = s /\ c.fence.at = s.at
  BY <1>1, <1>2, ShownFields
<1>4. CASE c = p
  BY <1>2, <1>4
<1>5. CASE c.view = s /\ c.fence.at = s.at
  BY <1>2, <1>5 DEF Dated, FenceDated
<1> QED
  BY <1>3, <1>4, <1>5

\* A submission that waits on, that is emitted again, or that is asked about once more.
WaitsOn(c, sub) == sub = c.sub /\ Shows(c.sub.block, c.view) /\ (c.sub.replayed \/ c.link = "down")
SentOnceMore(c, sub) ==
    /\ sub.key = c.sub.key /\ sub.block = c.sub.block /\ sub.expected = c.sub.expected
    /\ ~c.sub.replayed /\ sub.replayed
Resent(c, sub) == SentOnceMore(c, sub) /\ sub.timer = "ack"
AsksAgain(c, sub) ==
    /\ SentOnceMore(c, sub) /\ sub.timer = "confirm"
    /\ c.view.block = c.sub.block /\ c.view.phase = "question_open" /\ ~c.view.accepting

\* What becomes of a submission that is reconciled.
LEMMA ReconciledSubmission ==
  ASSUME NEW c, PageStands(c), c.sub.key # None, NEW d, d = Reconciled(c)
  PROVE  /\ d.view = c.view /\ d.fence = c.fence /\ d.link = c.link
         /\ \/ d.sub = NoSubmission \/ WaitsOn(c, d.sub) \/ Resent(c, d.sub)
            \/ AsksAgain(c, d.sub)
<1>1. c = [link |-> c.link, sub |-> c.sub, told |-> c.told, view |-> c.view, fence |-> c.fence]
      /\ c.sub = [key |-> c.sub.key, block |-> c.sub.block, expected |-> c.sub.expected,
                  replayed |-> c.sub.replayed, timer |-> c.sub.timer]
  BY DEF PageStands
<1>2. ASSUME NEW told, d = Ended(c, told)
      PROVE  d.sub = NoSubmission /\ d.view = c.view /\ d.fence = c.fence /\ d.link = c.link
  <2>1. d = [c EXCEPT !.sub = NoSubmission, !.told[c.sub.key] = told]
    BY <1>2 DEF Ended
  <2> QED
    BY <1>1, <2>1
<1>3. ASSUME NEW timer, d = Replayed(c, timer)
      PROVE  /\ d.view = c.view /\ d.fence = c.fence /\ d.link = c.link
             /\ d.sub.key = c.sub.key /\ d.sub.block = c.sub.block
             /\ d.sub.expected = c.sub.expected /\ d.sub.replayed /\ d.sub.timer = timer
  <2>1. d = [c EXCEPT !.sub.replayed = TRUE, !.sub.timer = timer]
    BY <1>3 DEF Replayed
  <2>2. /\ d.view = c.view /\ d.fence = c.fence /\ d.link = c.link
        /\ d.sub = [c.sub EXCEPT !.replayed = TRUE, !.timer = timer]
    BY <1>1, <2>1
  <2> QED
    BY <1>1, <2>2
<1>4. \/ \E told : d = Ended(c, told)
      \/ d = c /\ c.view.block = c.sub.block /\ c.view.phase = "question_open"
            /\ c.view.accepting /\ (c.sub.replayed \/ c.link = "down")
      \/ d = Replayed(c, "ack") /\ ~c.sub.replayed
      \/ d = Replayed(c, "confirm") /\ ~c.sub.replayed /\ c.view.block = c.sub.block
            /\ c.view.phase = "question_open" /\ ~c.view.accepting
  BY DEF Reconciled
<1>5. CASE \E told : d = Ended(c, told)
  BY <1>2, <1>5
<1>6. CASE d = c /\ c.view.block = c.sub.block /\ c.view.phase = "question_open"
            /\ c.view.accepting /\ (c.sub.replayed \/ c.link = "down")
  BY <1>6 DEF WaitsOn, Shows
<1>7. CASE d = Replayed(c, "ack") /\ ~c.sub.replayed
  BY <1>3, <1>7 DEF Resent, SentOnceMore
<1>8. CASE d = Replayed(c, "confirm") /\ ~c.sub.replayed /\ c.view.block = c.sub.block
            /\ c.view.phase = "question_open" /\ ~c.view.accepting
  BY <1>3, <1>8 DEF AsksAgain, SentOnceMore
<1> QED
  BY <1>4, <1>5, <1>6, <1>7, <1>8

\* A question that is shown as closed after its deadline is over, the submission's too.
LEMMA QuestionOver ==
  ASSUME RoomIInv, RoomStands, QuestionFact, client.sub.key # None, NEW v, Dated(v),
         v.block = client.sub.block, v.phase = "question_open",
         v.closes \in Nat, clock > v.closes
  PROVE  Over(client.sub.expected, client.sub.block)
<1>1. PICK x, y : x = client.sub.expected /\ y = client.sub.block
  OBVIOUS
<1>2. PICK c : OpenAt(x, y, c)
  BY <1>1 DEF QuestionFact
<1>3. OpenAt(v.rev, y, v.closes)
  BY <1>1 DEF Dated
<1>4. c = v.closes
  BY <1>2, <1>3, OpenedOnce
<1> QED
  BY <1>1, <1>2, <1>4 DEF Over

\* A broadcast that shows a question as closed shuts it.
LEMMA BroadcastShuts ==
  ASSUME PresentationIInv, RoomIInv, TimesStand, NEW m \in Letters, m.for = "broadcast",
         m.snap.phase = "question_open", ~m.snap.accepting
  PROVE  /\ NotAfter(m.snap.block, m.snap.seq)
         /\ m.snap.closes \in Nat /\ clock > m.snap.closes
<1>1. PICK s : s = m.snap
  OBVIOUS
<1>2. SnapStands(s) /\ s \in Seen /\ Dated(s) /\ Latest(s)
  BY <1>1, ReadableMail DEF Letters, Seen, TimesStand, SeenDated, BroadcastsLatest
<1>3. s.closes \in Nat /\ s.at > s.closes
  <2>1. /\ s.closes \in Nat \cup {None} /\ s.at \in Nat
        /\ ~(s.closes = None \/ s.at <= s.closes)
    BY <1>1, <1>2 DEF SnapStands
  <2> QED
    BY <2>1
<1>4. clock > s.closes
  BY <1>2, <1>3 DEF Dated, PresentationIInv, RoomStands
<1>5. ASSUME NEW t \in Seen, Shows(s.block, t) PROVE t.seq <= s.seq
  <2>1. Dated(t) /\ t.seq \in Nat /\ s.seq \in Nat
    BY <1>2, SeenSnapshots DEF TimesStand, SeenDated
  <2>2. OpenAt(t.rev, s.block, t.closes)
    BY <1>5, <2>1 DEF Dated, Shows
  <2>3. OpenAt(s.rev, s.block, s.closes)
    BY <1>1, <1>2 DEF Dated
  <2>4. t.closes = s.closes
    BY <2>2, <2>3, OpenedOnce DEF PresentationIInv
  <2>5. s.closes # None
    BY <1>3, RoomAssumption
  <2>6. t.at <= s.closes /\ t.at \in 0..clock
    BY <1>5, <2>1, <2>4, <2>5 DEF Dated, Shows
  <2>7. ~(t.at >= s.at)
    BY <1>2, <1>3, <2>6 DEF Dated
  <2>8. ~(t.seq > s.seq)
    BY <1>2, <2>7 DEF Latest
  <2> QED
    BY <2>1, <2>8
<1> QED
  BY <1>1, <1>3, <1>4, <1>5 DEF NotAfter

\* What becomes of the page's submission: the question it is for stays the same.
LEMMA QuestionGoes ==
  ASSUME TimelineGoes, QuestionFact,
         \/ client'.sub = NoSubmission
         \/ /\ client'.sub.key = client.sub.key /\ client'.sub.block = client.sub.block
            /\ client'.sub.expected = client.sub.expected
  PROVE  QuestionFact'
<1>1. PICK x, y : x = client.sub /\ y = client'.sub
  OBVIOUS
<1>2. x.key # None => \E c : OpenAt(x.expected, x.block, c)
  BY <1>1 DEF QuestionFact
<1>3. x.key # None => \E c : OpenAt(x.expected, x.block, c)'
  BY <1>2, OpenStays
<1>4. y.key = None \/ (y.key = x.key /\ y.block = x.block /\ y.expected = x.expected)
  BY <1>1 DEF NoSubmission
<1> QED
  BY <1>1, <1>3, <1>4 DEF QuestionFact

\* A broadcast arrives. One that makes the page ask about its submission once more has
\* shut the question.
LEMMA EnvelopeWatched ==
  ASSUME PresentationIInv, RoomIInv, TimesStand, WatchStands, NEW m \in mail, OnEnvelope(m)
  PROVE  TimesStand' /\ WatchStands'
<1> USE DEF PresentationIInv
<1>1. PageStep
  BY LettersApply
<1>2. /\ UNCHANGED << room, timeline, clock >> /\ mail' \subseteq mail /\ reading' = reading
      /\ m \in Letters /\ m.for = "broadcast"
  BY DEF OnEnvelope, roomVars, Letters, Readable
<1>3. PICK p, d, s, b : p = client /\ d = client' /\ s = m.snap /\ b = client.sub.block
  OBVIOUS
<1>4. PICK c : c = Shown(p, s)
  OBVIOUS
<1>5. /\ d = IF c = p THEN c ELSE Reconciled(c)
      /\ reconc' = [reconc EXCEPT !.waiters = IF d.sub.key = p.sub.key THEN reconc.waiters ELSE {}]
  BY <1>3, <1>4 DEF OnEnvelope, PageGoes, StillWaiting
<1>6. s \in Seen /\ SnapStands(s) /\ Dated(s) /\ Moment(s) \in Known
  BY <1>2, <1>3, ReadableMail DEF Seen, Letters, TimesStand, SeenDated
<1>7. PageStands(p) /\ PageStands(c) /\ c.sub = p.sub /\ c.link = p.link
  <2>1. PageStands(p) /\ PageStands(c)
    BY <1>3, <1>4, <1>6, SnapshotShown
  <2> QED
    BY <1>4, <2>1, ShownFields
<1>8. c.view \in Seen /\ FenceDated(c)
  BY <1>3, <1>4, <1>6, ShownDated
<1>9. /\ d.view = c.view /\ d.fence = c.fence /\ d.link = c.link
      /\ \/ d.sub = p.sub
         \/ p.sub.key # None /\ d.sub = NoSubmission
         \/ p.sub.key # None /\ Resent(c, d.sub)
         \/ p.sub.key # None /\ AsksAgain(c, d.sub) /\ c # p
  <2>1. CASE d = c
    BY <1>7, <2>1
  <2>2. CASE d # c
    <3>1. d = Reconciled(c) /\ c.sub.key # None /\ c # p
      BY <1>5, <2>2, NothingToReconcile
    <3> QED
      BY <1>7, <3>1, ReconciledSubmission DEF WaitsOn
  <2> QED
    BY <2>1, <2>2
<1>10. ShowsSeen
  BY <1>3, <1>8, <1>9 DEF ShowsSeen, Like
<1>11. SeenGoes /\ LessIsRead
  BY <1>1, <1>2, <1>10, RepliesStay, PageSees
<1>12. TimelineGoes
  BY <1>2, RecordStays
<1>13. PageDated'
  BY <1>2, <1>3, <1>8, <1>9 DEF PageDated, FenceDated
<1>14. TimesStand'
  BY <1>11, <1>12, <1>13, TimesGo
<1>15. PICK r : r = reconc'
  OBVIOUS
<1>16. /\ r = [stage |-> r.stage, waiters |-> r.waiters] /\ r.stage = reconc.stage
       /\ r.waiters = IF d.sub.key = p.sub.key THEN reconc.waiters ELSE {}
  BY <1>5, <1>15 DEF WatchStands, OneAnswer
<1>17. OneAnswer'
  BY <1>2, <1>15, <1>16 DEF WatchStands, OneAnswer
<1>18. /\ p.link \in {"down", "up", "ready"} /\ p.sub.timer \in {"none", "ack", "confirm"}
       /\ p.sub.timer # "none" => p.sub.key # None
       /\ reconc.stage = "none" => reconc.waiters = {}
       /\ \A w \in reconc.waiters :
             w.key = p.sub.key /\ w.key # None /\ w.timer \in {"ack", "confirm"}
  BY <1>3 DEF WatchStands, WaitersFact
<1>19. d.sub.timer \in {"none", "ack", "confirm"} /\ (d.sub.timer # "none" => d.sub.key # None)
       /\ d.link = p.link
  BY <1>7, <1>9, <1>18 DEF NoSubmission, Resent, AsksAgain, SentOnceMore
<1>20. WaitersFact'
  BY <1>3, <1>15, <1>16, <1>18, <1>19 DEF WaitersFact
<1>21. WatchFact'
  <2>1. d.sub.key # None /\ d.sub.timer = "none" => d.sub = p.sub
    BY <1>9 DEF NoSubmission, Resent, AsksAgain
  <2> QED
    BY <1>3, <1>15, <1>16, <2>1 DEF WatchStands, WatchFact
<1>22. QuestionFact'
  <2>1. d.sub = NoSubmission \/ (d.sub.key = p.sub.key /\ d.sub.block = p.sub.block
                                 /\ d.sub.expected = p.sub.expected)
    BY <1>7, <1>9 DEF Resent, AsksAgain, SentOnceMore
  <2> QED
    BY <1>3, <1>12, <2>1, QuestionGoes DEF WatchStands
<1>23. Confirming' <=> d.sub.timer = "confirm" \/ \E w \in r.waiters : w.timer = "confirm"
  BY <1>3, <1>15 DEF Confirming
<1>24. (\E w \in reconc.waiters : w.timer = "confirm") => p.sub.replayed
  BY <1>3 DEF WatchStands, ConfirmFact, Confirming
<1>25. CASE ~(p.sub.key # None /\ AsksAgain(c, d.sub) /\ c # p)
  <2>1. Confirming' => d.sub = p.sub
    <3>1. CASE p.sub.key # None /\ d.sub = NoSubmission
      BY <1>16, <1>23, <3>1 DEF NoSubmission
    <3>2. CASE Resent(c, d.sub)
      BY <1>7, <1>16, <1>23, <1>24, <3>2 DEF Resent, SentOnceMore
    <3> QED
      BY <1>9, <1>25, <3>1, <3>2
  <2>2. Confirming' => Confirming /\ SameSub(p, d)
    BY <1>3, <1>16, <1>23, <2>1 DEF Confirming, SameSub
  <2>3. ConfirmFact'
    BY <1>1, <1>3, <1>10, <1>11, <2>2, ConfirmStays DEF WatchStands
  <2> QED
    BY <1>14, <1>17, <1>20, <1>21, <1>22, <2>3 DEF WatchStands
<1>26. CASE p.sub.key # None /\ AsksAgain(c, d.sub) /\ c # p
  <2>1. c.view = s /\ c.fence.seq = s.seq
    BY <1>4, <1>7, <1>26, ShownFields
  <2>2. /\ s.block = b /\ s.phase = "question_open" /\ ~s.accepting
        /\ d.sub.expected = p.sub.expected /\ d.sub.block = b /\ d.sub.replayed
    BY <1>3, <1>7, <1>26, <2>1 DEF AsksAgain, SentOnceMore
  <2>3. NotAfter(b, s.seq) /\ s.closes \in Nat /\ clock > s.closes
    BY <1>2, <1>3, <2>2, BroadcastShuts
  <2>4. PICK e : e = p.sub.expected
    OBVIOUS
  <2>5. Over(e, b)
    BY <1>3, <1>6, <1>26, <2>2, <2>3, <2>4, QuestionOver DEF WatchStands
  <2>6. Over(e, b)'
    BY <1>12, <2>5, OverStays
  <2>7. PICK x : x = s.seq
    OBVIOUS
  <2>8. NotAfter(b, x)'
    BY <1>11, <2>3, <2>5, <2>7, NotAfterStays
  <2>9. d.fence.seq = x /\ d.view = s
    BY <1>9, <2>1, <2>7
  <2>10. Shut(b)'
    BY <1>3, <2>2, <2>8, <2>9 DEF Shut, Shows, NotAfter
  <2>11. ConfirmFact'
    BY <1>3, <2>2, <2>4, <2>6, <2>10 DEF ConfirmFact
  <2> QED
    BY <1>14, <1>17, <1>20, <1>21, <1>22, <2>11 DEF WatchStands
<1> QED
  BY <1>25, <1>26

\* One that is lost changes nothing for the page.
LEMMA LossWatched ==
  ASSUME PresentationIInv, RoomIInv, TimesStand, WatchStands, NEW m \in mail, MailLost(m)
  PROVE  TimesStand' /\ WatchStands'
<1>1. PageStep
  BY LettersApply
<1>2. UNCHANGED << client, reconc, emission, reading, room, timeline, clock >>
      /\ mail' \subseteq mail
  BY DEF MailLost, roomVars
<1>3. ShowsSeen
  BY <1>2 DEF ShowsSeen, Seen, Like
<1>4. SeenGoes /\ LessIsRead
  BY <1>2, <1>3, PageSees
<1>5. TimelineGoes
  BY <1>2, RecordStays DEF PresentationIInv
<1>6. PageDated'
  BY <1>2 DEF TimesStand, PageDated, FenceDated
<1>7. TimesStand'
  BY <1>4, <1>5, <1>6, TimesGo
<1>8. OneAnswer' /\ WaitersFact' /\ WatchFact' /\ QuestionFact'
  BY <1>2 DEF WatchStands, OneAnswer, WaitersFact, WatchFact, QuestionFact, OpenAt
<1>9. Confirming' => Confirming /\ SameSub(client, client')
  BY <1>2 DEF Confirming, SameSub
<1>10. ConfirmFact'
  BY <1>1, <1>3, <1>4, <1>9, ConfirmStays DEF WatchStands
<1> QED
  BY <1>7, <1>8, <1>10 DEF WatchStands

-------------------------------------------------------------------------------
(* The reconciliation ends.                                                   *)

\* After its answer is applied, the page does not show a question that the answer has
\* concluded: what it kept instead would have been shown before the answer's time.
LEMMA AnswerConcludes ==
  ASSUME PresentationIInv, RoomIInv, TimesStand, NEW b, Conclusive(b),
         NEW m \in Letters, IsAnswer(m.for), NEW c, c = Shown(client, m.snap)
  PROVE  ~Shows(b, c.view)
<1> USE DEF PresentationIInv
<1>1. PICK p, s : p = client /\ s = m.snap
  OBVIOUS
<1>2. /\ ~Shows(b, s) /\ NotAfter(b, s.seq) /\ SnapStands(s) /\ Dated(s) /\ s \in Seen
      /\ Moment(s) \in Known
  BY <1>1, ReadableMail DEF Conclusive, Letters, Seen, TimesStand, SeenDated
<1>3. /\ PageStands(p) /\ Dated(p.view) /\ FenceDated(p) /\ Moment(p.view) \in Known
      /\ p.view \in Seen
  BY <1>1, PresentPage DEF TimesStand, SeenDated, PageDated, Seen
<1>4. (c = p /\ ~Applies(p.fence, s)) \/ c.view = s
  BY <1>1, <1>3, ShownFields
<1>5. ASSUME Shows(b, p.view), ~Applies(p.fence, s) PROVE FALSE
  <2>1. /\ p.fence.seq = p.view.seq /\ p.fence.rev = p.view.rev /\ p.view.accepting
        /\ p.fence.at = p.view.at
    BY <1>3, <1>5 DEF PageStands, FenceDated, Shows
  <2>2. /\ p.view.seq \in Nat /\ s.seq \in Nat /\ p.view.rev \in Nat /\ s.rev \in Nat
        /\ p.view.seq <= s.seq /\ p.view.at \in Nat /\ s.at \in Nat
        /\ s.closes \in Nat \cup {None}
    BY <1>2, <1>3, <1>5, SeenSnapshots DEF NotAfter, Dated, SnapStands
  <2>3. s.seq = p.view.seq
    BY <1>5, <2>1, <2>2 DEF Applies
  <2>4. s.rev = p.view.rev /\ s.phase = p.view.phase /\ s.closes = p.view.closes
    <3>1. PICK x, z : x = Moment(p.view) /\ z = Moment(s)
      OBVIOUS
    <3>2. /\ x.seq = p.view.seq /\ x.rev = p.view.rev /\ x.phase = p.view.phase
          /\ x.closes = p.view.closes
          /\ z.seq = s.seq /\ z.rev = s.rev /\ z.phase = s.phase /\ z.closes = s.closes
      BY <3>1 DEF Moment
    <3>3. Ordered(x, z) /\ Ordered(z, x)
      BY <1>2, <1>3, <3>1 DEF MomentsStand
    <3> QED
      BY <2>2, <2>3, <3>2, <3>3 DEF Ordered
  <2>5. s.phase = "question_open" /\ s.block = b
    BY <1>2, <1>3, <1>5, <2>4 DEF Shows, Dated, OpenAt
  <2>6. ~s.accepting
    BY <1>2, <2>5 DEF Shows
  <2>7. s.closes # None /\ ~(s.at <= s.closes)
    BY <1>2, <2>5, <2>6 DEF SnapStands
  <2>8. p.view.at <= s.closes
    BY <1>3, <2>1, <2>4, <2>7 DEF Dated
  <2>9. ~(s.at > p.view.at)
    BY <1>5, <2>1, <2>3, <2>4 DEF Applies
  <2> QED
    BY <2>2, <2>7, <2>8, <2>9
<1> QED
  BY <1>2, <1>4, <1>5

\* Whoever waited for the reconciliation's end and no longer has a timer gives up, so none
\* is left to wait for nothing.
LEMMA EndsWatched ==
  ASSUME PresentationIInv, RoomIInv, TimesStand, WatchStands, PageStep, NEW c,
         NEW done \in BOOLEAN, ReconciliationEnds(c, done), PageStands(c), c.sub = client.sub,
         c.link \in {"down", "up", "ready"}, c.view \in Seen, FenceDated(c),
         ~IsAnswer(reading'.for), \A m \in mail' : ~IsAnswer(m.for),
         done => \A b : Conclusive(b) => ~Shows(b, c.view)
  PROVE  TimesStand' /\ WatchStands'
<1> USE DEF PresentationIInv
<1>1. UNCHANGED << room, timeline, clock >> /\ mail' \subseteq mail
      /\ (reading' = reading \/ reading' = NoReading)
  BY DEF PageStep
<1>2. PICK p, d : p = client /\ d = client'
  OBVIOUS
<1>3. PICK g : g = IF done THEN Reconciled(c) ELSE c
  OBVIOUS
<1>4. /\ d = IF g.sub.key # None /\ GivesUp(g, done) THEN Ended(g, "failed") ELSE g
      /\ reconc' = NoReconciliation
  BY <1>2, <1>3 DEF ReconciliationEnds, PageGoes
<1>5. /\ PageStands(g) /\ g.view = c.view /\ g.fence = c.fence /\ g.link = c.link
      /\ \/ g.sub = p.sub /\ (done /\ p.sub.key # None => WaitsOn(c, p.sub))
         \/ p.sub.key # None /\ g.sub = NoSubmission
         \/ p.sub.key # None /\ Resent(c, g.sub)
         \/ p.sub.key # None /\ AsksAgain(c, g.sub)
  <2>1. CASE ~done
    BY <1>2, <1>3, <2>1
  <2>2. CASE done /\ c.sub.key = None
    BY <1>2, <1>3, <2>2, NothingToReconcile
  <2>3. CASE done /\ c.sub.key # None
    <3>1. g = Reconciled(c)
      BY <1>3, <2>3
    <3>2. PageStands(g)
      BY <3>1, ReconciledPage
    <3> QED
      BY <1>2, <2>3, <3>1, <3>2, ReconciledSubmission DEF WaitsOn
  <2> QED
    BY <2>1, <2>2, <2>3
<1>6. /\ d.view = c.view /\ d.fence = c.fence /\ d.link = c.link
      /\ d.sub = NoSubmission \/ d = g
  <2>1. CASE g.sub.key # None /\ GivesUp(g, done)
    <3>1. g = [link |-> g.link, sub |-> g.sub, told |-> g.told, view |-> g.view, fence |-> g.fence]
      BY <1>5 DEF PageStands
    <3>2. d = [g EXCEPT !.sub = NoSubmission, !.told[g.sub.key] = "failed"]
      BY <1>4, <2>1 DEF Ended
    <3> QED
      BY <1>5, <3>1, <3>2
  <2>2. CASE ~(g.sub.key # None /\ GivesUp(g, done))
    BY <1>4, <1>5, <2>2
  <2> QED
    BY <2>1, <2>2
<1>7. ShowsSeen
  BY <1>2, <1>6 DEF ShowsSeen, Like
<1>8. SeenGoes /\ LessIsRead
  BY <1>1, <1>7, RepliesStay, PageSees
<1>9. TimelineGoes
  BY <1>1, RecordStays
<1>10. PageDated'
  BY <1>1, <1>2, <1>6 DEF PageDated, FenceDated
<1>11. TimesStand'
  BY <1>8, <1>9, <1>10, TimesGo
<1>12. OneAnswer' /\ reconc'.waiters = {} /\ reconc'.stage = "none"
  BY <1>4 DEF OneAnswer, NoReconciliation
<1>13. p.sub.timer \in {"none", "ack", "confirm"} /\ (p.sub.timer # "none" => p.sub.key # None)
  BY <1>2 DEF WatchStands, WaitersFact
<1>14. d.sub.timer \in {"none", "ack", "confirm"} /\ (d.sub.timer # "none" => d.sub.key # None)
  BY <1>2, <1>5, <1>6, <1>13 DEF NoSubmission, Resent, AsksAgain, SentOnceMore
<1>15. WaitersFact'
  BY <1>2, <1>6, <1>12, <1>14 DEF WaitersFact
<1>16. QuestionFact'
  <2>1. d.sub = NoSubmission \/ (d.sub.key = p.sub.key /\ d.sub.block = p.sub.block
                                 /\ d.sub.expected = p.sub.expected)
    BY <1>2, <1>5, <1>6 DEF Resent, AsksAgain, SentOnceMore
  <2> QED
    BY <1>2, <1>9, <2>1, QuestionGoes DEF WatchStands
<1>17. ASSUME Confirming PROVE done => ~Shows(p.sub.block, c.view)
  <2>1. PICK b, e : b = p.sub.block /\ e = p.sub.expected
    OBVIOUS
  <2>2. Over(e, b) /\ (Shut(b) \/ Conclusive(b))
    BY <1>2, <1>17, <2>1 DEF WatchStands, ConfirmFact
  <2>3. CASE Shut(b)
    <3>1. Shut(b)'
      BY <1>7, <1>8, <2>2, <2>3, ShutStays
    <3> QED
      BY <1>2, <1>6, <2>1, <3>1 DEF Shut
  <2>4. CASE Conclusive(b)
    BY <2>1, <2>4
  <2> QED
    BY <2>2, <2>3, <2>4
<1>18. ~(d.sub.key # None /\ d.sub.timer = "none")
  <2>1. SUFFICES ASSUME d.sub.key # None, d.sub.timer = "none" PROVE FALSE
    OBVIOUS
  <2>2. d = g /\ g.sub = p.sub /\ (done => WaitsOn(c, p.sub))
    BY <1>5, <1>6, <2>1 DEF NoSubmission, Resent, AsksAgain
  <2>3. PICK w \in reconc.waiters : /\ w.key = p.sub.key /\ w.timer \in {"ack", "confirm"}
                                    /\ w.timer = "ack" => (p.sub.replayed => w.replayed)
    BY <1>2, <2>1, <2>2 DEF WatchStands, WatchFact, WaitersFact
  <2>4. ~GivesUp(g, done)
    <3>1. CASE GivesUp(g, done)
      <4>1. d = Ended(g, "failed")
        BY <1>4, <2>1, <2>2, <3>1
      <4>2. Truthful(g, "failed") /\ g.sub.key # None
        BY <2>1, <2>2 DEF Truthful
      <4>3. d.sub = NoSubmission
        BY <1>5, <4>1, <4>2, EndedPage
      <4> QED
        BY <2>1, <4>3 DEF NoSubmission
    <3> QED
      BY <3>1
  <2>5. done /\ (w.timer = "ack" => ~w.replayed /\ g.link # "down")
    BY <2>2, <2>3, <2>4 DEF GivesUp
  <2>6. Shows(p.sub.block, c.view) /\ (p.sub.replayed \/ c.link = "down")
    BY <1>2, <2>2, <2>5 DEF WaitsOn
  <2>7. CASE w.timer = "ack"
    BY <1>5, <2>3, <2>5, <2>6, <2>7
  <2>8. CASE w.timer = "confirm"
    <3>1. Confirming
      BY <2>8 DEF Confirming
    <3> QED
      BY <1>17, <2>5, <2>6, <3>1
  <2> QED
    BY <2>3, <2>7, <2>8
<1>19. WatchFact'
  BY <1>2, <1>18 DEF WatchFact
<1>20. \A b : Conclusive(b)'
  <2>1. ASSUME NEW m \in Letters' PROVE ~IsAnswer(m.for)
    BY <2>1 DEF Letters
  <2> QED
    BY <2>1 DEF Conclusive
<1>21. Confirming' <=> d.sub.timer = "confirm"
  BY <1>2, <1>12 DEF Confirming
<1>22. ASSUME d.sub.timer = "confirm" PROVE d.sub.replayed /\ Over(d.sub.expected, d.sub.block)'
  <2>1. d = g /\ (g.sub = p.sub \/ (p.sub.key # None /\ AsksAgain(c, g.sub)))
    BY <1>5, <1>6, <1>22 DEF NoSubmission, Resent
  <2>2. PICK x, b : x = d.sub.expected /\ b = d.sub.block
    OBVIOUS
  <2>3. CASE d.sub = p.sub
    <3>1. Confirming
      BY <1>2, <1>22, <2>3 DEF Confirming
    <3>2. p.sub.replayed /\ Over(x, b)
      BY <1>2, <2>2, <2>3, <3>1 DEF WatchStands, ConfirmFact
    <3>3. Over(x, b)'
      BY <1>9, <3>2, OverStays
    <3> QED
      BY <2>2, <2>3, <3>2, <3>3
  <2>4. CASE p.sub.key # None /\ AsksAgain(c, d.sub)
    <3>1. /\ d.sub.replayed /\ x = p.sub.expected /\ b = p.sub.block
          /\ c.view.block = b /\ c.view.phase = "question_open" /\ ~c.view.accepting
      BY <1>2, <2>2, <2>4 DEF AsksAgain, SentOnceMore
    <3>2. Dated(c.view) /\ c.view.closes \in Nat \cup {None}
      BY SeenSnapshots DEF TimesStand, SeenDated
    <3>3. c.view.closes # None /\ c.fence.at > c.view.closes /\ c.fence.at \in 0..clock
      BY <3>1 DEF PageStands, FenceDated
    <3>4. c.view.closes \in Nat /\ clock > c.view.closes
      BY <3>2, <3>3 DEF RoomStands
    <3>5. PICK v : v = c.view
      OBVIOUS
    <3>6. Over(x, b)
      BY <1>2, <2>4, <3>1, <3>2, <3>4, <3>5, QuestionOver DEF WatchStands
    <3>7. Over(x, b)'
      BY <1>9, <3>6, OverStays
    <3> QED
      BY <2>2, <3>1, <3>7
  <2> QED
    BY <2>1, <2>3, <2>4
<1>23. ConfirmFact'
  <2>1. PICK x, b : x = d.sub.expected /\ b = d.sub.block
    OBVIOUS
  <2>2. Confirming' => d.sub.replayed /\ Over(x, b)' /\ Conclusive(b)'
    BY <1>20, <1>21, <1>22, <2>1
  <2> QED
    BY <1>2, <2>1, <2>2 DEF ConfirmFact
<1> QED
  BY <1>11, <1>12, <1>15, <1>16, <1>19, <1>23 DEF WatchStands

\* An answer ends the reconciliation, or the last request for one fails.
LEMMA AnswersWatched ==
  ASSUME PresentationIInv, RoomIInv, TimesStand, WatchStands,
         (\E m \in mail : SyncAnswered(m) \/ RestAnswered(m)) \/ RestFails
  PROVE  TimesStand' /\ WatchStands'
<1> USE DEF PresentationIInv
<1>1. PICK p : p = client
  OBVIOUS
<1>2. /\ PageStands(p) /\ p.view \in Seen /\ FenceDated(p) /\ p.link \in {"down", "up", "ready"}
  BY <1>1 DEF Seen, TimesStand, PageDated, WatchStands, WaitersFact
<1>3. ASSUME NEW m \in mail, SyncAnswered(m) \/ RestAnswered(m)
      PROVE  TimesStand' /\ WatchStands'
  <2>1. PICK s : s = m.snap
    OBVIOUS
  <2>2. Readable(m) /\ m \in Letters /\ IsAnswer(m.for) /\ reading' = reading
    BY <1>3 DEF SyncAnswered, RestAnswered, Readable, Letters, IsAnswer
  <2>3. s \in Seen /\ SnapStands(s) /\ Moment(s) \in Known
    BY <2>1, <2>2, ReadableMail DEF Seen
  <2>4. PICK q : q = Shown(p, s)
    OBVIOUS
  <2>5. PageStands(q) /\ q.sub = p.sub /\ q.link = p.link /\ q.view \in Seen /\ FenceDated(q)
    <3>1. PageStands(q)
      BY <1>1, <2>3, <2>4, SnapshotShown
    <3> QED
      BY <1>1, <1>2, <2>3, <2>4, <3>1, ShownFields, ShownDated
  <2>6. \A b : Conclusive(b) => ~Shows(b, q.view)
    BY <1>1, <2>1, <2>2, <2>4, AnswerConcludes
  <2>7. ~IsAnswer(reading'.for) /\ \A n \in mail' : ~IsAnswer(n.for)
    <3>1. reconc.stage = m.for /\ reading.for # m.for
      BY <2>2 DEF WatchStands, OneAnswer
    <3>2. mail' = {n \in mail : n.for # m.for}
      BY <1>3 DEF SyncAnswered, RestAnswered, WithoutAnswersFor
    <3>3. ~IsAnswer(reading.for)
      BY <3>1 DEF WatchStands, OneAnswer
    <3>4. ASSUME NEW n \in mail' PROVE ~IsAnswer(n.for)
      BY <3>1, <3>2, <3>4 DEF WatchStands, OneAnswer
    <3> QED
      BY <2>2, <3>3, <3>4
  <2>8. PageStep
    BY <1>3, LettersApply
  <2>9. PICK done : done = TRUE
    OBVIOUS
  <2>10. CASE RestAnswered(m)
    <3>1. ReconciliationEnds(q, done)
      BY <1>1, <2>1, <2>4, <2>9, <2>10 DEF RestAnswered
    <3> QED
      BY <1>1, <1>2, <2>5, <2>6, <2>7, <2>8, <2>9, <3>1, EndsWatched
  <2>11. CASE SyncAnswered(m)
    <3>1. PICK c : c = [q EXCEPT !.link = "ready"]
      OBVIOUS
    <3>2. ReconciliationEnds(c, done)
      BY <1>1, <2>1, <2>4, <2>9, <2>11, <3>1 DEF SyncAnswered
    <3>3. PageStands(c)
      BY <1>1, <2>1, <2>3, <2>4, <3>1, SnapshotShown
    <3>4. c.view = q.view /\ c.fence = q.fence /\ c.sub = q.sub /\ c.link = "ready"
      <4>1. q = [link |-> q.link, sub |-> q.sub, told |-> q.told, view |-> q.view,
                 fence |-> q.fence]
        BY <2>5 DEF PageStands
      <4> QED
        BY <3>1, <4>1
    <3>5. FenceDated(c)
      BY <2>5, <3>4 DEF FenceDated
    <3> QED
      BY <1>1, <2>5, <2>6, <2>7, <2>8, <2>9, <3>2, <3>3, <3>4, <3>5, EndsWatched
  <2> QED
    BY <1>3, <2>10, <2>11
<1>4. CASE RestFails
  <2>1. PICK done : done = FALSE
    OBVIOUS
  <2>2. ReconciliationEnds(p, done) /\ reconc.stage = "rest"
    BY <1>1, <1>4, <2>1 DEF RestFails
  <2>3. /\ mail' = {n \in mail : n.for # "rest"}
        /\ reading' = IF reading.for = "rest" THEN NoReading ELSE reading
    BY <1>4 DEF RestFails, WithoutAnswersFor
  <2>4. ~IsAnswer(reading'.for)
    BY <2>2, <2>3 DEF WatchStands, OneAnswer, IsAnswer, NoReading
  <2>5. ASSUME NEW n \in mail' PROVE ~IsAnswer(n.for)
    BY <2>2, <2>3, <2>5 DEF WatchStands, OneAnswer
  <2>6. PageStep
    BY <1>4, PageSteps
  <2> QED
    BY <1>1, <1>2, <2>1, <2>2, <2>4, <2>5, <2>6, EndsWatched
<1> QED
  BY <1>3, <1>4

\* A submission for the question that is shown: nobody waits for another.
LEMMA SubmitWatched ==
  ASSUME PresentationIInv, RoomIInv, TimesStand, WatchStands, NEW k \in Keys, SubmitResponse(k)
  PROVE  TimesStand' /\ WatchStands'
<1> USE DEF PresentationIInv
<1>1. PICK p, d : p = client /\ d = client'
  OBVIOUS
<1>2. PICK sub : sub = [key |-> k, block |-> p.view.block, expected |-> p.view.rev,
                        replayed |-> FALSE, timer |-> "ack"]
  OBVIOUS
<1>3. /\ p.sub.key = None /\ p.view.accepting /\ d = [p EXCEPT !.sub = sub]
      /\ emission' = Sent(<< k, 1 >>, sub)
  BY <1>1, <1>2 DEF SubmitResponse
<1>4. /\ UNCHANGED << room, timeline, clock >> /\ UNCHANGED << reconc, reading, mail >>
  BY DEF SubmitResponse, roomVars
<1>5. p = [link |-> p.link, sub |-> p.sub, told |-> p.told, view |-> p.view, fence |-> p.fence]
  BY <1>1 DEF PageStands
<1>6. /\ d.sub = sub /\ d.link = p.link /\ d.view = p.view /\ d.fence = p.fence
  BY <1>3, <1>5
<1>7. ShowsSeen
  BY <1>1, <1>6 DEF ShowsSeen, Seen, Like
<1>8. \A e \in Emissions : emission'[e].stage = "replied" => emission'[e] = emission[e]
  <2>1. /\ emission'[<< k, 1 >>] =
              [stage |-> "sent", block |-> sub.block, expected |-> sub.expected, at |-> None,
               elapsed |-> None, snap |-> None]
        /\ \A e \in Emissions : e # << k, 1 >> => emission'[e] = emission[e]
    BY <1>3, SubmissionSent DEF EmissionsStand
  <2>2. emission'[<< k, 1 >>].stage = "sent"
    BY <2>1
  <2> QED
    BY <2>1, <2>2
<1>9. SeenGoes /\ LessIsRead
  BY <1>4, <1>7, <1>8, PageSees
<1>10. TimelineGoes
  BY <1>4, RecordStays
<1>11. PageDated'
  BY <1>1, <1>4, <1>6 DEF TimesStand, PageDated, FenceDated
<1>12. TimesStand'
  BY <1>9, <1>10, <1>11, TimesGo
<1>13. reconc.waiters = {}
  BY <1>1, <1>3 DEF WatchStands, WaitersFact
<1>14. sub.key = k /\ k # None /\ sub.timer = "ack" /\ sub.block = p.view.block
       /\ sub.expected = p.view.rev
  BY <1>2, AnswersAssumption
<1>15. OneAnswer' /\ WaitersFact' /\ WatchFact' /\ ~Confirming'
  BY <1>1, <1>4, <1>6, <1>13, <1>14
     DEF WatchStands, OneAnswer, WaitersFact, WatchFact, Confirming
<1>16. QuestionFact'
  <2>1. OpenAt(p.view.rev, p.view.block, p.view.closes)
    BY <1>1, <1>3 DEF TimesStand, SeenDated, Seen, Dated
  <2>2. OpenAt(sub.expected, sub.block, p.view.closes)'
    BY <1>10, <1>14, <2>1, OpenStays
  <2> QED
    BY <1>1, <1>6, <2>2 DEF QuestionFact
<1> QED
  BY <1>12, <1>15, <1>16 DEF WatchStands, ConfirmFact

\* An answer of the server ends the submission, whoever waited for its end.
LEMMA HearWatched ==
  ASSUME PresentationIInv, RoomIInv, TimesStand, WatchStands, NEW e \in Emissions, HearReply(e)
  PROVE  TimesStand' /\ WatchStands'
<1> USE DEF PresentationIInv
<1>1. PICK p, d, em : p = client /\ d = client' /\ em = emission[e]
  OBVIOUS
<1>2. PICK over : over = [NoEmission EXCEPT !.stage = "over"]
  OBVIOUS
<1>3. /\ emission' = [emission EXCEPT ![e] = over]
      /\ d = IF p.sub.key = None THEN p
             ELSE IF em.stage = "replied" /\ e[1] = p.sub.key
             THEN Shown(Ended(p, "saved"), em.snap) ELSE Ended(p, "failed")
      /\ reconc' = [reconc EXCEPT !.waiters = {}]
  BY <1>1, <1>2 DEF HearReply, Heard, EmissionAt
<1>4. UNCHANGED << room, timeline, clock >> /\ UNCHANGED << reading, mail >>
  BY DEF HearReply, roomVars
<1>5. PageStands(p) /\ p.view \in Seen /\ FenceDated(p) /\ p.link \in {"down", "up", "ready"}
      /\ p.sub.timer \in {"none", "ack", "confirm"} /\ (p.sub.timer # "none" => p.sub.key # None)
  BY <1>1 DEF Seen, TimesStand, PageDated, WatchStands, WaitersFact
<1>6. EmissionFact(e, em)
  BY <1>1 DEF EmissionsStand
<1>7. em.stage = "replied" => em.snap \in Seen /\ SavedKey(e[1]) /\ Dated(em.snap)
  BY <1>1, <1>6 DEF EmissionFact, Seen, Acks, EmissionAt, TimesStand, SeenDated
<1>8. ASSUME NEW told, NEW c, c = Ended(p, told), Truthful(p, told), p.sub.key # None
      PROVE  /\ PageStands(c) /\ c.sub = NoSubmission /\ c.link = p.link
             /\ c.view = p.view /\ c.fence = p.fence
  <2>1. PageStands(c) /\ c.sub = NoSubmission /\ c.link = p.link /\ c.view = p.view
    BY <1>5, <1>8, EndedPage
  <2>2. c = [p EXCEPT !.sub = NoSubmission, !.told[p.sub.key] = told]
    BY <1>8 DEF Ended
  <2>3. p = [link |-> p.link, sub |-> p.sub, told |-> p.told, view |-> p.view, fence |-> p.fence]
    BY <1>5 DEF PageStands
  <2>4. c.fence = p.fence
    BY <2>2, <2>3
  <2> QED
    BY <2>1, <2>4
<1>9. /\ d.view \in Seen /\ FenceDated(d) /\ d.link = p.link
      /\ d.sub.key = None /\ d.sub.timer = "none" /\ (d.sub = NoSubmission \/ d.sub = p.sub)
  <2>1. CASE p.sub.key = None
    BY <1>3, <1>5, <2>1
  <2>2. CASE p.sub.key # None /\ em.stage = "replied" /\ e[1] = p.sub.key
    <3>1. PICK c : c = Ended(p, "saved")
      OBVIOUS
    <3>2. Truthful(p, "saved")
      BY <1>7, <2>2 DEF Truthful
    <3>3. /\ PageStands(c) /\ c.sub = NoSubmission /\ c.link = p.link
          /\ c.view = p.view /\ c.fence = p.fence
      BY <1>8, <2>2, <3>1, <3>2
    <3>4. PICK s : s = em.snap
      OBVIOUS
    <3>5. d = Shown(c, s)
      BY <1>3, <2>2, <3>1, <3>4
    <3>6. /\ d.sub = c.sub /\ d.link = c.link
          /\ d = c \/ (d.view = s /\ d.fence.at = s.at)
      BY <3>3, <3>5, ShownFields
    <3>7. d.view \in Seen /\ FenceDated(d)
      <4>1. CASE d = c
        BY <1>5, <3>3, <4>1 DEF FenceDated
      <4>2. CASE d.view = s /\ d.fence.at = s.at
        BY <1>7, <2>2, <3>4, <4>2 DEF FenceDated, Dated
      <4> QED
        BY <3>6, <4>1, <4>2
    <3> QED
      BY <3>3, <3>6, <3>7 DEF NoSubmission
  <2>3. CASE p.sub.key # None /\ ~(em.stage = "replied" /\ e[1] = p.sub.key)
    <3>1. Truthful(p, "failed") /\ d = Ended(p, "failed")
      BY <1>3, <2>3 DEF Truthful
    <3>2. d.sub = NoSubmission /\ d.link = p.link /\ d.view = p.view /\ d.fence = p.fence
      BY <1>8, <2>3, <3>1
    <3> QED
      BY <1>5, <3>2 DEF NoSubmission, FenceDated
  <2> QED
    BY <2>1, <2>2, <2>3
<1>10. ShowsSeen
  BY <1>1, <1>9 DEF ShowsSeen, Like
<1>11. \A o \in Emissions : emission'[o].stage = "replied" => emission'[o] = emission[o]
  <2>1. /\ emission'[e] = over /\ \A o \in Emissions : o # e => emission'[o] = emission[o]
    BY <1>3, OneEmission DEF EmissionsStand
  <2>2. over.stage = "over"
    BY <1>2 DEF NoEmission
  <2> QED
    BY <2>1, <2>2
<1>12. SeenGoes /\ LessIsRead
  BY <1>4, <1>10, <1>11, PageSees
<1>13. TimelineGoes
  BY <1>4, RecordStays
<1>14. PageDated'
  BY <1>1, <1>4, <1>9 DEF PageDated, FenceDated
<1>15. TimesStand'
  BY <1>12, <1>13, <1>14, TimesGo
<1>16. PICK r : r = reconc'
  OBVIOUS
<1>17. r.stage = reconc.stage /\ r.waiters = {} /\ r = [stage |-> r.stage, waiters |-> r.waiters]
  BY <1>3, <1>16 DEF WatchStands, OneAnswer
<1>18. OneAnswer'
  BY <1>4, <1>16, <1>17 DEF WatchStands, OneAnswer
<1>19. WaitersFact' /\ WatchFact' /\ ~Confirming' /\ QuestionFact'
  BY <1>1, <1>5, <1>9, <1>16, <1>17 DEF WaitersFact, WatchFact, Confirming, QuestionFact
<1> QED
  BY <1>15, <1>18, <1>19 DEF WatchStands, ConfirmFact

\* Every step, whoever takes it.
LEMMA StepsWatched ==
  ASSUME PresentationIInv, RoomIInv, TimesStand, WatchStands, PresentationNext
  PROVE  TimesStand' /\ WatchStands'
<1>1. CASE (CommandsNext \/ RoomGoesOn) /\ UNCHANGED answersVars
  BY <1>1, RecordGoesOn, RoomWatched DEF PresentationIInv
<1>2. CASE AnswersNext
  <2>1. CASE (\E for \in {"sync", "broadcast", "rest"} : StartReading(for)) \/ ReadData \/ Confirm
    BY <2>1, ReadingsWatched
  <2>2. CASE \E e \in Emissions : \/ ReceiveSubmission(e) \/ ReadContext(e) \/ AcceptResponse(e)
                                  \/ ReadAcknowledgement(e) \/ SubmissionFails(e)
    BY <2>2, SubmissionsWatched
  <2>3. CASE \E e \in Emissions : HearReply(e)
    BY <2>3, HearWatched
  <2>4. CASE \E m \in mail : OnEnvelope(m) \/ MailLost(m)
    BY <2>4, EnvelopeWatched, LossWatched
  <2>5. CASE (\E m \in mail : SyncAnswered(m) \/ RestAnswered(m)) \/ RestFails
    BY <2>5, AnswersWatched
  <2>6. CASE \/ DeadlineExpires \/ SyncFallsBack \/ Connect \/ Disconnect
             \/ FallbackPolls \/ AckTimesOut \/ ConfirmTimesOut
    BY <2>6, TimerStepsWatched
  <2>7. CASE \E k \in Keys : SubmitResponse(k)
    BY <2>7, SubmitWatched
  <2>8. CASE RoomGoesOn
    BY <1>1, <2>8 DEF RoomGoesOn
  <2> QED
    BY <1>2, <2>1, <2>2, <2>3, <2>4, <2>5, <2>6, <2>7, <2>8 DEF AnswersNext
<1> QED
  BY <1>1, <1>2 DEF PresentationNext

\* At first the page asks what it should show, and nothing is submitted.
LEMMA WatchStarts ==
  ASSUME PresentationInit, PresentationIInv
  PROVE  TimesStand /\ WatchStands
<1>1. /\ room.phase = "lobby" /\ room.revision = 0 /\ timeline = << >> /\ clock = 0
  BY DEF PresentationInit, RoomInit
<1>2. PICK s : s = SnapshotNow
  OBVIOUS
<1>3. s.phase = room.phase /\ s.at = clock /\ (s.accepting => s.phase = "question_open")
  BY <1>2 DEF SnapshotNow, Snapshot
<1>4. /\ client = [link |-> "up", sub |-> NoSubmission, told |-> [k \in Keys |-> None],
                   view |-> s, fence |-> Fence(s)]
      /\ emission = [e \in Emissions |-> NoEmission] /\ reading = NoReading /\ mail = {}
      /\ reconc = [NoReconciliation EXCEPT !.stage = "sync"]
  BY <1>2 DEF PresentationInit, AnswersInit
<1>5. /\ client.view = s /\ client.fence.at = s.at /\ client.link = "up"
      /\ client.sub.key = None /\ client.sub.timer = "none"
  BY <1>4 DEF Fence, NoSubmission
<1>6. reconc = [stage |-> "sync", waiters |-> {}]
  BY <1>4 DEF NoReconciliation
<1>7. Seen = {s} /\ Letters = {}
  <2>1. \A e \in Emissions : ~EmissionAt(e, "replied")
    BY <1>4 DEF NoEmission, EmissionAt
  <2> QED
    BY <1>4, <1>5, <2>1 DEF Seen, Letters, Acks
<1>8. TimesStand
  <2>1. Dated(s)
    BY <1>1, <1>3 DEF Dated
  <2>2. FenceDated(client)
    BY <1>1, <1>3, <1>5 DEF FenceDated
  <2> QED
    BY <1>4, <1>7, <2>1, <2>2
       DEF TimesStand, SeenDated, ReadingDated, PageDated, BroadcastsLatest
<1>9. OneAnswer
  <2>1. ~IsAnswer(reading.for)
    BY <1>4 DEF NoReading, IsAnswer
  <2> QED
    BY <1>4, <1>6, <2>1 DEF OneAnswer
<1>10. WaitersFact /\ WatchFact /\ QuestionFact /\ ~Confirming
  BY <1>5, <1>6 DEF WaitersFact, WatchFact, QuestionFact, Confirming
<1> QED
  BY <1>8, <1>9, <1>10 DEF WatchStands, ConfirmFact

\* A submission that no timer runs for is watched by whoever waits for its reconciliation.
LEMMA SubmissionWatched ==
  ASSUME PresentationIInv, WatchStands
  PROVE  AnswersInv
<1>1. AnswersTypeOK
  BY DEF PresentationIInv, PageStands, WatchStands, WaitersFact, OneAnswer, AnswersTypeOK
<1>2. SubmissionIsWatched
  BY DEF WatchStands, WatchFact, WaitersFact, SubmissionIsWatched
<1> QED
  BY <1>1, <1>2 DEF AnswersInv

\* Whatever is lost, late or out of order, a submission that is neither saved nor refused
\* has a timer running for it or a reconciliation that will decide about it; the commands
\* stay settled and the room coherent.
THEOREM SubmissionsStayWatched == PresentationSpec => []PresentationInv
<1>1. PresentationInit /\ PresentationIInv => TimesStand /\ WatchStands
  BY WatchStarts
<1>2. TimesStand /\ WatchStands /\ CommandedRoom /\ PresentationIInv
         /\ [PresentationNext]_<< roomVars, commandVars, answersVars >>
      => TimesStand' /\ WatchStands'
  <2>1. ASSUME TimesStand, WatchStands, RoomIInv, PresentationIInv, PresentationNext
        PROVE  TimesStand' /\ WatchStands'
    BY <2>1, StepsWatched
  <2>2. ASSUME TimesStand, WatchStands, PresentationIInv,
               UNCHANGED << roomVars, commandVars, answersVars >>
        PROVE  TimesStand' /\ WatchStands'
    <3>1. TimelineGoes
      BY <2>2, RecordStays DEF PresentationIInv, roomVars
    <3> QED
      BY <2>2, <3>1, RoomWatched
  <2> QED
    BY <2>1, <2>2 DEF CommandedRoom
<1>3. CommandedRoom /\ WatchStands /\ PresentationIInv => PresentationInv
  BY CoherentRoom, CommandsAreFinal, SubmissionWatched
     DEF CommandedRoom, CommandsIInv, PresentationInv
<1> QED
  BY <1>1, <1>2, <1>3, PresentationStands, CommandedRoomStands, PTL DEF PresentationSpec
===============================================================================
