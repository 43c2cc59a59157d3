--------------------------- MODULE LifecyclesProofs ----------------------------
(***************************************************************************)
(* What is proved of uploaded media and of live rooms, for any number of   *)
(* finalizers, cleaners, deleters, rooms, codes and processes.             *)
(***************************************************************************)
EXTENDS MCLifecycles, TLAPS

--------------------------------------------------------------------------------
(* Uploaded media                                                               *)

\* Nobody can put an object any more: the signed URL's window is over and no
\* finalizer is about to copy.
Quiet == window = "closed" /\ \A f \in Finalizers : finalizer[f] # "claimed"

\* Nothing is stored, and nothing can come.
Gone == Quiet /\ Stored = {}

\* The row is on its way out, or was never there.
Ending == row = NoAsset \/ row.status = "deleting"

\* The row has left the statuses in which an upload can still be finalized.
Settled == \/ row = NoAsset /\ window # "unissued"
           \/ row # NoAsset /\ row.status \in {"clean", "rejected", "deleting"}

\* The row: what is mature or in its second pass can gain no further object, and a
\* clean row publishes an object a finalizer committed.
RowFacts ==
    /\ window = "unissued" => row = NoAsset
    /\ row # NoAsset =>
         /\ row.mature => row.status = "deleting" /\ Quiet
         /\ row.pass = 1 /\ row.due /\ row.status = "clean" => Quiet
         /\ row.status = "clean" /\ row.pass = 2 => Quiet /\ Stored \subseteq {row.key}
         /\ row.status = "clean" =>
              /\ row.key \in Finalizers /\ object[row.key] = "committed"
              /\ finalizer[row.key] \in {"unsureClean", "release", "cleanup", "done"}

\* A finalizer: a copy is never in flight twice, the row's owner has committed what it
\* is about to record, and one that cleans up does not hold the published object.
FinalizerFact(f) ==
        /\ finalizer[f] \in {"idle", "claimed", "copied", "committing", "rejecting"} =>
              << f, TRUE >> \notin inflight
        /\ finalizer[f] = "idle" => row = NoAsset \/ row.token # f
        /\ Owns(f) /\ finalizer[f] \in {"committing", "unsureClean"} => object[f] = "committed"
        /\ Owns(f) /\ << f, TRUE >> \in inflight =>
              /\ object[f] = "committed"
              /\ finalizer[f] \in {"unsureClean", "release", "done"}
        /\ finalizer[f] = "cleanup" => Settled /\ (Has("clean") => row.key = f)

\* All of them.
FinalizerFacts == \A f \in Finalizers : FinalizerFact(f)

\* A cleaner works on a settled row; in its second pass it has listed all there is.
CleanerFact(c) == cleaner[c].pc # "idle" =>
        /\ Settled /\ (Has("clean") => row.key = cleaner[c].key)
        /\ cleaner[c].key \notin cleaner[c].keys /\ cleaner[c].pass < 2
        /\ cleaner[c].pass = 1 =>
              /\ Quiet
              /\ cleaner[c].pc \in {"listed", "delete"} =>
                    Stored \subseteq cleaner[c].keys \cup {cleaner[c].key}
              /\ cleaner[c].pc = "complete" => Stored \subseteq {cleaner[c].key}

\* All of them.
CleanerFacts == \A c \in Cleaners : CleanerFact(c)

\* A deletion that must leave nothing: the sweep, or the retention of a mature row.
Thorough(d) == deleter[d].for = "sweep" \/ (deleter[d].for = "retention" /\ deleter[d].mature)

\* A deletion: a thorough one has listed everything, and purges when nothing is left.
DeleterFact(d) ==
    deleter[d].pc # "idle" =>
        /\ Ending
        /\ deleter[d].for = "account" => workspace # "live"
        /\ window = "unissued" => deleter[d].for = "account"
        /\ Thorough(d) => Quiet /\ (deleter[d].pc = "delete" => Stored \subseteq deleter[d].keys)
        /\ deleter[d].pc \in {"purge", "completeJob"} => Thorough(d) /\ Stored = {}
        /\ deleter[d].pc = "deleteAccount" => deleter[d].for = "account"

\* All of them.
DeleterFacts == \A d \in Deleters : DeleterFact(d)

\* The workspace: once its rows are gone a cleanup job remains for what is stored.
WorkspaceFacts ==
    /\ workspace # "live" => Ending
    /\ job # "none" => workspace # "live" /\ window # "unissued"
    /\ job = "due" => Quiet
    /\ window # "unissued" /\ job = "none" /\ (row = NoAsset \/ workspace # "live") => Gone

\* The inductive invariant of MediaAssets.
MediaIInv == /\ TypeOK /\ RowFacts /\ FinalizerFacts /\ CleanerFacts /\ DeleterFacts
             /\ WorkspaceFacts /\ ReferencedIsKept

\* What a deleter's record is.
Deletions == [pc : {"idle", "list", "delete", "purge", "deleteAccount", "completeJob"},
              for : {"request", "retention", "account", "sweep"}, mature : BOOLEAN,
              keys : SUBSET Keys]

\* What a cleaner's record is.
Cleanings == [pc : {"idle", "claimed", "list", "listed", "delete", "complete", "failed"},
              key : Keys, pass : 0..2, keys : SUBSET Keys]

\* Nothing is uploaded at first.
LEMMA MediaInitInv == Init => MediaIInv
<1> SUFFICES ASSUME Init PROVE MediaIInv
  OBVIOUS
<1>1. row = NoAsset /\ window = "unissued" /\ workspace = "live" /\ job = "none" /\ ~referenced
  BY DEF Init
<1>2. /\ \A f \in Finalizers : finalizer[f] = "idle"
      /\ \A c \in Cleaners : cleaner[c] = IdleCleaner
      /\ \A d \in Deleters : deleter[d] = IdleDeleter
      /\ inflight = {}
  BY DEF Init
<1>3. TypeOK
  <2>1. cleaner \in [Cleaners -> Cleanings] /\ deleter \in [Deleters -> Deletions]
    BY DEF Init, Cleanings, Deletions, Keys, IdleCleaner, IdleDeleter
  <2>2. 0 \in 0..MaxMishaps
    BY MediaAssumption
  <2> QED
    BY <2>1, <2>2 DEF Init, TypeOK, FinalizerPcs, Cleanings, Deletions
<1>4. RowFacts /\ WorkspaceFacts /\ ReferencedIsKept
  BY <1>1 DEF RowFacts, WorkspaceFacts, Ending, ReferencedIsKept
<1>5. FinalizerFacts
  BY <1>1, <1>2 DEF FinalizerFacts, FinalizerFact, Owns, Has, Settled
<1>6. CleanerFacts /\ DeleterFacts
  BY <1>2 DEF CleanerFacts, CleanerFact, DeleterFacts, DeleterFact, IdleCleaner, IdleDeleter
<1> QED
  BY <1>3, <1>4, <1>5, <1>6 DEF MediaIInv

\* Every step keeps the inductive invariant.
LEMMA MediaStep == MediaIInv /\ Next => MediaIInv'
<1> SUFFICES ASSUME MediaIInv, Next PROVE MediaIInv'
  OBVIOUS
<1>1. ASSUME CreateMediaAsset
      PROVE  MediaIInv'
  <2>0. row' = NewRow /\ row' \in Rows
    BY <1>1, MediaAssumption DEF Rows, Keys, CreateMediaAsset, NewRow
  <2>1. TypeOK'
    BY <1>1, MediaAssumption, <2>0 DEF MediaIInv, CreateMediaAsset, TypeOK
  <2>2. RowFacts'
    BY <1>1, MediaAssumption, <2>0 DEF CreateMediaAsset, NewRow, RowFacts
  <2>3. ASSUME NEW g \in Finalizers
        PROVE  FinalizerFact(g)'
    <3>1. row = NoAsset /\ window = "unissued"
      BY <1>1 DEF MediaIInv, RowFacts, CreateMediaAsset
    <3>2. finalizer[g] # "cleanup"
      BY <3>1 DEF MediaIInv, FinalizerFacts, FinalizerFact, Settled
    <3>3. row' # NoAsset /\ row'.token = NoToken /\ row'.status = "pending" /\ g # NoToken
      BY <2>0, MediaAssumption DEF NewRow
    <3>4. UNCHANGED << finalizer, inflight, object >>
      BY <1>1 DEF CreateMediaAsset
    <3> QED
      BY <3>2, <3>3, <3>4 DEF MediaIInv, FinalizerFacts, FinalizerFact, Owns, Has
  <2>4. CleanerFacts'
    BY <1>1, MediaAssumption, <2>0 DEF MediaIInv, CreateMediaAsset, RowFacts, CleanerFacts,
       CleanerFact, Settled
  <2>5. DeleterFacts'
    BY <1>1, MediaAssumption, <2>0 DEF MediaIInv, CreateMediaAsset, DeleterFacts, DeleterFact
  <2>6. WorkspaceFacts'
    BY <1>1, MediaAssumption, <2>0 DEF MediaIInv, CreateMediaAsset, WorkspaceFacts
  <2>7. ReferencedIsKept'
    BY <1>1, MediaAssumption, <2>0 DEF MediaIInv, CreateMediaAsset, RowFacts, ReferencedIsKept
  <2> QED
    BY <2>1, <2>2, <2>3, <2>4, <2>5, <2>6, <2>7 DEF MediaIInv, FinalizerFacts
<1>2. ASSUME Upload
      PROVE  MediaIInv'
  <2>1. TypeOK'
    BY <1>2, MediaAssumption DEF MediaIInv, Upload, world, TypeOK, Keys
  <2>2. RowFacts'
    BY <1>2, MediaAssumption DEF MediaIInv, Upload, world, RowFacts, Quiet
  <2>3. ASSUME NEW g \in Finalizers
        PROVE  FinalizerFact(g)'
    BY <1>2, MediaAssumption DEF MediaIInv, Upload, world, FinalizerFacts, FinalizerFact,
       RowFacts, TypeOK, FinalizerPcs, Keys, Quiet, Settled, Owns, Has, Stored, Rows
  <2>4. CleanerFacts'
    BY <1>2, MediaAssumption DEF MediaIInv, Upload, world, CleanerFacts, CleanerFact, Quiet,
       Settled, Has
  <2>5. DeleterFacts'
    BY <1>2, MediaAssumption DEF MediaIInv, Upload, world, DeleterFacts, DeleterFact, Quiet,
       Ending, Thorough
  <2>6. WorkspaceFacts'
    BY <1>2, MediaAssumption DEF MediaIInv, Upload, world, WorkspaceFacts, Quiet, Gone, Ending
  <2>7. ReferencedIsKept'
    BY <1>2, MediaAssumption DEF MediaIInv, Upload, world, ReferencedIsKept
  <2> QED
    BY <2>1, <2>2, <2>3, <2>4, <2>5, <2>6, <2>7 DEF MediaIInv, FinalizerFacts
<1>3. ASSUME CloseWindow
      PROVE  MediaIInv'
  <2>1. TypeOK'
    BY <1>3, MediaAssumption DEF MediaIInv, CloseWindow, TypeOK
  <2>2. RowFacts'
    BY <1>3, MediaAssumption DEF MediaIInv, CloseWindow, RowFacts, Quiet
  <2>3. ASSUME NEW g \in Finalizers
        PROVE  FinalizerFact(g)'
    BY <1>3, MediaAssumption DEF MediaIInv, CloseWindow, world, FinalizerFacts, FinalizerFact,
       RowFacts, TypeOK, FinalizerPcs, Keys, Quiet, Settled, Owns, Has, Stored, Rows
  <2>4. CleanerFacts'
    BY <1>3, MediaAssumption DEF MediaIInv, CloseWindow, CleanerFacts, CleanerFact, Quiet,
       Settled, Has
  <2>5. DeleterFacts'
    BY <1>3, MediaAssumption DEF MediaIInv, CloseWindow, DeleterFacts, DeleterFact, Quiet, Ending,
       Thorough
  <2>6. WorkspaceFacts'
    BY <1>3, MediaAssumption DEF MediaIInv, CloseWindow, WorkspaceFacts, Quiet, Gone, Ending
  <2>7. ReferencedIsKept'
    BY <1>3, MediaAssumption DEF MediaIInv, CloseWindow, ReferencedIsKept
  <2> QED
    BY <2>1, <2>2, <2>3, <2>4, <2>5, <2>6, <2>7 DEF MediaIInv, FinalizerFacts
<1>4. ASSUME Refer
      PROVE  MediaIInv'
  <2>1. TypeOK'
    BY <1>4, MediaAssumption DEF MediaIInv, Refer, TypeOK
  <2>2. RowFacts'
    BY <1>4, MediaAssumption DEF MediaIInv, Refer, RowFacts, Quiet, Stored
  <2>3. ASSUME NEW g \in Finalizers
        PROVE  FinalizerFact(g)'
    BY <1>4, MediaAssumption DEF MediaIInv, Refer, world, FinalizerFacts, FinalizerFact, RowFacts,
       TypeOK, FinalizerPcs, Keys, Quiet, Settled, Owns, Has, Stored, Rows
  <2>4. CleanerFacts'
    BY <1>4, MediaAssumption DEF MediaIInv, Refer, CleanerFacts, CleanerFact, Quiet, Settled, Has,
       Stored
  <2>5. DeleterFacts'
    BY <1>4, MediaAssumption DEF MediaIInv, Refer, DeleterFacts, DeleterFact, Quiet, Ending,
       Stored, Thorough
  <2>6. WorkspaceFacts'
    BY <1>4, MediaAssumption DEF MediaIInv, Refer, WorkspaceFacts, Quiet, Gone, Ending, Stored
  <2>7. ReferencedIsKept'
    BY <1>4, MediaAssumption DEF MediaIInv, Refer, ReferencedIsKept
  <2> QED
    BY <2>1, <2>2, <2>3, <2>4, <2>5, <2>6, <2>7 DEF MediaIInv, FinalizerFacts
<1>5. ASSUME Lapse
      PROVE  MediaIInv'
  <2>0. row \in Rows /\ row' \in Rows
    BY ZenonT(40), <1>5, MediaAssumption DEF MediaIInv, TypeOK, Rows, Keys, Has, Lapse, world
  <2>1. TypeOK'
    BY <1>5, MediaAssumption, <2>0 DEF MediaIInv, Lapse, world, TypeOK
  <2>2. RowFacts'
    BY <1>5, MediaAssumption, <2>0 DEF MediaIInv, Lapse, world, RowFacts, Quiet, Stored, Rows
  <2>3. ASSUME NEW g \in Finalizers
        PROVE  FinalizerFact(g)'
    <3>1. row # NoAsset /\ row' # NoAsset
      BY <2>0, MediaAssumption
    <3>2. row'.status = row.status /\ row'.token = row.token /\ row'.key = row.key
      BY <1>5, <2>0 DEF Lapse, Rows
    <3>3. UNCHANGED << finalizer, inflight, object, window >>
      BY <1>5 DEF Lapse, world
    <3> QED
      BY <3>1, <3>2, <3>3 DEF MediaIInv, FinalizerFacts, FinalizerFact, Owns, Has, Settled
  <2>4. CleanerFacts'
    BY <1>5, MediaAssumption, <2>0 DEF MediaIInv, Lapse, Has, world, CleanerFacts, CleanerFact,
       Quiet, Settled, Stored, Rows
  <2>5. DeleterFacts'
    BY <1>5, MediaAssumption, <2>0 DEF MediaIInv, Lapse, world, DeleterFacts, DeleterFact, Quiet,
       Ending, Stored, Thorough, Rows
  <2>6. WorkspaceFacts'
    BY <1>5, MediaAssumption, <2>0 DEF MediaIInv, Lapse, world, WorkspaceFacts, Quiet, Gone,
       Ending, Stored, Rows
  <2>7. ReferencedIsKept'
    BY <1>5, MediaAssumption, <2>0 DEF Lapse, Has, ReferencedIsKept, Rows
  <2> QED
    BY <2>1, <2>2, <2>3, <2>4, <2>5, <2>6, <2>7 DEF MediaIInv, FinalizerFacts
<1>6. ASSUME Mature
      PROVE  MediaIInv'
  <2>0. row \in Rows /\ row' \in Rows
    BY <1>6, MediaAssumption DEF MediaIInv, TypeOK, Rows, Keys, Has, Mature, HoldPassed, world
  <2>1. TypeOK'
    BY <1>6, MediaAssumption, <2>0 DEF MediaIInv, Mature, world, TypeOK
  <2>2. RowFacts'
    BY <1>6, MediaAssumption, <2>0 DEF MediaIInv, Mature, Has, HoldPassed, world, RowFacts,
       TypeOK, Quiet
  <2>3. ASSUME NEW g \in Finalizers
        PROVE  FinalizerFact(g)'
    BY <1>6, MediaAssumption, <2>0 DEF MediaIInv, Mature, Has, HoldPassed, world, FinalizerFacts,
       FinalizerFact, RowFacts, TypeOK, FinalizerPcs, Keys, Quiet, Settled, Owns, Stored, Rows
  <2>4. CleanerFacts'
    BY <1>6, MediaAssumption, <2>0 DEF MediaIInv, Mature, Has, world, RowFacts, CleanerFacts,
       CleanerFact, Quiet, Settled, Stored
  <2>5. DeleterFacts'
    BY <1>6, MediaAssumption, <2>0 DEF MediaIInv, Mature, world, DeleterFacts, DeleterFact, Quiet,
       Ending, Stored, Thorough
  <2>6. WorkspaceFacts'
    <3>1. row # NoAsset /\ row' # NoAsset /\ row'.status = row.status
      BY <1>6, <2>0, MediaAssumption DEF Mature, Rows
    <3>2. UNCHANGED << object, finalizer, world >>
      BY <1>6 DEF Mature
    <3> QED
      BY <3>1, <3>2 DEF MediaIInv, WorkspaceFacts, Ending, Gone, Quiet, Stored, world
  <2>7. ReferencedIsKept'
    BY <1>6, MediaAssumption, <2>0 DEF MediaIInv, Mature, Has, world, ReferencedIsKept
  <2> QED
    BY <2>1, <2>2, <2>3, <2>4, <2>5, <2>6, <2>7 DEF MediaIInv, FinalizerFacts
<1>7. ASSUME JobDue
      PROVE  MediaIInv'
  <2>1. TypeOK'
    BY <1>7, MediaAssumption DEF MediaIInv, JobDue, TypeOK
  <2>2. RowFacts'
    BY <1>7, MediaAssumption DEF MediaIInv, JobDue, RowFacts, Quiet, Stored
  <2>3. ASSUME NEW g \in Finalizers
        PROVE  FinalizerFact(g)'
    BY <1>7, MediaAssumption DEF MediaIInv, JobDue, HoldPassed, world, FinalizerFacts,
       FinalizerFact, RowFacts, TypeOK, FinalizerPcs, Keys, Quiet, Settled, Owns, Has, Stored,
       Rows
  <2>4. CleanerFacts'
    BY <1>7, MediaAssumption DEF MediaIInv, JobDue, CleanerFacts, CleanerFact, Quiet, Settled,
       Has, Stored
  <2>5. DeleterFacts'
    BY <1>7, MediaAssumption DEF MediaIInv, JobDue, DeleterFacts, DeleterFact, Quiet, Ending,
       Stored, Thorough
  <2>6. WorkspaceFacts'
    BY <1>7, MediaAssumption DEF MediaIInv, JobDue, HoldPassed, WorkspaceFacts, TypeOK, Quiet,
       Ending
  <2>7. ReferencedIsKept'
    BY <1>7, MediaAssumption DEF MediaIInv, JobDue, ReferencedIsKept
  <2> QED
    BY <2>1, <2>2, <2>3, <2>4, <2>5, <2>6, <2>7 DEF MediaIInv, FinalizerFacts
<1>8. ASSUME CleanupDue
      PROVE  MediaIInv'
  <2>0. row \in Rows /\ row' \in Rows
    BY <1>8, MediaAssumption DEF MediaIInv, TypeOK, Rows, Keys, Has, CleanupDue, HoldPassed, world
  <2>1. TypeOK'
    BY <1>8, MediaAssumption, <2>0 DEF MediaIInv, CleanupDue, world, TypeOK
  <2>2. RowFacts'
    BY <1>8, MediaAssumption, <2>0 DEF MediaIInv, CleanupDue, HoldPassed, world, RowFacts, TypeOK,
       Quiet
  <2>3. ASSUME NEW g \in Finalizers
        PROVE  FinalizerFact(g)'
    BY <1>8, MediaAssumption, <2>0 DEF MediaIInv, CleanupDue, Has, HoldPassed, world,
       FinalizerFacts, FinalizerFact, RowFacts, TypeOK, FinalizerPcs, Keys, Quiet, Settled, Owns,
       Stored, Rows
  <2>4. CleanerFacts'
    BY <1>8, MediaAssumption, <2>0 DEF MediaIInv, CleanupDue, world, RowFacts, CleanerFacts,
       CleanerFact, Quiet, Settled, Stored
  <2>5. DeleterFacts'
    BY <1>8, MediaAssumption, <2>0 DEF MediaIInv, CleanupDue, world, DeleterFacts, DeleterFact,
       Quiet, Ending, Stored, Thorough
  <2>6. WorkspaceFacts'
    BY <1>8, MediaAssumption, <2>0 DEF MediaIInv, CleanupDue, Has, HoldPassed, world, RowFacts,
       WorkspaceFacts, TypeOK, Keys, Quiet, Gone, Ending, Stored, Rows
  <2>7. ReferencedIsKept'
    BY <1>8, MediaAssumption, <2>0 DEF MediaIInv, CleanupDue, Has, HoldPassed, world,
       FinalizerFacts, FinalizerFact, RowFacts, ReferencedIsKept, TypeOK, Keys, Quiet, Settled,
       Owns, Stored, Rows
  <2> QED
    BY <2>1, <2>2, <2>3, <2>4, <2>5, <2>6, <2>7 DEF MediaIInv, FinalizerFacts
<1>9. ASSUME NEW k \in Keys, Expire(k)
      PROVE  MediaIInv'
  <2>1. TypeOK'
    BY <1>9, MediaAssumption DEF MediaIInv, Expire, Removed, world, TypeOK
  <2>2. RowFacts'
    BY <1>9, MediaAssumption DEF MediaIInv, Expire, Removed, world, RowFacts, Keys, Quiet, Stored
  <2>3. ASSUME NEW g \in Finalizers
        PROVE  FinalizerFact(g)'
    BY <1>9, MediaAssumption DEF MediaIInv, Expire, Removed, world, FinalizerFacts, FinalizerFact,
       RowFacts, TypeOK, FinalizerPcs, Keys, Quiet, Settled, Owns, Has, Stored, Rows
  <2>4. CleanerFacts'
    BY <1>9, MediaAssumption DEF MediaIInv, Expire, Removed, world, CleanerFacts, CleanerFact,
       Quiet, Settled, Has, Stored
  <2>5. DeleterFacts'
    BY <1>9, MediaAssumption DEF MediaIInv, Expire, Removed, world, DeleterFacts, DeleterFact,
       Quiet, Ending, Stored, Thorough
  <2>6. WorkspaceFacts'
    BY <1>9, MediaAssumption DEF MediaIInv, Expire, world, WorkspaceFacts, Quiet, Gone, Ending,
       Stored
  <2>7. ReferencedIsKept'
    BY <1>9, MediaAssumption DEF MediaIInv, Expire, world, ReferencedIsKept
  <2> QED
    BY <2>1, <2>2, <2>3, <2>4, <2>5, <2>6, <2>7 DEF MediaIInv, FinalizerFacts
<1>10. ASSUME NEW f \in Finalizers, ClaimFinalization(f)
      PROVE  MediaIInv'
  <2>0. row \in Rows /\ row' \in Rows
    BY <1>10, MediaAssumption DEF MediaIInv, TypeOK, Rows, Keys, Has, ClaimFinalization, At, Goes,
       world
  <2>1. TypeOK'
    BY <1>10, MediaAssumption, <2>0 DEF MediaIInv, ClaimFinalization, Goes, world, TypeOK,
       FinalizerPcs
  <2>2. RowFacts'
    BY <1>10, MediaAssumption, <2>0 DEF MediaIInv, ClaimFinalization, Has, world, RowFacts
  <2>3. ASSUME NEW g \in Finalizers
        PROVE  FinalizerFact(g)'
    <3>1. CASE g # f
      <4>1. row # NoAsset /\ row' # NoAsset /\ row.status \in {"pending", "finalizing"} /\ row'.token = f
        BY <1>10, <2>0, MediaAssumption DEF ClaimFinalization, Has, Rows
      <4>2. finalizer'[g] = finalizer[g] /\ UNCHANGED << inflight, object, window >>
        BY <1>10, <3>1 DEF ClaimFinalization, Goes, world
      <4> QED
        BY <3>1, <4>1, <4>2 DEF MediaIInv, FinalizerFacts, FinalizerFact, Owns, Has, Settled
    <3>2. CASE g = f
      BY ZenonT(40), <1>10, MediaAssumption, <2>0, <3>2 DEF MediaIInv, ClaimFinalization, At, Goes, Has,
         world, FinalizerFacts, FinalizerFact, RowFacts, TypeOK, FinalizerPcs, Keys, Quiet,
         Settled, Owns, Stored, Rows
    <3> QED
      BY <3>1, <3>2
  <2>4. CleanerFacts'
    BY <1>10, MediaAssumption, <2>0 DEF MediaIInv, ClaimFinalization, Has, CleanerFacts,
       CleanerFact, Settled
  <2>5. DeleterFacts'
    BY <1>10, MediaAssumption, <2>0 DEF MediaIInv, ClaimFinalization, Has, DeleterFacts,
       DeleterFact, Ending
  <2>6. WorkspaceFacts'
    BY <1>10, MediaAssumption, <2>0 DEF MediaIInv, ClaimFinalization, At, Goes, Has, world,
       RowFacts, WorkspaceFacts, TypeOK, Keys, Quiet, Gone, Ending, Stored, Rows
  <2>7. ReferencedIsKept'
    BY <1>10, MediaAssumption, <2>0 DEF MediaIInv, ClaimFinalization, At, Goes, Has, world,
       FinalizerFacts, FinalizerFact, RowFacts, ReferencedIsKept, TypeOK, Keys, Quiet, Settled,
       Owns, Stored, Rows
  <2> QED
    BY <2>1, <2>2, <2>3, <2>4, <2>5, <2>6, <2>7 DEF MediaIInv, FinalizerFacts
<1>11. ASSUME NEW f \in Finalizers, Copy(f)
      PROVE  MediaIInv'
  <2>1. TypeOK'
    BY <1>11, MediaAssumption DEF MediaIInv, Copy, Goes, world, TypeOK, FinalizerPcs, Keys
  <2>2. RowFacts'
    BY <1>11, MediaAssumption DEF MediaIInv, Copy, At, Goes, world, RowFacts, Quiet
  <2>3. ASSUME NEW g \in Finalizers
        PROVE  FinalizerFact(g)'
    <3>1. CASE g # f
      BY <1>11, MediaAssumption, <3>1 DEF MediaIInv, Copy, At, Goes, world, FinalizerFacts,
         FinalizerFact, RowFacts, TypeOK, FinalizerPcs, Keys, Quiet, Settled, Owns, Has, Stored,
         Rows
    <3>2. CASE g = f
      BY <1>11, MediaAssumption, <3>2 DEF MediaIInv, Copy, At, Goes, world, FinalizerFacts,
         FinalizerFact, RowFacts, TypeOK, FinalizerPcs, Keys, Quiet, Settled, Owns, Has, Stored,
         Rows
    <3> QED
      BY <3>1, <3>2
  <2>4. CleanerFacts'
    BY <1>11, MediaAssumption DEF MediaIInv, Copy, At, world, CleanerFacts, CleanerFact, Quiet,
       Settled, Has
  <2>5. DeleterFacts'
    BY <1>11, MediaAssumption DEF MediaIInv, Copy, At, world, DeleterFacts, DeleterFact, Quiet,
       Ending, Thorough
  <2>6. WorkspaceFacts'
    BY <1>11, MediaAssumption DEF MediaIInv, Copy, Goes, world, WorkspaceFacts, Keys, Quiet, Gone,
       Ending, Stored
  <2>7. ReferencedIsKept'
    BY <1>11, MediaAssumption DEF MediaIInv, Copy, world, ReferencedIsKept
  <2> QED
    BY <2>1, <2>2, <2>3, <2>4, <2>5, <2>6, <2>7 DEF MediaIInv, FinalizerFacts
<1>12. ASSUME NEW f \in Finalizers, Reject(f)
      PROVE  MediaIInv'
  <2>1. TypeOK'
    BY <1>12, MediaAssumption DEF MediaIInv, Reject, Goes, world, TypeOK, FinalizerPcs
  <2>2. RowFacts'
    BY <1>12, MediaAssumption DEF MediaIInv, Reject, At, Goes, world, RowFacts, Quiet
  <2>3. ASSUME NEW g \in Finalizers
        PROVE  FinalizerFact(g)'
    <3>1. CASE g # f
      BY <1>12, MediaAssumption, <3>1 DEF MediaIInv, Reject, At, Goes, world, FinalizerFacts,
         FinalizerFact, RowFacts, TypeOK, FinalizerPcs, Keys, Quiet, Settled, Owns, Has, Stored,
         Rows
    <3>2. CASE g = f
      BY <1>12, MediaAssumption, <3>2 DEF MediaIInv, Reject, At, Goes, world, FinalizerFacts,
         FinalizerFact, RowFacts, TypeOK, FinalizerPcs, Keys, Quiet, Settled, Owns, Has, Stored,
         Rows
    <3> QED
      BY <3>1, <3>2
  <2>4. CleanerFacts'
    BY <1>12, MediaAssumption DEF MediaIInv, Reject, Goes, world, CleanerFacts, CleanerFact,
       Quiet, Settled, Has, Stored
  <2>5. DeleterFacts'
    BY <1>12, MediaAssumption DEF MediaIInv, Reject, Goes, world, DeleterFacts, DeleterFact,
       Quiet, Ending, Stored, Thorough
  <2>6. WorkspaceFacts'
    BY <1>12, MediaAssumption DEF MediaIInv, Reject, Goes, world, WorkspaceFacts, Quiet, Gone,
       Ending, Stored
  <2>7. ReferencedIsKept'
    BY <1>12, MediaAssumption DEF MediaIInv, Reject, world, ReferencedIsKept
  <2> QED
    BY <2>1, <2>2, <2>3, <2>4, <2>5, <2>6, <2>7 DEF MediaIInv, FinalizerFacts
<1>13. ASSUME NEW f \in Finalizers, Tag(f)
      PROVE  MediaIInv'
  <2>1. TypeOK'
    BY <1>13, MediaAssumption DEF MediaIInv, Tag, Goes, Tagged, world, TypeOK, FinalizerPcs, Keys
  <2>2. RowFacts'
    BY <1>13, MediaAssumption DEF MediaIInv, Tag, At, Goes, Tagged, world, RowFacts, Quiet, Stored
  <2>3. ASSUME NEW g \in Finalizers
        PROVE  FinalizerFact(g)'
    <3>1. CASE g # f
      BY <1>13, MediaAssumption, <3>1 DEF MediaIInv, Tag, At, Goes, Tagged, world, FinalizerFacts,
         FinalizerFact, RowFacts, TypeOK, FinalizerPcs, Keys, Quiet, Settled, Owns, Has, Stored,
         Rows
    <3>2. CASE g = f
      BY <1>13, MediaAssumption, <3>2 DEF MediaIInv, Tag, At, Goes, Tagged, world, FinalizerFacts,
         FinalizerFact, RowFacts, TypeOK, FinalizerPcs, Keys, Quiet, Settled, Owns, Has, Stored,
         Rows
    <3> QED
      BY <3>1, <3>2
  <2>4. CleanerFacts'
    BY <1>13, MediaAssumption DEF MediaIInv, Tag, Goes, Tagged, world, CleanerFacts, CleanerFact,
       Quiet, Settled, Has, Stored
  <2>5. DeleterFacts'
    BY <1>13, MediaAssumption DEF MediaIInv, Tag, Goes, Tagged, world, DeleterFacts, DeleterFact,
       Quiet, Ending, Stored, Thorough
  <2>6. WorkspaceFacts'
    BY <1>13, MediaAssumption DEF MediaIInv, Tag, Goes, world, WorkspaceFacts, Keys, Quiet, Gone,
       Ending, Stored
  <2>7. ReferencedIsKept'
    BY <1>13, MediaAssumption DEF MediaIInv, Tag, world, ReferencedIsKept
  <2> QED
    BY <2>1, <2>2, <2>3, <2>4, <2>5, <2>6, <2>7 DEF MediaIInv, FinalizerFacts
<1>14. ASSUME NEW f \in Finalizers, FinalizeFails(f)
      PROVE  MediaIInv'
  <2>1. TypeOK'
    BY <1>14, MediaAssumption DEF MediaIInv, FinalizeFails, Goes, Mishap, world, TypeOK,
       FinalizerPcs
  <2>2. RowFacts'
    BY <1>14, MediaAssumption DEF MediaIInv, FinalizeFails, Goes, world, RowFacts, Quiet, Stored
  <2>3. ASSUME NEW g \in Finalizers
        PROVE  FinalizerFact(g)'
    <3>1. CASE g # f
      BY <1>14, MediaAssumption, <3>1 DEF MediaIInv, FinalizeFails, Goes, Mishap, world,
         FinalizerFacts, FinalizerFact, RowFacts, TypeOK, FinalizerPcs, Keys, Quiet, Settled,
         Owns, Has, Stored, Rows
    <3>2. CASE g = f
      BY <1>14, MediaAssumption, <3>2 DEF MediaIInv, FinalizeFails, Goes, Mishap, world,
         FinalizerFacts, FinalizerFact, RowFacts, TypeOK, FinalizerPcs, Keys, Quiet, Settled,
         Owns, Has, Stored, Rows
    <3> QED
      BY <3>1, <3>2
  <2>4. CleanerFacts'
    BY <1>14, MediaAssumption DEF MediaIInv, FinalizeFails, Goes, world, CleanerFacts,
       CleanerFact, Quiet, Settled, Has, Stored
  <2>5. DeleterFacts'
    BY <1>14, MediaAssumption DEF MediaIInv, FinalizeFails, Goes, world, DeleterFacts,
       DeleterFact, Quiet, Ending, Stored, Thorough
  <2>6. WorkspaceFacts'
    BY <1>14, MediaAssumption DEF MediaIInv, FinalizeFails, Goes, world, WorkspaceFacts, Quiet,
       Gone, Ending, Stored
  <2>7. ReferencedIsKept'
    BY <1>14, MediaAssumption DEF MediaIInv, FinalizeFails, world, ReferencedIsKept
  <2> QED
    BY <2>1, <2>2, <2>3, <2>4, <2>5, <2>6, <2>7 DEF MediaIInv, FinalizerFacts
<1>15. ASSUME NEW f \in Finalizers, Update(f)
      PROVE  MediaIInv'
  <2>0. /\ row' = row \/ (row' = Finalized(f, At(f, "committing")) /\ Owns(f))
        /\ row \in Rows => row' \in Rows
        /\ row = NoAsset => row' = NoAsset
    <3>1. 0 \in 0..2
      OBVIOUS
    <3>2. row \in Rows => Finalized(f, TRUE) \in Rows /\ Finalized(f, FALSE) \in Rows
      BY <3>1 DEF Finalized, Rows, Keys
    <3>3. At(f, "committing") \in BOOLEAN
      BY DEF At
    <3> QED
      BY <1>15, <3>2, <3>3 DEF Update, Owns, Has
  <2>1. TypeOK'
    BY <1>15, MediaAssumption, <2>0 DEF MediaIInv, Update, Goes, world, TypeOK, FinalizerPcs
  <2>2. RowFacts'
    <3>1. CASE row' = row
      BY <1>15, <3>1 DEF Update, Goes, MediaIInv, RowFacts, Quiet, Stored, world, TypeOK
    <3>2. CASE row' # row
      <4>1. row \in Rows /\ row' \in Rows /\ row # NoAsset /\ row' # NoAsset
        BY <2>0, <3>2, MediaAssumption DEF MediaIInv, TypeOK
      <4>2. /\ row'.status = IF At(f, "committing") THEN "clean" ELSE "rejected"
            /\ row'.key = IF At(f, "committing") THEN f ELSE row.key
            /\ row'.mature = row.mature /\ row'.pass = 0 /\ row.status = "finalizing"
        BY ZenonT(40), <2>0, <3>2, <4>1 DEF Finalized, Rows, Owns, Has
      <4>3. finalizer'[f] = "cleanup" /\ UNCHANGED << object, world >>
        BY <1>15, <2>0, <3>2 DEF Update, Goes, MediaIInv, TypeOK
      <4>4. At(f, "committing") => object[f] = "committed"
        BY <2>0, <3>2 DEF At, MediaIInv, FinalizerFacts, FinalizerFact
      <4>5. ~row.mature /\ window # "unissued"
        BY <4>1, <4>2 DEF MediaIInv, RowFacts
      <4> QED
        BY <4>1, <4>2, <4>3, <4>4, <4>5 DEF RowFacts, world
    <3> QED
      BY <3>1, <3>2
  <2>3. ASSUME NEW g \in Finalizers
        PROVE  FinalizerFact(g)'
    <3>1. CASE g # f
      <4>1. finalizer'[g] = finalizer[g] /\ UNCHANGED << inflight, object, window >>
        BY <1>15, <3>1 DEF Update, Goes, MediaIInv, TypeOK, world
      <4>2. CASE row' = row
        BY <4>1, <4>2 DEF MediaIInv, FinalizerFacts, FinalizerFact, Owns, Has, Settled
      <4>3. CASE row' # row
        <5>1. row \in Rows /\ row' \in Rows /\ row # NoAsset /\ row' # NoAsset
          BY <2>0, <4>3, MediaAssumption DEF MediaIInv, TypeOK
        <5>2. row'.status # "finalizing" /\ row'.token = NoToken /\ row.status = "finalizing"
          BY ZenonT(40), <2>0, <4>3, <5>1 DEF Finalized, Rows, Owns, Has
        <5>3. finalizer[g] # "cleanup" /\ g # NoToken
          BY <5>1, <5>2, MediaAssumption DEF MediaIInv, FinalizerFacts, FinalizerFact, Settled
        <5> QED
          BY <4>1, <5>1, <5>2, <5>3 DEF MediaIInv, FinalizerFacts, FinalizerFact, Owns, Has
      <4> QED
        BY <4>2, <4>3
    <3>2. CASE g = f
      <4>1. finalizer'[f] = IF Owns(f) THEN "cleanup" ELSE "lost"
        BY <1>15 DEF Update, Goes, MediaIInv, TypeOK
      <4>2. UNCHANGED << inflight, object, window >> /\ << f, TRUE >> \notin inflight
        BY <1>15 DEF Update, MediaIInv, FinalizerFacts, FinalizerFact, world
      <4>3. CASE ~Owns(f)
        BY <3>2, <4>1, <4>2, <4>3 DEF FinalizerFact
      <4>4. CASE Owns(f)
        <5>1. row' = Finalized(f, At(f, "committing")) /\ row \in Rows /\ row' \in Rows /\ row' # NoAsset
          BY <1>15, <2>0, <4>4, MediaAssumption DEF Update, Owns, Has, MediaIInv, TypeOK
        <5>2. /\ row'.status = IF At(f, "committing") THEN "clean" ELSE "rejected"
              /\ row'.key = IF At(f, "committing") THEN f ELSE row.key
          BY <5>1 DEF Finalized, Rows
        <5> QED
          BY <3>2, <4>1, <4>2, <4>4, <5>1, <5>2 DEF FinalizerFact, Has, Settled
      <4> QED
        BY <4>3, <4>4
    <3> QED
      BY <3>1, <3>2
  <2>4. CleanerFacts'
    BY <1>15, MediaAssumption, <2>0 DEF MediaIInv, Update, Goes, Owns, Has, world, CleanerFacts,
       CleanerFact, TypeOK, Quiet, Settled, Stored
  <2>5. DeleterFacts'
    BY <1>15, MediaAssumption, <2>0 DEF MediaIInv, Update, Goes, Owns, Has, world, DeleterFacts,
       DeleterFact, TypeOK, Quiet, Ending, Stored, Thorough, Rows
  <2>6. WorkspaceFacts'
    BY <1>15, MediaAssumption, <2>0 DEF MediaIInv, Update, Goes, Owns, Has, world, WorkspaceFacts,
       TypeOK, Quiet, Gone, Ending, Stored
  <2>7. ReferencedIsKept'
    <3>1. UNCHANGED << referenced, workspace >>
      BY <1>15 DEF Update, world
    <3>2. row # NoAsset => row' # NoAsset /\ (row'.status = "deleting" => row.status = "deleting")
      BY <2>0, MediaAssumption DEF MediaIInv, TypeOK, Finalized, Rows, Owns, Has
    <3> QED
      BY <3>1, <3>2 DEF MediaIInv, ReferencedIsKept
  <2> QED
    BY <2>1, <2>2, <2>3, <2>4, <2>5, <2>6, <2>7 DEF MediaIInv, FinalizerFacts
<1>16. ASSUME NEW f \in Finalizers, UpdateUnknown(f)
      PROVE  MediaIInv'
  <2>1. TypeOK'
    <3>1. << f, TRUE >> \in Finalizers \X BOOLEAN /\ << f, FALSE >> \in Finalizers \X BOOLEAN
      OBVIOUS
    <3>2. inflight' \subseteq Finalizers \X BOOLEAN
      BY <1>16, <3>1 DEF UpdateUnknown, At, MediaIInv, TypeOK
    <3> QED
      BY <1>16, <3>2, MediaAssumption DEF UpdateUnknown, Goes, Mishap, world, MediaIInv, TypeOK,
         FinalizerPcs
  <2>2. RowFacts'
    BY <1>16, MediaAssumption DEF MediaIInv, UpdateUnknown, Goes, world, RowFacts, Quiet, Stored
  <2>3. ASSUME NEW g \in Finalizers
        PROVE  FinalizerFact(g)'
    <3>1. CASE g # f
      BY <1>16, MediaAssumption, <3>1 DEF MediaIInv, UpdateUnknown, At, Goes, Mishap, world,
         FinalizerFacts, FinalizerFact, RowFacts, TypeOK, FinalizerPcs, Keys, Quiet, Settled,
         Owns, Has, Stored, Rows
    <3>2. CASE g = f
      BY <1>16, MediaAssumption, <3>2 DEF MediaIInv, UpdateUnknown, At, Goes, Mishap, world,
         FinalizerFacts, FinalizerFact, RowFacts, TypeOK, FinalizerPcs, Keys, Quiet, Settled,
         Owns, Has, Stored, Rows
    <3> QED
      BY <3>1, <3>2
  <2>4. CleanerFacts'
    BY <1>16, MediaAssumption DEF MediaIInv, UpdateUnknown, Goes, world, CleanerFacts,
       CleanerFact, Quiet, Settled, Has, Stored
  <2>5. DeleterFacts'
    BY <1>16, MediaAssumption DEF MediaIInv, UpdateUnknown, Goes, world, DeleterFacts,
       DeleterFact, Quiet, Ending, Stored, Thorough
  <2>6. WorkspaceFacts'
    BY <1>16, MediaAssumption DEF MediaIInv, UpdateUnknown, Goes, world, WorkspaceFacts, Quiet,
       Gone, Ending, Stored
  <2>7. ReferencedIsKept'
    BY <1>16, MediaAssumption DEF MediaIInv, UpdateUnknown, world, ReferencedIsKept
  <2> QED
    BY <2>1, <2>2, <2>3, <2>4, <2>5, <2>6, <2>7 DEF MediaIInv, FinalizerFacts
<1>17. ASSUME NEW f \in Finalizers, NEW clean \in BOOLEAN, LateUpdate(f, clean)
      PROVE  MediaIInv'
  <2>0. /\ row' = row \/ (row' = Finalized(f, clean) /\ Owns(f))
        /\ row \in Rows => row' \in Rows
        /\ row = NoAsset => row' = NoAsset
    <3>1. 0 \in 0..2
      OBVIOUS
    <3>2. row \in Rows => Finalized(f, TRUE) \in Rows /\ Finalized(f, FALSE) \in Rows
      BY <3>1 DEF Finalized, Rows, Keys
    <3> QED
      BY <1>17, <3>2 DEF LateUpdate, Owns, Has
  <2>1. TypeOK'
    BY <1>17, MediaAssumption, <2>0 DEF MediaIInv, LateUpdate, world, TypeOK
  <2>2. RowFacts'
    <3>1. CASE row' = row
      BY <1>17, <3>1 DEF LateUpdate, MediaIInv, RowFacts, Quiet, Stored, world
    <3>2. CASE row' # row
      <4>1. row \in Rows /\ row' \in Rows /\ row # NoAsset /\ row' # NoAsset
        BY <2>0, <3>2, MediaAssumption DEF MediaIInv, TypeOK
      <4>2. /\ row'.status = IF clean THEN "clean" ELSE "rejected"
            /\ row'.key = IF clean THEN f ELSE row.key
            /\ row'.mature = row.mature /\ row'.pass = 0 /\ row.status = "finalizing"
        BY ZenonT(40), <2>0, <3>2, <4>1 DEF Finalized, Rows, Owns, Has
      <4>3. UNCHANGED << object, finalizer, world >>
        BY <1>17 DEF LateUpdate
      <4>4. clean => object[f] = "committed" /\ finalizer[f] \in {"unsureClean", "release", "done"}
        BY <1>17, <2>0, <3>2 DEF LateUpdate, MediaIInv, FinalizerFacts, FinalizerFact
      <4>5. ~row.mature /\ window # "unissued"
        BY <4>1, <4>2 DEF MediaIInv, RowFacts
      <4> QED
        BY <4>1, <4>2, <4>3, <4>4, <4>5 DEF RowFacts, world
    <3> QED
      BY <3>1, <3>2
  <2>3. ASSUME NEW g \in Finalizers
        PROVE  FinalizerFact(g)'
    <3>1. UNCHANGED << finalizer, object, window >> /\ inflight' \subseteq inflight
      BY <1>17 DEF LateUpdate, world
    <3>2. CASE row' = row
      BY <3>1, <3>2 DEF MediaIInv, FinalizerFacts, FinalizerFact, Owns, Has, Settled
    <3>3. CASE row' # row
      <4>1. row \in Rows /\ row' \in Rows /\ row # NoAsset /\ row' # NoAsset
        BY <2>0, <3>3, MediaAssumption DEF MediaIInv, TypeOK
      <4>2. row'.status # "finalizing" /\ row'.token = NoToken /\ row.status = "finalizing"
        BY ZenonT(40), <2>0, <3>3, <4>1 DEF Finalized, Rows, Owns, Has
      <4>3. finalizer[g] # "cleanup" /\ g # NoToken
        BY <4>1, <4>2, MediaAssumption DEF MediaIInv, FinalizerFacts, FinalizerFact, Settled
      <4> QED
        BY <3>1, <4>1, <4>2, <4>3 DEF MediaIInv, FinalizerFacts, FinalizerFact, Owns, Has
    <3> QED
      BY <3>2, <3>3
  <2>4. CleanerFacts'
    BY <1>17, MediaAssumption, <2>0 DEF MediaIInv, LateUpdate, Owns, Has, world, CleanerFacts,
       CleanerFact, Quiet, Settled, Stored
  <2>5. DeleterFacts'
    BY <1>17, MediaAssumption, <2>0 DEF MediaIInv, LateUpdate, Owns, Has, world, DeleterFacts,
       DeleterFact, Quiet, Ending, Stored, Thorough
  <2>6. WorkspaceFacts'
    <3>1. /\ row # NoAsset => row' # NoAsset
          /\ row' # row => row # NoAsset /\ row.status \in {"finalizing", "clean"}
      BY <2>0, MediaAssumption DEF MediaIInv, TypeOK, Owns, Has
    <3>2. UNCHANGED << object, finalizer, world >>
      BY <1>17 DEF LateUpdate
    <3> QED
      BY <2>0, <3>1, <3>2 DEF MediaIInv, WorkspaceFacts, Ending, Gone, Quiet, Stored, world
  <2>7. ReferencedIsKept'
    BY ZenonT(40), <1>17, MediaAssumption, <2>0 DEF MediaIInv, LateUpdate, Owns, Has, Finalized, world,
       FinalizerFacts, FinalizerFact, RowFacts, ReferencedIsKept, TypeOK, Keys, Quiet, Settled,
       Stored, Rows
  <2> QED
    BY <2>1, <2>2, <2>3, <2>4, <2>5, <2>6, <2>7 DEF MediaIInv, FinalizerFacts
<1>18. ASSUME NEW f \in Finalizers, Reconcile(f)
      PROVE  MediaIInv'
  <2>1. TypeOK'
    BY <1>18, MediaAssumption DEF MediaIInv, Reconcile, Goes, world, TypeOK, FinalizerPcs
  <2>2. RowFacts'
    BY <1>18, MediaAssumption DEF MediaIInv, Reconcile, Goes, world, RowFacts, Quiet, Stored
  <2>3. ASSUME NEW g \in Finalizers
        PROVE  FinalizerFact(g)'
    <3>1. CASE g # f
      BY <1>18, MediaAssumption, <3>1 DEF MediaIInv, Reconcile, At, Goes, Committed, Has, world,
         FinalizerFacts, FinalizerFact, RowFacts, TypeOK, FinalizerPcs, Keys, Quiet, Settled,
         Owns, Stored, Rows
    <3>2. CASE g = f
      BY <1>18, MediaAssumption, <3>2 DEF MediaIInv, Reconcile, At, Goes, Committed, Has, world,
         FinalizerFacts, FinalizerFact, RowFacts, TypeOK, FinalizerPcs, Keys, Quiet, Settled,
         Owns, Stored, Rows
    <3> QED
      BY <3>1, <3>2
  <2>4. CleanerFacts'
    BY <1>18, MediaAssumption DEF MediaIInv, Reconcile, Goes, Has, world, CleanerFacts,
       CleanerFact, Quiet, Settled, Stored
  <2>5. DeleterFacts'
    BY <1>18, MediaAssumption DEF MediaIInv, Reconcile, Goes, world, DeleterFacts, DeleterFact,
       Quiet, Ending, Stored, Thorough
  <2>6. WorkspaceFacts'
    BY <1>18, MediaAssumption DEF MediaIInv, Reconcile, Goes, world, WorkspaceFacts, Quiet, Gone,
       Ending, Stored
  <2>7. ReferencedIsKept'
    BY <1>18, MediaAssumption DEF MediaIInv, Reconcile, world, ReferencedIsKept
  <2> QED
    BY <2>1, <2>2, <2>3, <2>4, <2>5, <2>6, <2>7 DEF MediaIInv, FinalizerFacts
<1>19. ASSUME NEW f \in Finalizers, ReconcileFails(f)
      PROVE  MediaIInv'
  <2>1. TypeOK'
    BY <1>19, MediaAssumption DEF MediaIInv, ReconcileFails, Goes, Mishap, world, TypeOK,
       FinalizerPcs
  <2>2. RowFacts'
    BY <1>19, MediaAssumption DEF MediaIInv, ReconcileFails, Goes, world, RowFacts, Quiet, Stored
  <2>3. ASSUME NEW g \in Finalizers
        PROVE  FinalizerFact(g)'
    <3>1. CASE g # f
      BY <1>19, MediaAssumption, <3>1 DEF MediaIInv, ReconcileFails, Goes, Mishap, world,
         FinalizerFacts, FinalizerFact, RowFacts, TypeOK, FinalizerPcs, Keys, Quiet, Settled,
         Owns, Has, Stored, Rows
    <3>2. CASE g = f
      BY <1>19, MediaAssumption, <3>2 DEF MediaIInv, ReconcileFails, Goes, Mishap, world,
         FinalizerFacts, FinalizerFact, RowFacts, TypeOK, FinalizerPcs, Keys, Quiet, Settled,
         Owns, Has, Stored, Rows
    <3> QED
      BY <3>1, <3>2
  <2>4. CleanerFacts'
    BY <1>19, MediaAssumption DEF MediaIInv, ReconcileFails, Goes, world, CleanerFacts,
       CleanerFact, Quiet, Settled, Has, Stored
  <2>5. DeleterFacts'
    BY <1>19, MediaAssumption DEF MediaIInv, ReconcileFails, Goes, world, DeleterFacts,
       DeleterFact, Quiet, Ending, Stored, Thorough
  <2>6. WorkspaceFacts'
    BY <1>19, MediaAssumption DEF MediaIInv, ReconcileFails, Goes, world, WorkspaceFacts, Quiet,
       Gone, Ending, Stored
  <2>7. ReferencedIsKept'
    BY <1>19, MediaAssumption DEF MediaIInv, ReconcileFails, world, ReferencedIsKept
  <2> QED
    BY <2>1, <2>2, <2>3, <2>4, <2>5, <2>6, <2>7 DEF MediaIInv, FinalizerFacts
<1>20. ASSUME NEW f \in Finalizers, ReleaseUnsure(f)
      PROVE  MediaIInv'
  <2>0. row \in Rows => row' \in Rows /\ row' # NoAsset
    <3>1. row' = Released(f)
      BY <1>20 DEF ReleaseUnsure
    <3>2. CASE Owns(f)
      <4>1. row' = [row EXCEPT !.status = "pending", !.token = NoToken]
        BY <3>1, <3>2 DEF Released
      <4> QED
        BY ZenonT(40), <4>1, MediaAssumption DEF Rows
    <3>3. CASE ~Owns(f)
      BY <3>1, <3>3, MediaAssumption DEF Released
    <3> QED
      BY <3>2, <3>3
  <2>1. TypeOK'
    BY <1>20, MediaAssumption, <2>0 DEF MediaIInv, ReleaseUnsure, Goes, Released, Owns, Has,
       world, TypeOK, FinalizerPcs
  <2>2. RowFacts'
    BY <1>20, MediaAssumption, <2>0 DEF MediaIInv, ReleaseUnsure, Goes, CleanupAllowed, Released,
       Owns, Has, world, RowFacts, Quiet, Stored
  <2>3. ASSUME NEW g \in Finalizers
        PROVE  FinalizerFact(g)'
    <3>1. CASE g # f
      BY <1>20, MediaAssumption, <2>0, <3>1 DEF MediaIInv, ReleaseUnsure, At, Goes,
         CleanupAllowed, Released, Owns, Has, world, FinalizerFacts, FinalizerFact, RowFacts,
         TypeOK, FinalizerPcs, Keys, Quiet, Settled, Stored, Rows
    <3>2. CASE g = f
      BY <1>20, MediaAssumption, <2>0, <3>2 DEF ReleaseUnsure, At, Goes, Released, Owns, Has,
         FinalizerFact
    <3> QED
      BY <3>1, <3>2
  <2>4. CleanerFacts'
    BY <1>20, MediaAssumption, <2>0 DEF MediaIInv, ReleaseUnsure, Goes, Released, Owns, Has,
       world, CleanerFacts, CleanerFact, Quiet, Settled, Stored
  <2>5. DeleterFacts'
    BY <1>20, MediaAssumption, <2>0 DEF MediaIInv, ReleaseUnsure, Goes, Released, Owns, Has,
       world, DeleterFacts, DeleterFact, Quiet, Ending, Stored, Thorough
  <2>6. WorkspaceFacts'
    BY <1>20, MediaAssumption, <2>0 DEF MediaIInv, ReleaseUnsure, Goes, Released, Owns, Has,
       world, WorkspaceFacts, TypeOK, Quiet, Gone, Ending, Stored, Rows
  <2>7. ReferencedIsKept'
    BY <1>20, MediaAssumption, <2>0 DEF MediaIInv, ReleaseUnsure, Released, world,
       ReferencedIsKept, TypeOK
  <2> QED
    BY <2>1, <2>2, <2>3, <2>4, <2>5, <2>6, <2>7 DEF MediaIInv, FinalizerFacts
<1>21. ASSUME NEW f \in Finalizers, DeleteCandidate(f)
      PROVE  MediaIInv'
  <2>1. TypeOK'
    BY <1>21, MediaAssumption DEF MediaIInv, DeleteCandidate, Goes, Deletes, Removed, Mishap,
       world, TypeOK, FinalizerPcs
  <2>2. RowFacts'
    BY <1>21, MediaAssumption DEF MediaIInv, DeleteCandidate, Goes, Deletes, Removed, world,
       RowFacts, Keys, Quiet, Stored
  <2>3. ASSUME NEW g \in Finalizers
        PROVE  FinalizerFact(g)'
    <3>1. CASE g # f
      <4>1. finalizer'[g] = finalizer[g] /\ UNCHANGED << row, inflight, window >>
        BY <1>21, <3>1 DEF DeleteCandidate, Goes, world
      <4>2. object'[g] = object[g]
        BY <1>21, <3>1 DEF DeleteCandidate, Deletes, Removed, Keys
      <4> QED
        BY <4>1, <4>2 DEF MediaIInv, FinalizerFacts, FinalizerFact, Owns, Has, Settled
    <3>2. CASE g = f
      BY <1>21, MediaAssumption, <3>2 DEF MediaIInv, DeleteCandidate, At, Goes, Deletes, Removed,
         Mishap, world, FinalizerFacts, FinalizerFact, RowFacts, TypeOK, FinalizerPcs, Keys,
         Quiet, Settled, Owns, Has, Stored, Rows
    <3> QED
      BY <3>1, <3>2
  <2>4. CleanerFacts'
    BY <1>21, MediaAssumption DEF MediaIInv, DeleteCandidate, Goes, Deletes, Removed, world,
       CleanerFacts, CleanerFact, Quiet, Settled, Has, Stored
  <2>5. DeleterFacts'
    BY <1>21, MediaAssumption DEF MediaIInv, DeleteCandidate, Goes, Deletes, Removed, world,
       DeleterFacts, DeleterFact, Quiet, Ending, Stored, Thorough
  <2>6. WorkspaceFacts'
    BY <1>21, MediaAssumption DEF MediaIInv, DeleteCandidate, Goes, Deletes, Removed, world,
       WorkspaceFacts, Quiet, Gone, Ending, Stored
  <2>7. ReferencedIsKept'
    BY <1>21, MediaAssumption DEF MediaIInv, DeleteCandidate, world, ReferencedIsKept
  <2> QED
    BY <2>1, <2>2, <2>3, <2>4, <2>5, <2>6, <2>7 DEF MediaIInv, FinalizerFacts
<1>22. ASSUME NEW f \in Finalizers, Release(f)
      PROVE  MediaIInv'
  <2>0. row \in Rows => row' \in Rows /\ row' # NoAsset
    <3>1. row' = Released(f)
      BY <1>22 DEF Release
    <3>2. CASE Owns(f)
      <4>1. row' = [row EXCEPT !.status = "pending", !.token = NoToken]
        BY <3>1, <3>2 DEF Released
      <4> QED
        BY ZenonT(40), <4>1, MediaAssumption DEF Rows
    <3>3. CASE ~Owns(f)
      BY <3>1, <3>3, MediaAssumption DEF Released
    <3> QED
      BY <3>2, <3>3
  <2>1. TypeOK'
    BY <1>22, MediaAssumption, <2>0 DEF MediaIInv, Release, Goes, Released, Owns, Has, world,
       TypeOK, FinalizerPcs
  <2>2. RowFacts'
    BY <1>22, MediaAssumption, <2>0 DEF MediaIInv, Release, Goes, Released, Owns, Has, world,
       RowFacts, Quiet, Stored
  <2>3. ASSUME NEW g \in Finalizers
        PROVE  FinalizerFact(g)'
    <3>1. CASE g # f
      BY <1>22, MediaAssumption, <2>0, <3>1 DEF MediaIInv, Release, At, Goes, Released, Owns, Has,
         world, FinalizerFacts, FinalizerFact, RowFacts, TypeOK, FinalizerPcs, Keys, Quiet,
         Settled, Stored, Rows
    <3>2. CASE g = f
      BY <1>22, MediaAssumption, <2>0, <3>2 DEF Release, At, Goes, Released, Owns, Has,
         FinalizerFact
    <3> QED
      BY <3>1, <3>2
  <2>4. CleanerFacts'
    BY <1>22, MediaAssumption, <2>0 DEF MediaIInv, Release, Goes, Released, Owns, Has, world,
       CleanerFacts, CleanerFact, Quiet, Settled, Stored
  <2>5. DeleterFacts'
    BY <1>22, MediaAssumption, <2>0 DEF MediaIInv, Release, Goes, Released, Owns, Has, world,
       DeleterFacts, DeleterFact, Quiet, Ending, Stored, Thorough
  <2>6. WorkspaceFacts'
    BY <1>22, MediaAssumption, <2>0 DEF MediaIInv, Release, Goes, Released, Owns, Has, world,
       WorkspaceFacts, TypeOK, Quiet, Gone, Ending, Stored
  <2>7. ReferencedIsKept'
    BY <1>22, MediaAssumption, <2>0 DEF MediaIInv, Release, Released, world, ReferencedIsKept,
       TypeOK
  <2> QED
    BY <2>1, <2>2, <2>3, <2>4, <2>5, <2>6, <2>7 DEF MediaIInv, FinalizerFacts
<1>23. ASSUME NEW f \in Finalizers, CleanupInline(f)
      PROVE  MediaIInv'
  <2>0. /\ row' = row \/ (row' = [row EXCEPT !.pass = 1, !.due = FALSE] /\ Has("clean"))
        /\ row \in Rows => row' \in Rows
        /\ row = NoAsset => row' = NoAsset
    <3>1. 1 \in 0..2
      OBVIOUS
    <3>2. row' = row \/ (row' = [row EXCEPT !.pass = 1, !.due = FALSE] /\ Has("clean"))
      BY <1>23 DEF CleanupInline
    <3> QED
      BY <3>1, <3>2 DEF Rows, Has
  <2>1. TypeOK'
    BY <1>23, MediaAssumption, <2>0 DEF MediaIInv, CleanupInline, Goes, Deletes, Removed, Mishap,
       world, TypeOK, FinalizerPcs
  <2>2. RowFacts'
    <3>1. UNCHANGED world /\ finalizer' = [finalizer EXCEPT ![f] = "done"] /\ At(f, "cleanup")
      BY <1>23 DEF CleanupInline, Goes
    <3>2. \A k \in Keys : object'[k] = object[k] \/ (object'[k] = "none" /\ k # f)
      BY <1>23 DEF CleanupInline, Deletes, Removed
    <3>3. row # NoAsset => /\ row' # NoAsset /\ row'.status = row.status /\ row'.key = row.key
                           /\ row'.mature = row.mature
                           /\ row' = row \/ (row'.pass = 1 /\ ~row'.due)
      BY <2>0, MediaAssumption DEF MediaIInv, TypeOK, Rows
    <3>4. Stored' \subseteq Stored
      BY <3>2 DEF Stored
    <3>5. Quiet => Quiet'
      BY <3>1 DEF Quiet, world
    <3>6. Has("clean") => row.key = f
      BY <3>1 DEF At, MediaIInv, FinalizerFacts, FinalizerFact
    <3>7. Has("clean") => object'[row.key] = object[row.key] /\ finalizer'[row.key] = "done"
      BY <3>1, <3>2, <3>6 DEF Keys, MediaIInv, TypeOK
    <3> QED
      BY <2>0, <3>1, <3>3, <3>4, <3>5, <3>6, <3>7 DEF MediaIInv, RowFacts, world, Has
  <2>3. ASSUME NEW g \in Finalizers
        PROVE  FinalizerFact(g)'
    <3>1. UNCHANGED << inflight, window >> /\ finalizer' = [finalizer EXCEPT ![f] = "done"]
      BY <1>23 DEF CleanupInline, Goes, world
    <3>2. Settled
      BY <1>23 DEF CleanupInline, At, MediaIInv, FinalizerFacts, FinalizerFact
    <3>3. /\ row # NoAsset => row' # NoAsset /\ row'.status = row.status /\ row'.key = row.key
                              /\ row'.token = row.token
          /\ row = NoAsset => row' = NoAsset
      BY <2>0, MediaAssumption DEF MediaIInv, TypeOK, Rows
    <3>4. ~Owns(g)' /\ Settled'
      BY <3>1, <3>2, <3>3 DEF Owns, Has, Settled
    <3> QED
      BY <1>23, <3>1, <3>3, <3>4 DEF CleanupInline, At, MediaIInv, TypeOK, FinalizerFacts,
         FinalizerFact, Has
  <2>4. CleanerFacts'
    BY <1>23, MediaAssumption, <2>0 DEF MediaIInv, CleanupInline, Goes, Deletes, Removed, Has,
       world, RowFacts, CleanerFacts, CleanerFact, Quiet, Settled, Stored
  <2>5. DeleterFacts'
    BY <1>23, MediaAssumption, <2>0 DEF MediaIInv, CleanupInline, Goes, Deletes, Removed, world,
       DeleterFacts, DeleterFact, Quiet, Ending, Stored, Thorough
  <2>6. WorkspaceFacts'
    <3>1. /\ row # NoAsset => row' # NoAsset
          /\ row' # row => row # NoAsset /\ row.status = "clean"
      BY <2>0, MediaAssumption DEF MediaIInv, TypeOK, Has
    <3>2. UNCHANGED world /\ finalizer' = [finalizer EXCEPT ![f] = "done"]
      BY <1>23 DEF CleanupInline, Goes
    <3>3. Stored' \subseteq Stored
      BY <1>23 DEF CleanupInline, Deletes, Removed, Stored
    <3>4. (Quiet => Quiet') /\ (Gone => Gone')
      BY <3>2, <3>3 DEF Quiet, Gone, world
    <3> QED
      BY <2>0, <3>1, <3>2, <3>4 DEF MediaIInv, WorkspaceFacts, Ending, world
  <2>7. ReferencedIsKept'
    BY <1>23, MediaAssumption, <2>0 DEF MediaIInv, CleanupInline, At, Goes, Deletes, Removed,
       Mishap, Has, world, FinalizerFacts, FinalizerFact, RowFacts, ReferencedIsKept, TypeOK,
       Keys, Quiet, Settled, Owns, Stored, Rows
  <2> QED
    BY <2>1, <2>2, <2>3, <2>4, <2>5, <2>6, <2>7 DEF MediaIInv, FinalizerFacts
<1>24. ASSUME NEW f \in Finalizers, CrashFinalizer(f)
      PROVE  MediaIInv'
  <2>1. TypeOK'
    BY <1>24, MediaAssumption DEF MediaIInv, CrashFinalizer, Goes, Mishap, world, TypeOK,
       FinalizerPcs
  <2>2. RowFacts'
    BY <1>24, MediaAssumption DEF MediaIInv, CrashFinalizer, Goes, world, RowFacts, Quiet, Stored
  <2>3. ASSUME NEW g \in Finalizers
        PROVE  FinalizerFact(g)'
    <3>1. CASE g # f
      BY <1>24, MediaAssumption, <3>1 DEF MediaIInv, CrashFinalizer, Goes, Mishap, world,
         FinalizerFacts, FinalizerFact, RowFacts, TypeOK, FinalizerPcs, Keys, Quiet, Settled,
         Owns, Has, Stored, Rows
    <3>2. CASE g = f
      BY <1>24, MediaAssumption, <3>2 DEF MediaIInv, CrashFinalizer, Goes, Mishap, world,
         FinalizerFacts, FinalizerFact, RowFacts, TypeOK, FinalizerPcs, Keys, Quiet, Settled,
         Owns, Has, Stored, Rows
    <3> QED
      BY <3>1, <3>2
  <2>4. CleanerFacts'
    BY <1>24, MediaAssumption DEF MediaIInv, CrashFinalizer, Goes, world, CleanerFacts,
       CleanerFact, Quiet, Settled, Has, Stored
  <2>5. DeleterFacts'
    BY <1>24, MediaAssumption DEF MediaIInv, CrashFinalizer, Goes, world, DeleterFacts,
       DeleterFact, Quiet, Ending, Stored, Thorough
  <2>6. WorkspaceFacts'
    BY <1>24, MediaAssumption DEF MediaIInv, CrashFinalizer, Goes, world, WorkspaceFacts, Quiet,
       Gone, Ending, Stored
  <2>7. ReferencedIsKept'
    BY <1>24, MediaAssumption DEF MediaIInv, CrashFinalizer, world, ReferencedIsKept
  <2> QED
    BY <2>1, <2>2, <2>3, <2>4, <2>5, <2>6, <2>7 DEF MediaIInv, FinalizerFacts
<1>25. ASSUME NEW c \in Cleaners, ClaimCleanup(c)
      PROVE  MediaIInv'
  <2>0. row \in Rows /\ row' \in Rows
    BY <1>25, MediaAssumption DEF MediaIInv, TypeOK, Rows, Keys, Has, ClaimCleanup, world
  <2>1. TypeOK'
    BY <1>25, MediaAssumption, <2>0 DEF MediaIInv, ClaimCleanup, world, TypeOK, Rows
  <2>2. RowFacts'
    BY <1>25, MediaAssumption, <2>0 DEF MediaIInv, ClaimCleanup, world, RowFacts, Quiet
  <2>3. ASSUME NEW g \in Finalizers
        PROVE  FinalizerFact(g)'
    BY <1>25, MediaAssumption, <2>0 DEF MediaIInv, ClaimCleanup, Has, world, FinalizerFacts,
       FinalizerFact, RowFacts, TypeOK, FinalizerPcs, Keys, Quiet, Settled, Owns, Stored, Rows
  <2>4. CleanerFacts'
    BY <1>25, MediaAssumption, <2>0 DEF MediaIInv, ClaimCleanup, Has, world, RowFacts,
       CleanerFacts, CleanerFact, Quiet, Settled, Stored
  <2>5. DeleterFacts'
    BY <1>25, MediaAssumption, <2>0 DEF MediaIInv, ClaimCleanup, world, DeleterFacts, DeleterFact,
       Quiet, Ending, Stored, Thorough
  <2>6. WorkspaceFacts'
    BY <1>25, MediaAssumption, <2>0 DEF MediaIInv, ClaimCleanup, Has, world, RowFacts,
       WorkspaceFacts, TypeOK, Keys, Quiet, Gone, Ending, Stored, Rows
  <2>7. ReferencedIsKept'
    BY <1>25, MediaAssumption, <2>0 DEF MediaIInv, ClaimCleanup, Has, world, FinalizerFacts,
       FinalizerFact, RowFacts, ReferencedIsKept, TypeOK, Keys, Quiet, Settled, Owns, Stored, Rows
  <2> QED
    BY <2>1, <2>2, <2>3, <2>4, <2>5, <2>6, <2>7 DEF MediaIInv, FinalizerFacts
<1>26. ASSUME NEW c \in Cleaners, RenewCleanup(c)
      PROVE  MediaIInv'
  <2>0. /\ row' = row \/ (row' = [row EXCEPT !.claimLapsed = FALSE] /\ Has("clean"))
        /\ row \in Rows => row' \in Rows
        /\ row = NoAsset => row' = NoAsset
    <3>2. row' = row \/ (row' = [row EXCEPT !.claimLapsed = FALSE] /\ Has("clean"))
      BY <1>26 DEF RenewCleanup, HoldsClaim
    <3> QED
      BY <3>2 DEF Rows, Has
  <2>1. TypeOK'
    <3>1. cleaner' \in [Cleaners -> Cleanings]
      <4>1. cleaner \in [Cleaners -> Cleanings] /\ cleaner[c] \in Cleanings
        BY DEF MediaIInv, TypeOK, Cleanings
      <4>2. PICK pc \in {"list", "delete", "failed"} : cleaner' = [cleaner EXCEPT ![c] = [@ EXCEPT !.pc = pc]]
        BY <1>26, <4>1 DEF RenewCleanup
      <4>3. [cleaner[c] EXCEPT !.pc = pc] \in Cleanings
        BY <4>1 DEF Cleanings
      <4> QED
        BY <4>1, <4>2, <4>3
    <3> QED
      BY <1>26, <2>0, <3>1 DEF RenewCleanup, world, MediaIInv, TypeOK, Cleanings
  <2>2. RowFacts'
    BY <1>26, MediaAssumption, <2>0 DEF MediaIInv, RenewCleanup, world, RowFacts, TypeOK, Keys,
       Quiet, Stored, Rows
  <2>3. ASSUME NEW g \in Finalizers
        PROVE  FinalizerFact(g)'
    <3>1. /\ row # NoAsset => row' # NoAsset /\ row'.status = row.status /\ row'.key = row.key
                              /\ row'.token = row.token
          /\ row = NoAsset => row' = NoAsset
      BY <2>0, MediaAssumption DEF MediaIInv, TypeOK, Rows
    <3>2. UNCHANGED << finalizer, inflight, object, window >>
      BY <1>26 DEF RenewCleanup, world
    <3> QED
      BY <3>1, <3>2 DEF MediaIInv, FinalizerFacts, FinalizerFact, Owns, Has, Settled
  <2>4. CleanerFacts'
    <3>1. /\ row # NoAsset => row' # NoAsset /\ row'.status = row.status /\ row'.key = row.key
          /\ row = NoAsset => row' = NoAsset
      BY <2>0, MediaAssumption DEF MediaIInv, TypeOK, Rows
    <3>2. UNCHANGED << finalizer, object, world >>
      BY <1>26 DEF RenewCleanup
    <3>3. /\ cleaner[c].pc \in {"claimed", "listed"}
          /\ cleaner'[c].pc \in {"list", "delete", "failed"}
          /\ cleaner'[c].pc = "delete" => cleaner[c].pc = "listed"
          /\ cleaner'[c].key = cleaner[c].key /\ cleaner'[c].pass = cleaner[c].pass
          /\ cleaner'[c].keys = cleaner[c].keys
          /\ \A e \in Cleaners \ {c} : cleaner'[e] = cleaner[e]
      BY <1>26 DEF RenewCleanup, MediaIInv, TypeOK
    <3>4. (Settled => Settled') /\ (Quiet => Quiet') /\ Stored' = Stored
      BY <3>1, <3>2 DEF Settled, Quiet, Stored, world
    <3>5. ASSUME NEW e \in Cleaners
          PROVE  CleanerFact(e)'
      BY <3>1, <3>3, <3>4 DEF MediaIInv, CleanerFacts, CleanerFact, Has
    <3> QED
      BY <3>5 DEF CleanerFacts
  <2>5. DeleterFacts'
    BY <1>26, MediaAssumption, <2>0 DEF MediaIInv, RenewCleanup, Has, world, DeleterFacts,
       DeleterFact, Quiet, Ending, Stored, Thorough
  <2>6. WorkspaceFacts'
    BY <1>26, MediaAssumption, <2>0 DEF MediaIInv, RenewCleanup, world, WorkspaceFacts, TypeOK,
       Quiet, Gone, Ending, Stored, Rows
  <2>7. ReferencedIsKept'
    BY <1>26, MediaAssumption, <2>0 DEF MediaIInv, RenewCleanup, world, ReferencedIsKept, TypeOK,
       Rows
  <2> QED
    BY <2>1, <2>2, <2>3, <2>4, <2>5, <2>6, <2>7 DEF MediaIInv, FinalizerFacts
<1>27. ASSUME NEW c \in Cleaners, ListCleanup(c)
      PROVE  MediaIInv'
  <2>1. TypeOK'
    <3>1. cleaner' \in [Cleaners -> Cleanings]
      <4>1. cleaner \in [Cleaners -> Cleanings] /\ cleaner[c] \in Cleanings
        BY DEF MediaIInv, TypeOK, Cleanings
      <4>2. KeysToDelete(c) \in SUBSET Keys
        BY DEF KeysToDelete, Stored
      <4>3. cleaner' = [cleaner EXCEPT ![c] = [cleaner[c] EXCEPT !.pc = "listed", !.keys = KeysToDelete(c)]]
        BY <1>27, <4>1 DEF ListCleanup
      <4>4. [cleaner[c] EXCEPT !.pc = "listed", !.keys = KeysToDelete(c)] \in Cleanings
        BY <4>1, <4>2 DEF Cleanings
      <4> QED
        BY <4>1, <4>3, <4>4
    <3> QED
      BY <1>27, <3>1 DEF ListCleanup, Tagged, world, MediaIInv, TypeOK, Cleanings
  <2>2. RowFacts'
    BY <1>27, MediaAssumption DEF MediaIInv, ListCleanup, Tagged, world, RowFacts, Quiet, Stored
  <2>3. ASSUME NEW g \in Finalizers
        PROVE  FinalizerFact(g)'
    BY <1>27, MediaAssumption DEF MediaIInv, ListCleanup, Tagged, KeysToDelete, world,
       FinalizerFacts, FinalizerFact, RowFacts, TypeOK, FinalizerPcs, Keys, Quiet, Settled, Owns,
       Has, Stored, Rows
  <2>4. CleanerFacts'
    BY <1>27, MediaAssumption DEF MediaIInv, ListCleanup, Tagged, KeysToDelete, world,
       CleanerFacts, CleanerFact, TypeOK, Quiet, Settled, Has, Stored
  <2>5. DeleterFacts'
    BY <1>27, MediaAssumption DEF MediaIInv, ListCleanup, Tagged, world, DeleterFacts,
       DeleterFact, Quiet, Ending, Stored, Thorough
  <2>6. WorkspaceFacts'
    BY <1>27, MediaAssumption DEF MediaIInv, ListCleanup, Tagged, world, WorkspaceFacts, Quiet,
       Gone, Ending, Stored
  <2>7. ReferencedIsKept'
    BY <1>27, MediaAssumption DEF MediaIInv, ListCleanup, world, ReferencedIsKept
  <2> QED
    BY <2>1, <2>2, <2>3, <2>4, <2>5, <2>6, <2>7 DEF MediaIInv, FinalizerFacts
<1>28. ASSUME NEW c \in Cleaners, DeleteCleanup(c)
      PROVE  MediaIInv'
  <2>1. TypeOK'
    BY <1>28, MediaAssumption DEF MediaIInv, DeleteCleanup, Deletes, Removed, Mishap, world,
       TypeOK, FinalizerPcs
  <2>2. RowFacts'
    BY <1>28, MediaAssumption DEF MediaIInv, DeleteCleanup, Deletes, Removed, world, RowFacts,
       CleanerFacts, CleanerFact, Keys, Quiet, Has, Stored
  <2>3. ASSUME NEW g \in Finalizers
        PROVE  FinalizerFact(g)'
    BY <1>28, MediaAssumption DEF MediaIInv, DeleteCleanup, Deletes, Removed, Mishap, world,
       FinalizerFacts, FinalizerFact, RowFacts, CleanerFacts, CleanerFact, DeleterFacts,
       DeleterFact, WorkspaceFacts, ReferencedIsKept, TypeOK, FinalizerPcs, Keys, Quiet, Gone,
       Ending, Settled, Owns, Has, Stored, Thorough, Rows
  <2>4. CleanerFacts'
    BY <1>28, MediaAssumption DEF MediaIInv, DeleteCleanup, Deletes, Removed, world, CleanerFacts,
       CleanerFact, Quiet, Settled, Has, Stored
  <2>5. DeleterFacts'
    BY <1>28, MediaAssumption DEF MediaIInv, DeleteCleanup, Deletes, Removed, world, DeleterFacts,
       DeleterFact, Quiet, Ending, Stored, Thorough
  <2>6. WorkspaceFacts'
    BY <1>28, MediaAssumption DEF MediaIInv, DeleteCleanup, Deletes, Removed, world,
       WorkspaceFacts, Quiet, Gone, Ending, Stored
  <2>7. ReferencedIsKept'
    BY <1>28, MediaAssumption DEF MediaIInv, DeleteCleanup, world, ReferencedIsKept
  <2> QED
    BY <2>1, <2>2, <2>3, <2>4, <2>5, <2>6, <2>7 DEF MediaIInv, FinalizerFacts
<1>29. ASSUME NEW c \in Cleaners, CompleteCleanup(c)
      PROVE  MediaIInv'
  <2>0. /\ \/ row' = row
           \/ /\ HoldsClaim(c) /\ cleaner[c].pc = "complete"
              /\ row' = [row EXCEPT !.pass = @ + 1, !.due = FALSE, !.claim = NoToken]
        /\ row \in Rows => row' \in Rows
        /\ row = NoAsset => row' = NoAsset
    <3>2. \/ row' = row
          \/ /\ HoldsClaim(c) /\ cleaner[c].pc = "complete"
             /\ row' = [row EXCEPT !.pass = @ + 1, !.due = FALSE, !.claim = NoToken]
      BY <1>29 DEF CompleteCleanup
    <3>3. HoldsClaim(c) /\ row \in Rows /\ cleaner[c].pc = "complete" => row.pass + 1 \in 0..2
      BY DEF MediaIInv, CleanerFacts, CleanerFact, HoldsClaim, Rows
    <3> QED
      BY <3>2, <3>3 DEF Rows, HoldsClaim, Has
  <2>1. TypeOK'
    BY <1>29, MediaAssumption, <2>0 DEF MediaIInv, CompleteCleanup, IdleCleaner, world, TypeOK,
       Keys
  <2>2. RowFacts'
    BY <1>29, MediaAssumption, <2>0 DEF MediaIInv, CompleteCleanup, HoldsClaim, world, RowFacts,
       CleanerFacts, CleanerFact, TypeOK, Quiet, Stored
  <2>3. ASSUME NEW g \in Finalizers
        PROVE  FinalizerFact(g)'
    BY <1>29, MediaAssumption, <2>0 DEF MediaIInv, CompleteCleanup, HoldsClaim, Has, IdleCleaner,
       world, FinalizerFacts, FinalizerFact, RowFacts, TypeOK, FinalizerPcs, Keys, Quiet, Settled,
       Owns, Stored, Rows
  <2>4. CleanerFacts'
    BY <1>29, MediaAssumption, <2>0 DEF MediaIInv, CompleteCleanup, Has, IdleCleaner, world,
       RowFacts, CleanerFacts, CleanerFact, Quiet, Settled, Stored
  <2>5. DeleterFacts'
    BY <1>29, MediaAssumption, <2>0 DEF MediaIInv, CompleteCleanup, world, DeleterFacts,
       DeleterFact, Quiet, Ending, Stored, Thorough
  <2>6. WorkspaceFacts'
    <3>1. /\ row # NoAsset => row' # NoAsset
          /\ row' # row => row # NoAsset /\ row.status \in {"finalizing", "clean"}
      BY <2>0, MediaAssumption DEF MediaIInv, TypeOK, HoldsClaim, Has
    <3>2. UNCHANGED << object, finalizer, world >>
      BY <1>29 DEF CompleteCleanup
    <3> QED
      BY <2>0, <3>1, <3>2 DEF MediaIInv, WorkspaceFacts, Ending, Gone, Quiet, Stored, world
  <2>7. ReferencedIsKept'
    BY <1>29, MediaAssumption, <2>0 DEF MediaIInv, CompleteCleanup, HoldsClaim, Has, IdleCleaner,
       world, FinalizerFacts, FinalizerFact, RowFacts, ReferencedIsKept, TypeOK, Keys, Quiet,
       Settled, Owns, Stored, Rows
  <2> QED
    BY <2>1, <2>2, <2>3, <2>4, <2>5, <2>6, <2>7 DEF MediaIInv, FinalizerFacts
<1>30. ASSUME NEW c \in Cleaners, DeferCleanup(c)
      PROVE  MediaIInv'
  <2>0. /\ row' = row \/ (row' = [row EXCEPT !.due = FALSE, !.claim = NoToken] /\ Has("clean"))
        /\ row \in Rows => row' \in Rows
        /\ row = NoAsset => row' = NoAsset
    <3>2. row' = row \/ (row' = [row EXCEPT !.due = FALSE, !.claim = NoToken] /\ Has("clean"))
      BY <1>30 DEF DeferCleanup, HoldsClaim
    <3> QED
      BY <3>2 DEF Rows, Has
  <2>1. TypeOK'
    BY <1>30, MediaAssumption, <2>0 DEF MediaIInv, DeferCleanup, IdleCleaner, world, TypeOK, Keys
  <2>2. RowFacts'
    BY <1>30, MediaAssumption, <2>0 DEF MediaIInv, DeferCleanup, world, RowFacts, Quiet, Stored
  <2>3. ASSUME NEW g \in Finalizers
        PROVE  FinalizerFact(g)'
    BY <1>30, MediaAssumption, <2>0 DEF MediaIInv, DeferCleanup, HoldsClaim, Has, IdleCleaner,
       world, FinalizerFacts, FinalizerFact, RowFacts, TypeOK, FinalizerPcs, Keys, Quiet, Settled,
       Owns, Stored, Rows
  <2>4. CleanerFacts'
    BY <1>30, MediaAssumption, <2>0 DEF MediaIInv, DeferCleanup, Has, IdleCleaner, world,
       RowFacts, CleanerFacts, CleanerFact, Quiet, Settled, Stored
  <2>5. DeleterFacts'
    BY <1>30, MediaAssumption, <2>0 DEF MediaIInv, DeferCleanup, world, DeleterFacts, DeleterFact,
       Quiet, Ending, Stored, Thorough
  <2>6. WorkspaceFacts'
    <3>1. /\ row # NoAsset => row' # NoAsset
          /\ row' # row => row # NoAsset /\ row.status \in {"finalizing", "clean"}
      BY <2>0, MediaAssumption DEF MediaIInv, TypeOK, Has
    <3>2. UNCHANGED << object, finalizer, world >>
      BY <1>30 DEF DeferCleanup
    <3> QED
      BY <2>0, <3>1, <3>2 DEF MediaIInv, WorkspaceFacts, Ending, Gone, Quiet, Stored, world
  <2>7. ReferencedIsKept'
    BY <1>30, MediaAssumption, <2>0 DEF MediaIInv, DeferCleanup, HoldsClaim, Has, IdleCleaner,
       world, FinalizerFacts, FinalizerFact, RowFacts, ReferencedIsKept, TypeOK, Keys, Quiet,
       Settled, Owns, Stored, Rows
  <2> QED
    BY <2>1, <2>2, <2>3, <2>4, <2>5, <2>6, <2>7 DEF MediaIInv, FinalizerFacts
<1>31. ASSUME NEW c \in Cleaners, CrashCleaner(c)
      PROVE  MediaIInv'
  <2>1. TypeOK'
    BY <1>31, MediaAssumption DEF MediaIInv, CrashCleaner, IdleCleaner, Mishap, world, TypeOK,
       Keys
  <2>2. RowFacts'
    BY <1>31, MediaAssumption DEF MediaIInv, CrashCleaner, world, RowFacts, Quiet, Stored
  <2>3. ASSUME NEW g \in Finalizers
        PROVE  FinalizerFact(g)'
    BY <1>31, MediaAssumption DEF MediaIInv, CrashCleaner, IdleCleaner, Mishap, world,
       FinalizerFacts, FinalizerFact, RowFacts, TypeOK, FinalizerPcs, Keys, Quiet, Settled, Owns,
       Has, Stored, Rows
  <2>4. CleanerFacts'
    BY <1>31, MediaAssumption DEF MediaIInv, CrashCleaner, IdleCleaner, world, CleanerFacts,
       CleanerFact, Quiet, Settled, Has, Stored
  <2>5. DeleterFacts'
    BY <1>31, MediaAssumption DEF MediaIInv, CrashCleaner, world, DeleterFacts, DeleterFact,
       Quiet, Ending, Stored, Thorough
  <2>6. WorkspaceFacts'
    BY <1>31, MediaAssumption DEF MediaIInv, CrashCleaner, world, WorkspaceFacts, Quiet, Gone,
       Ending, Stored
  <2>7. ReferencedIsKept'
    BY <1>31, MediaAssumption DEF MediaIInv, CrashCleaner, world, ReferencedIsKept
  <2> QED
    BY <2>1, <2>2, <2>3, <2>4, <2>5, <2>6, <2>7 DEF MediaIInv, FinalizerFacts
<1>32. ASSUME NEW d \in Deleters, NEW for \in {"request", "retention"}, ClaimDeletion(d, for)
      PROVE  MediaIInv'
  <2>0. row \in Rows /\ row' \in Rows
    BY <1>32, MediaAssumption DEF MediaIInv, TypeOK, Rows, Keys, Has, ClaimDeletion, MayDelete,
       Tombstone, world
  <2>1. TypeOK'
    BY <1>32, MediaAssumption, <2>0 DEF MediaIInv, ClaimDeletion, world, TypeOK, Rows
  <2>2. RowFacts'
    BY <1>32, MediaAssumption, <2>0 DEF MediaIInv, ClaimDeletion, Tombstone, world, RowFacts,
       Quiet
  <2>3. ASSUME NEW g \in Finalizers
        PROVE  FinalizerFact(g)'
    BY <1>32, MediaAssumption, <2>0 DEF MediaIInv, ClaimDeletion, MayDelete, Tombstone, world,
       FinalizerFacts, FinalizerFact, RowFacts, TypeOK, FinalizerPcs, Keys, Quiet, Settled, Owns,
       Has, Stored, Rows
  <2>4. CleanerFacts'
    BY <1>32, MediaAssumption, <2>0 DEF MediaIInv, ClaimDeletion, Tombstone, world, RowFacts,
       CleanerFacts, CleanerFact, Quiet, Settled, Has, Stored
  <2>5. DeleterFacts'
    BY <1>32, MediaAssumption, <2>0 DEF MediaIInv, ClaimDeletion, Tombstone, world, RowFacts,
       DeleterFacts, DeleterFact, Quiet, Ending, Stored, Thorough
  <2>6. WorkspaceFacts'
    <3>1. row # NoAsset /\ row' # NoAsset /\ row'.status = "deleting"
      BY <1>32, <2>0, MediaAssumption DEF ClaimDeletion, Tombstone, Rows
    <3>2. UNCHANGED << object, finalizer, world >>
      BY <1>32 DEF ClaimDeletion
    <3> QED
      BY <3>1, <3>2 DEF MediaIInv, WorkspaceFacts, Ending, Gone, Quiet, Stored, world
  <2>7. ReferencedIsKept'
    BY <1>32, MediaAssumption, <2>0 DEF ClaimDeletion, MayDelete, world, ReferencedIsKept
  <2> QED
    BY <2>1, <2>2, <2>3, <2>4, <2>5, <2>6, <2>7 DEF MediaIInv, FinalizerFacts
<1>33. ASSUME NEW d \in Deleters, ClaimWorkspaceDeletion(d)
      PROVE  MediaIInv'
  <2>0. /\ row = NoAsset \/ row \in Rows
        /\ row = NoAsset => row' = NoAsset /\ job' = job
        /\ row # NoAsset => row' \in Rows /\ row' # NoAsset /\ row'.status = "deleting"
                            /\ row'.mature = row.mature /\ job' # "none" /\ (job' = "due" => job = "due")
    <3>1. row = NoAsset \/ row \in Rows
      BY DEF MediaIInv, TypeOK
    <3>2. row \in Rows => Tombstone \in Rows /\ Tombstone.status = "deleting" /\ Tombstone.mature = row.mature
      BY DEF Tombstone, Rows
    <3> QED
      BY <1>33, <3>1, <3>2, MediaAssumption DEF ClaimWorkspaceDeletion
  <2>1. TypeOK'
    <3>1. deleter' \in [Deleters -> Deletions]
      <4>1. deleter \in [Deleters -> Deletions] /\ deleter[d] \in Deletions
        BY DEF MediaIInv, TypeOK, Deletions
      <4>2. PICK pc \in {"list", "deleteAccount"} :
              deleter' = [deleter EXCEPT ![d] = [deleter[d] EXCEPT !.pc = pc, !.for = "account"]]
        BY <1>33, <4>1 DEF ClaimWorkspaceDeletion
      <4>3. [deleter[d] EXCEPT !.pc = pc, !.for = "account"] \in Deletions
        BY <4>1 DEF Deletions
      <4> QED
        BY <4>1, <4>2, <4>3
    <3>2. row' \in Rows \cup {NoAsset} /\ job' \in {"none", "waiting", "due"}
      BY <1>33, <2>0 DEF ClaimWorkspaceDeletion, MediaIInv, TypeOK
    <3> QED
      BY <1>33, <3>1, <3>2 DEF ClaimWorkspaceDeletion, MediaIInv, TypeOK
  <2>2. RowFacts'
    <3>1. UNCHANGED << object, finalizer, window >>
      BY <1>33 DEF ClaimWorkspaceDeletion
    <3> QED
      BY <2>0, <3>1 DEF MediaIInv, RowFacts, Quiet
  <2>3. ASSUME NEW g \in Finalizers
        PROVE  FinalizerFact(g)'
    <3>1. UNCHANGED << object, finalizer, inflight, window >>
      BY <1>33 DEF ClaimWorkspaceDeletion
    <3>2. row \in Rows => row'.token = NoToken
      BY <1>33, <2>0, MediaAssumption DEF ClaimWorkspaceDeletion, Tombstone, Rows
    <3> QED
      BY <2>0, <3>1, <3>2, MediaAssumption DEF MediaIInv, FinalizerFacts, FinalizerFact, Owns,
         Has, Settled
  <2>4. CleanerFacts'
    <3>1. UNCHANGED << object, finalizer, cleaner, window >>
      BY <1>33 DEF ClaimWorkspaceDeletion
    <3>2. (Settled => Settled') /\ (Quiet => Quiet') /\ Stored' = Stored /\ ~Has("clean")' 
      BY <2>0, <3>1 DEF Settled, Quiet, Stored, Has
    <3>3. ASSUME NEW e \in Cleaners
          PROVE  CleanerFact(e)'
      BY <3>1, <3>2 DEF MediaIInv, CleanerFacts, CleanerFact
    <3> QED
      BY <3>3 DEF CleanerFacts
  <2>5. DeleterFacts'
    <3>1. UNCHANGED << object, finalizer, window >> /\ workspace' # "live"
      BY <1>33 DEF ClaimWorkspaceDeletion
    <3>2. /\ deleter'[d].for = "account" /\ deleter'[d].pc \in {"list", "deleteAccount"}
          /\ \A e \in Deleters \ {d} : deleter'[e] = deleter[e]
      BY <1>33 DEF ClaimWorkspaceDeletion, MediaIInv, TypeOK
    <3>3. Ending' /\ (Quiet => Quiet') /\ Stored' = Stored
      BY <2>0, <3>1 DEF Ending, Quiet, Stored
    <3>4. ASSUME NEW e \in Deleters
          PROVE  DeleterFact(e)'
      BY <3>1, <3>2, <3>3 DEF MediaIInv, DeleterFacts, DeleterFact, Thorough
    <3> QED
      BY <3>4 DEF DeleterFacts
  <2>6. WorkspaceFacts'
    <3>1. UNCHANGED << object, finalizer, window >> /\ workspace' = "deleting"
      BY <1>33 DEF ClaimWorkspaceDeletion
    <3> QED
      BY <2>0, <3>1 DEF MediaIInv, RowFacts, WorkspaceFacts, Ending, Gone, Quiet, Stored
  <2>7. ReferencedIsKept'
    BY <1>33, MediaAssumption, <2>0 DEF ClaimWorkspaceDeletion, ReferencedIsKept
  <2> QED
    BY <2>1, <2>2, <2>3, <2>4, <2>5, <2>6, <2>7 DEF MediaIInv, FinalizerFacts
<1>34. ASSUME NEW d \in Deleters, BeginSweep(d)
      PROVE  MediaIInv'
  <2>1. TypeOK'
    <3>1. deleter' \in [Deleters -> Deletions]
      <4>1. deleter \in [Deleters -> Deletions] /\ deleter[d] \in Deletions
        BY DEF MediaIInv, TypeOK, Deletions
      <4>3. deleter' = [deleter EXCEPT ![d] = [deleter[d] EXCEPT !.pc = "list", !.for = "sweep"]]
        BY <1>34, <4>1 DEF BeginSweep
      <4>4. [deleter[d] EXCEPT !.pc = "list", !.for = "sweep"] \in Deletions
        BY <4>1 DEF Deletions
      <4> QED
        BY <4>1, <4>3, <4>4
    <3> QED
      BY <1>34, <3>1 DEF BeginSweep, world, MediaIInv, TypeOK, Deletions
  <2>2. RowFacts'
    BY <1>34, MediaAssumption DEF MediaIInv, BeginSweep, world, RowFacts, Quiet, Stored
  <2>3. ASSUME NEW g \in Finalizers
        PROVE  FinalizerFact(g)'
    BY <1>34, MediaAssumption DEF MediaIInv, BeginSweep, world, FinalizerFacts, FinalizerFact,
       RowFacts, TypeOK, FinalizerPcs, Keys, Quiet, Settled, Owns, Has, Stored, Rows
  <2>4. CleanerFacts'
    BY <1>34, MediaAssumption DEF MediaIInv, BeginSweep, world, CleanerFacts, CleanerFact, Quiet,
       Settled, Has, Stored
  <2>5. DeleterFacts'
    BY <1>34, MediaAssumption DEF MediaIInv, BeginSweep, world, DeleterFacts, DeleterFact,
       WorkspaceFacts, TypeOK, Quiet, Ending, Stored, Thorough
  <2>6. WorkspaceFacts'
    BY <1>34, MediaAssumption DEF MediaIInv, BeginSweep, world, WorkspaceFacts, Quiet, Ending
  <2>7. ReferencedIsKept'
    BY <1>34, MediaAssumption DEF MediaIInv, BeginSweep, world, ReferencedIsKept
  <2> QED
    BY <2>1, <2>2, <2>3, <2>4, <2>5, <2>6, <2>7 DEF MediaIInv, FinalizerFacts
<1>35. ASSUME NEW d \in Deleters, ListDeletion(d)
      PROVE  MediaIInv'
  <2>1. TypeOK'
    <3>1. deleter' \in [Deleters -> Deletions]
      <4>1. deleter \in [Deleters -> Deletions] /\ deleter[d] \in Deletions
        BY DEF MediaIInv, TypeOK, Deletions
      <4>2. Stored \in SUBSET Keys
        BY DEF Stored
      <4>3. deleter' = [deleter EXCEPT ![d] = [deleter[d] EXCEPT !.pc = "delete", !.keys = Stored]]
        BY <1>35, <4>1 DEF ListDeletion
      <4>4. [deleter[d] EXCEPT !.pc = "delete", !.keys = Stored] \in Deletions
        BY <4>1, <4>2 DEF Deletions
      <4> QED
        BY <4>1, <4>3, <4>4
    <3> QED
      BY <1>35, <3>1 DEF ListDeletion, world, MediaIInv, TypeOK, Deletions
  <2>2. RowFacts'
    BY <1>35, MediaAssumption DEF MediaIInv, ListDeletion, world, RowFacts, Quiet, Stored
  <2>3. ASSUME NEW g \in Finalizers
        PROVE  FinalizerFact(g)'
    BY <1>35, MediaAssumption DEF MediaIInv, ListDeletion, world, FinalizerFacts, FinalizerFact,
       RowFacts, TypeOK, FinalizerPcs, Keys, Quiet, Settled, Owns, Has, Stored, Rows
  <2>4. CleanerFacts'
    BY <1>35, MediaAssumption DEF MediaIInv, ListDeletion, world, CleanerFacts, CleanerFact,
       Quiet, Settled, Has, Stored
  <2>5. DeleterFacts'
    BY <1>35, MediaAssumption DEF MediaIInv, ListDeletion, world, DeleterFacts, DeleterFact,
       TypeOK, Quiet, Ending, Stored, Thorough
  <2>6. WorkspaceFacts'
    BY <1>35, MediaAssumption DEF MediaIInv, ListDeletion, world, WorkspaceFacts, Quiet, Gone,
       Ending, Stored
  <2>7. ReferencedIsKept'
    BY <1>35, MediaAssumption DEF MediaIInv, ListDeletion, world, ReferencedIsKept
  <2> QED
    BY <2>1, <2>2, <2>3, <2>4, <2>5, <2>6, <2>7 DEF MediaIInv, FinalizerFacts
<1>36. ASSUME NEW d \in Deleters, DeleteObjects(d)
      PROVE  MediaIInv'
  <2>1. TypeOK'
    <3>1. deleter \in [Deleters -> Deletions] /\ deleter[d] \in Deletions
      BY DEF MediaIInv, TypeOK, Deletions
    <3>2. deleter' \in [Deleters -> Deletions]
      <4>1. NextStep(d) \in {"idle", "purge", "deleteAccount", "completeJob"}
        BY <3>1 DEF NextStep
      <4>2. \/ deleter' = [deleter EXCEPT ![d] = [deleter[d] EXCEPT !.pc = NextStep(d), !.keys = {}]]
            \/ deleter' = [deleter EXCEPT ![d] = IdleDeleter]
        BY <1>36, <3>1 DEF DeleteObjects
      <4>3. /\ [deleter[d] EXCEPT !.pc = NextStep(d), !.keys = {}] \in Deletions
            /\ IdleDeleter \in Deletions
        BY <3>1, <4>1 DEF IdleDeleter, Deletions
      <4> QED
        BY <3>1, <4>2, <4>3
    <3>3. object' \in [Keys -> {"none", "temporary", "committed"}] /\ mishaps' \in 0..MaxMishaps
      BY <1>36, MediaAssumption DEF DeleteObjects, Deletes, Removed, Mishap, MediaIInv, TypeOK
    <3> QED
      BY <1>36, <3>2, <3>3 DEF DeleteObjects, world, MediaIInv, TypeOK, Deletions
  <2>2. RowFacts'
    BY <1>36, MediaAssumption DEF MediaIInv, DeleteObjects, world, RowFacts, DeleterFacts,
       DeleterFact, Quiet, Ending
  <2>3. ASSUME NEW g \in Finalizers
        PROVE  FinalizerFact(g)'
    BY <1>36, MediaAssumption DEF MediaIInv, DeleteObjects, Deletes, Removed, Mishap, NextStep,
       IdleDeleter, world, FinalizerFacts, FinalizerFact, RowFacts, CleanerFacts, CleanerFact,
       DeleterFacts, DeleterFact, WorkspaceFacts, ReferencedIsKept, TypeOK, FinalizerPcs, Keys,
       Quiet, Gone, Ending, Settled, Owns, Has, Stored, Thorough, Rows
  <2>4. CleanerFacts'
    BY <1>36, MediaAssumption DEF MediaIInv, DeleteObjects, Deletes, Removed, world, CleanerFacts,
       CleanerFact, Quiet, Settled, Has, Stored
  <2>5. DeleterFacts'
    BY <1>36, MediaAssumption DEF MediaIInv, DeleteObjects, Deletes, Removed, NextStep,
       IdleDeleter, world, DeleterFacts, DeleterFact, Quiet, Ending, Stored, Thorough
  <2>6. WorkspaceFacts'
    BY <1>36, MediaAssumption DEF MediaIInv, DeleteObjects, Deletes, Removed, world,
       WorkspaceFacts, Quiet, Gone, Ending, Stored
  <2>7. ReferencedIsKept'
    BY <1>36, MediaAssumption DEF MediaIInv, DeleteObjects, world, ReferencedIsKept
  <2> QED
    BY <2>1, <2>2, <2>3, <2>4, <2>5, <2>6, <2>7 DEF MediaIInv, FinalizerFacts
<1>37. ASSUME NEW d \in Deleters, Purge(d)
      PROVE  MediaIInv'
  <2>1. TypeOK'
    BY <1>37, MediaAssumption DEF MediaIInv, Purge, IdleDeleter, world, TypeOK
  <2>2. RowFacts'
    BY <1>37, MediaAssumption DEF MediaIInv, Purge, world, RowFacts, Quiet, Stored
  <2>3. ASSUME NEW g \in Finalizers
        PROVE  FinalizerFact(g)'
    BY <1>37, MediaAssumption DEF MediaIInv, Purge, Purgeable, Has, IdleDeleter, world,
       FinalizerFacts, FinalizerFact, RowFacts, TypeOK, FinalizerPcs, Keys, Quiet, Settled, Owns,
       Stored, Rows
  <2>4. CleanerFacts'
    BY <1>37, MediaAssumption DEF MediaIInv, Purge, Has, world, RowFacts, CleanerFacts,
       CleanerFact, Quiet, Settled, Stored
  <2>5. DeleterFacts'
    BY <1>37, MediaAssumption DEF MediaIInv, Purge, IdleDeleter, world, DeleterFacts, DeleterFact,
       Quiet, Ending, Stored, Thorough
  <2>6. WorkspaceFacts'
    BY <1>37, MediaAssumption DEF MediaIInv, Purge, world, DeleterFacts, DeleterFact,
       WorkspaceFacts, Quiet, Gone, Ending, Stored
  <2>7. ReferencedIsKept'
    BY <1>37, MediaAssumption DEF MediaIInv, Purge, Purgeable, world, ReferencedIsKept
  <2> QED
    BY <2>1, <2>2, <2>3, <2>4, <2>5, <2>6, <2>7 DEF MediaIInv, FinalizerFacts
<1>38. ASSUME NEW d \in Deleters, DeleteAccount(d)
      PROVE  MediaIInv'
  <2>1. TypeOK'
    BY <1>38, MediaAssumption DEF MediaIInv, DeleteAccount, IdleDeleter, world, TypeOK,
       FinalizerPcs, Keys, Rows
  <2>2. RowFacts'
    BY <1>38, MediaAssumption DEF DeleteAccount, RowFacts
  <2>3. ASSUME NEW g \in Finalizers
        PROVE  FinalizerFact(g)'
    BY <1>38, MediaAssumption DEF MediaIInv, DeleteAccount, IdleDeleter, world, FinalizerFacts,
       FinalizerFact, RowFacts, TypeOK, FinalizerPcs, Keys, Quiet, Settled, Owns, Has, Stored,
       Rows
  <2>4. CleanerFacts'
    BY <1>38, MediaAssumption DEF MediaIInv, DeleteAccount, RowFacts, CleanerFacts, CleanerFact,
       Quiet, Settled, Has, Stored
  <2>5. DeleterFacts'
    BY <1>38, MediaAssumption DEF MediaIInv, DeleteAccount, IdleDeleter, DeleterFacts,
       DeleterFact, Quiet, Ending, Stored, Thorough
  <2>6. WorkspaceFacts'
    BY <1>38, MediaAssumption DEF MediaIInv, DeleteAccount, DeleterFacts, DeleterFact,
       WorkspaceFacts, Quiet, Gone, Ending, Stored
  <2>7. ReferencedIsKept'
    BY <1>38, MediaAssumption DEF DeleteAccount, ReferencedIsKept
  <2> QED
    BY <2>1, <2>2, <2>3, <2>4, <2>5, <2>6, <2>7 DEF MediaIInv, FinalizerFacts
<1>39. ASSUME NEW d \in Deleters, CompleteJob(d)
      PROVE  MediaIInv'
  <2>1. TypeOK'
    BY <1>39, MediaAssumption DEF MediaIInv, CompleteJob, IdleDeleter, TypeOK
  <2>2. RowFacts'
    BY <1>39, MediaAssumption DEF MediaIInv, CompleteJob, RowFacts, Quiet, Stored
  <2>3. ASSUME NEW g \in Finalizers
        PROVE  FinalizerFact(g)'
    BY <1>39, MediaAssumption DEF MediaIInv, CompleteJob, IdleDeleter, world, FinalizerFacts,
       FinalizerFact, RowFacts, TypeOK, FinalizerPcs, Keys, Quiet, Settled, Owns, Has, Stored,
       Rows
  <2>4. CleanerFacts'
    BY <1>39, MediaAssumption DEF MediaIInv, CompleteJob, CleanerFacts, CleanerFact, Quiet,
       Settled, Has, Stored
  <2>5. DeleterFacts'
    BY <1>39, MediaAssumption DEF MediaIInv, CompleteJob, IdleDeleter, DeleterFacts, DeleterFact,
       Quiet, Ending, Stored, Thorough
  <2>6. WorkspaceFacts'
    BY <1>39, MediaAssumption DEF MediaIInv, CompleteJob, DeleterFacts, DeleterFact,
       WorkspaceFacts, Quiet, Gone, Ending, Stored
  <2>7. ReferencedIsKept'
    BY <1>39, MediaAssumption DEF MediaIInv, CompleteJob, ReferencedIsKept
  <2> QED
    BY <2>1, <2>2, <2>3, <2>4, <2>5, <2>6, <2>7 DEF MediaIInv, FinalizerFacts
<1>40. ASSUME NEW d \in Deleters, CrashDeleter(d)
      PROVE  MediaIInv'
  <2>1. TypeOK'
    BY <1>40, MediaAssumption DEF MediaIInv, CrashDeleter, IdleDeleter, Mishap, world, TypeOK
  <2>2. RowFacts'
    BY <1>40, MediaAssumption DEF MediaIInv, CrashDeleter, world, RowFacts, Quiet, Stored
  <2>3. ASSUME NEW g \in Finalizers
        PROVE  FinalizerFact(g)'
    BY <1>40, MediaAssumption DEF MediaIInv, CrashDeleter, IdleDeleter, Mishap, world,
       FinalizerFacts, FinalizerFact, RowFacts, TypeOK, FinalizerPcs, Keys, Quiet, Settled, Owns,
       Has, Stored, Rows
  <2>4. CleanerFacts'
    BY <1>40, MediaAssumption DEF MediaIInv, CrashDeleter, world, CleanerFacts, CleanerFact,
       Quiet, Settled, Has, Stored
  <2>5. DeleterFacts'
    BY <1>40, MediaAssumption DEF MediaIInv, CrashDeleter, IdleDeleter, world, DeleterFacts,
       DeleterFact, Quiet, Ending, Stored, Thorough
  <2>6. WorkspaceFacts'
    BY <1>40, MediaAssumption DEF MediaIInv, CrashDeleter, world, WorkspaceFacts, Quiet, Gone,
       Ending, Stored
  <2>7. ReferencedIsKept'
    BY <1>40, MediaAssumption DEF MediaIInv, CrashDeleter, world, ReferencedIsKept
  <2> QED
    BY <2>1, <2>2, <2>3, <2>4, <2>5, <2>6, <2>7 DEF MediaIInv, FinalizerFacts
<1> QED
  BY <1>1, <1>2, <1>3, <1>4, <1>5, <1>6, <1>7, <1>8, <1>9, <1>10, <1>11, <1>12, <1>13, <1>14, <1>15, <1>16, <1>17, <1>18, <1>19, <1>20, <1>21, <1>22, <1>23, <1>24, <1>25, <1>26, <1>27, <1>28, <1>29, <1>30, <1>31, <1>32, <1>33, <1>34, <1>35, <1>36, <1>37, <1>38, <1>39, <1>40
     DEF Next, FinalizeStep, CleanupStep, DeletionStep

\* So does a step that changes nothing.
LEMMA MediaStutter == MediaIInv /\ UNCHANGED vars => MediaIInv'
<1> SUFFICES ASSUME MediaIInv, UNCHANGED vars PROVE MediaIInv'
  OBVIOUS
<1>1. /\ UNCHANGED << row, object, finalizer, inflight, cleaner, deleter >>
      /\ UNCHANGED << referenced, window, workspace, job, mishaps >>
  BY DEF vars, world
<1>2. TypeOK' /\ ReferencedIsKept'
  BY <1>1 DEF MediaIInv, TypeOK, ReferencedIsKept
<1>3. RowFacts' /\ WorkspaceFacts'
  BY <1>1 DEF MediaIInv, RowFacts, WorkspaceFacts, Quiet, Gone, Ending, Stored
<1>4. FinalizerFacts'
  BY <1>1 DEF MediaIInv, FinalizerFacts, FinalizerFact, Owns, Has, Settled
<1>5. CleanerFacts'
  BY <1>1 DEF MediaIInv, CleanerFacts, CleanerFact, Settled, Has, Quiet, Stored
<1>6. DeleterFacts'
  BY <1>1 DEF MediaIInv, DeleterFacts, DeleterFact, Thorough, Ending, Quiet, Stored
<1> QED
  BY <1>2, <1>3, <1>4, <1>5, <1>6 DEF MediaIInv

\* The inductive invariant implies what the run checks.
LEMMA MediaIInvIsEnough == MediaIInv => MediaInv /\ NothingLeaks
<1> SUFFICES ASSUME MediaIInv PROVE MediaInv /\ NothingLeaks
  OBVIOUS
<1>1. CleanIsStored
  BY DEF MediaIInv, RowFacts, CleanIsStored, Has
<1>2. row = NoAsset /\ job = "none" /\ window # "unissued" => Stored = {}
  BY DEF MediaIInv, WorkspaceFacts, Gone
<1>3. Has("clean") /\ row.pass = 2 => 
        \A k \in Keys \ {row.key} : object[k] # "committed"
  BY DEF MediaIInv, RowFacts, Has, Stored
<1> QED
  BY <1>1, <1>2, <1>3 DEF MediaIInv, MediaInv, NothingLeaks

\* No clean row is without its object, a cleaner never removes the object that is
\* published and a referenced asset is not deleted (finalizeMediaAsset,
\* cleanupMediaAssets, deleteMediaAsset): for any number of finalizers, cleaners and
\* deleters, through lost acknowledgements, expired claims and failed storage calls.
THEOREM MediaIsSafe == Spec => []MediaInv
<1>1. MediaIInv /\ [Next]_vars => MediaIInv'
  BY MediaStep, MediaStutter
<1>2. MediaIInv => MediaInv
  BY MediaIInvIsEnough
<1> QED
  BY <1>1, <1>2, MediaInitInv, PTL DEF Spec

\* When a row is gone and no cleanup job is left for its workspace nothing is stored
\* for it, and after the second pass of the cleanup nothing but the published object.
THEOREM MediaDoesNotLeak == Spec => []NothingLeaks
<1>1. MediaIInv /\ [Next]_vars => MediaIInv'
  BY MediaStep, MediaStutter
<1>2. MediaIInv => NothingLeaks
  BY MediaIInvIsEnough
<1> QED
  BY <1>1, <1>2, MediaInitInv, PTL DEF Spec

--------------------------------------------------------------------------------
(* Live rooms                                                                   *)

\* The creation of a room: the kind of room decides its steps, a published room exists
\* and has not expired, a code goes with every active row.
CreationFact(r) ==
    /\ creation[r].pc \in {"reserved", "checked", "create", "publish", "again", "undo"} =>
          r \in Rounds
    /\ creation[r].pc = "insert" => r \notin Rounds
    /\ creation[r].pc \in {"reserved", "checked", "create", "insert"} => creation[r].code \in Codes
    /\ creation[r].pc \in {"reserved", "checked", "create", "again", "insert"} =>
          creation[r].tries < MaxTries
    /\ rooms[r].status # "absent" => creation[r].pc \in {"publish", "undo", "done", "failed"}
    /\ rooms[r].status = "active" => rooms[r].code \in Codes
    /\ creation[r].pc = "publish" => Exists(r) /\ ~rooms[r].expired

\* All of them.
CreationFacts == \A r \in Rooms : CreationFact(r)

\* A mutation of a Round: past its fence its row exists, unless it is the one that
\* deletes it, a fence came between or a call failed.
MutationFact(r) ==
    /\ rooms[r].status = "absent" \/ CreationAt(r, "publish") => MutationAt(r, "idle")
    /\ MutationAt(r, "fence") /\ ~fenced => Exists(r)
    /\ MutationAt(r, "work") /\ faults = 0 => Exists(r)
    /\ MutationAt(r, "release") /\ mutation[r].op # "delete" => Exists(r)

\* All of them.
MutationFacts == \A r \in Rounds : MutationFact(r)

\* The deletion of an account has listed every Round it must delete: one it has not
\* listed exists only when nothing of it is under way.
DeletionFact(r) ==
    account.pc = "listed" /\ r \notin account.targets /\ Exists(r) =>
        /\ ~CreationAt(r, "publish")
        /\ mutation[r].pc \in {"idle", "entry", "load", "fence", "blind"}
        /\ r \notin cached
        /\ \A c \in Codes : reservation[c] # r

\* The fence stands until the deletion is done, and all of them.
DeletionFacts ==
    /\ account.pc \in {"fenced", "listed"} => fenced
    /\ \A r \in Rounds : DeletionFact(r)

\* While Redis has lost nothing, what it keeps of a Round that is gone has somebody who
\* will remove it.
RedisFact(r) ==
    faults = 0 =>
        /\ r \in cached /\ ~Exists(r) => mutation[r].pc \in {"release", "invalidate"}
        /\ \A c \in Codes : reservation[c] = r =>
              /\ creation[r].pc \notin {"idle", "failed"}
              /\ creation[r].pc = "done" =>
                    Exists(r) \/ rooms[r].expired \/ r \in unloaded \/ MutationAt(r, "release")

\* All of them.
RedisFacts == \A r \in Rounds : RedisFact(r)

\* A stray load is of a Round.
LoaderFacts == \A p \in Processes : loader[p].pc # "idle" => loader[p].room \in Rounds

\* The inductive invariant of LiveRooms.
RoomsIInv ==
    /\ LiveRoomsTypeOK /\ LoaderFacts /\ LiveRoomIsFound
    /\ CreationFacts /\ MutationFacts /\ DeletionFacts /\ RedisFacts

\* What the row of a room is.
RoomRow == [status : {"absent", "active", "ended", "deleted"}, code : Codes \cup {NoCode},
            expired : BOOLEAN]

\* The steps of a creation.
CreationPcs == {"idle", "reserved", "checked", "create", "publish", "again", "undo", "insert",
                "done", "failed"}

\* What a creation's record is.
CreationRow == [pc : CreationPcs, code : Codes \cup {NoCode}, tries : 0..MaxTries,
                p : Processes \cup {Nobody}]

\* The steps of a mutation.
MutationPcs == {"idle", "entry", "cache", "load", "fence", "work", "blind", "release",
                "invalidate"}

\* What a mutation's record is.
MutationRow == [pc : MutationPcs, op : {"command", "finish", "delete"}, p : Processes \cup {Nobody}]

\* What a stray load's record is.
LoaderRow == [pc : {"idle", "read", "checked"}, room : Rounds \cup {Nobody}]

\* What the record of an account's deletion is.
AccountRow == [pc : {"idle", "fenced", "listed", "done"}, p : Processes \cup {Nobody},
               targets : SUBSET Rounds]

\* The type invariant, in terms of these records.
LEMMA Types ==
  ASSUME LiveRoomsTypeOK
  PROVE  /\ rooms \in [Rooms -> RoomRow] /\ creation \in [Rooms -> CreationRow]
         /\ mutation \in [Rounds -> MutationRow]
  BY DEF LiveRoomsTypeOK, RoomRow, CreationRow, CreationPcs, MutationRow, MutationPcs

\* A creation goes to its next step and changes nothing else.
LEMMA CreationGoesOn ==
  ASSUME LiveRoomsTypeOK, NEW r \in Rooms, NEW pc \in CreationPcs, CreationGoes(r, pc)
  PROVE  /\ creation' \in [Rooms -> CreationRow]
         /\ \A q \in Rooms \ {r} : creation'[q] = creation[q]
         /\ creation'[r].pc = pc
         /\ pc \notin {"done", "failed"} =>
               creation'[r].code = creation[r].code /\ creation'[r].tries = creation[r].tries
<1>1. creation \in [Rooms -> CreationRow] /\ creation[r] \in CreationRow
  BY Types
<1>2. CASE pc \in {"done", "failed"}
  <2>1. creation' = [creation EXCEPT ![r] = [NoCreation EXCEPT !.pc = pc]]
    BY <1>2 DEF CreationGoes
  <2>2. [NoCreation EXCEPT !.pc = pc] \in CreationRow /\ [NoCreation EXCEPT !.pc = pc].pc = pc
    BY LiveRoomsAssumption DEF NoCreation, CreationRow
  <2> QED
    BY <1>1, <1>2, <2>1, <2>2
<1>3. CASE pc \notin {"done", "failed"}
  <2>1. creation' = [creation EXCEPT ![r] = [creation[r] EXCEPT !.pc = pc]]
    BY <1>1, <1>3 DEF CreationGoes
  <2>2. [creation[r] EXCEPT !.pc = pc] \in CreationRow
    BY <1>1 DEF CreationRow
  <2>3. [creation[r] EXCEPT !.pc = pc].pc = pc
    BY <1>1 DEF CreationRow
  <2>4. /\ [creation[r] EXCEPT !.pc = pc].code = creation[r].code
        /\ [creation[r] EXCEPT !.pc = pc].tries = creation[r].tries
    BY <1>1 DEF CreationRow
  <2> QED
    BY <1>1, <2>1, <2>2, <2>3, <2>4
<1> QED
  BY <1>2, <1>3

\* A creation that found its code taken starts again.
LEMMA CreationTriesOn ==
  ASSUME LiveRoomsTypeOK, NEW r \in Rooms, creation[r].tries < MaxTries, TryAnother(r)
  PROVE  /\ creation' \in [Rooms -> CreationRow]
         /\ \A q \in Rooms \ {r} : creation'[q] = creation[q]
         /\ creation'[r].pc = "idle"
<1>1. creation \in [Rooms -> CreationRow] /\ creation[r] \in CreationRow
  BY Types
<1>2. creation[r].tries + 1 \in 0..MaxTries
  BY <1>1, LiveRoomsAssumption DEF CreationRow
<1>3. [NoCreation EXCEPT !.tries = creation[r].tries + 1] \in CreationRow
  BY <1>2 DEF NoCreation, CreationRow, CreationPcs
<1>4. [NoCreation EXCEPT !.tries = creation[r].tries + 1].pc = "idle"
  BY DEF NoCreation
<1> QED
  BY <1>1, <1>3, <1>4 DEF TryAnother

\* A mutation goes to its next step and changes nothing else.
LEMMA MutationGoesOn ==
  ASSUME LiveRoomsTypeOK, NEW r \in Rounds, NEW pc \in MutationPcs, MutationGoes(r, pc)
  PROVE  /\ mutation' \in [Rounds -> MutationRow]
         /\ \A q \in Rounds \ {r} : mutation'[q] = mutation[q]
         /\ mutation'[r].pc = pc
         /\ pc # "idle" => mutation'[r].op = mutation[r].op
<1>1. mutation \in [Rounds -> MutationRow] /\ mutation[r] \in MutationRow
  BY Types
<1>2. CASE pc = "idle"
  <2>1. mutation' = [mutation EXCEPT ![r] = NoMutation]
    BY <1>2 DEF MutationGoes
  <2>2. NoMutation \in MutationRow /\ NoMutation.pc = pc
    BY <1>2 DEF NoMutation, MutationRow, MutationPcs
  <2> QED
    BY <1>1, <1>2, <2>1, <2>2
<1>3. CASE pc # "idle"
  <2>1. mutation' = [mutation EXCEPT ![r] = [mutation[r] EXCEPT !.pc = pc]]
    BY <1>1, <1>3 DEF MutationGoes
  <2>2. [mutation[r] EXCEPT !.pc = pc] \in MutationRow
    BY <1>1 DEF MutationRow
  <2>3. [mutation[r] EXCEPT !.pc = pc].pc = pc /\ [mutation[r] EXCEPT !.pc = pc].op = mutation[r].op
    BY <1>1 DEF MutationRow
  <2> QED
    BY <1>1, <2>1, <2>2, <2>3
<1> QED
  BY <1>2, <1>3

\* The registry of codes is well formed.
RegistryOK == registry \in [Codes -> [room : Rooms \cup {Nobody}, released : BOOLEAN]]

\* An inserted room is found by its code, and nothing else changes.
LEMMA RoomInserted ==
  ASSUME LiveRoomsTypeOK, LiveRoomIsFound, CreationFacts, NEW r \in Rooms, NEW c \in Codes,
         Claimable(r, c), Inserted(r, c)
  PROVE  /\ rooms' \in [Rooms -> RoomRow] /\ RegistryOK'
         /\ rooms'[r] = [status |-> "active", code |-> c, expired |-> FALSE]
         /\ \A q \in Rooms \ {r} : rooms'[q] = rooms[q]
         /\ LiveRoomIsFound'
<1>1. rooms \in [Rooms -> RoomRow] /\ RegistryOK
  BY Types DEF LiveRoomsTypeOK, RegistryOK
<1>2. [status |-> "active", code |-> c, expired |-> FALSE] \in RoomRow
  BY DEF RoomRow
<1>3. rooms' = [rooms EXCEPT ![r] = [status |-> "active", code |-> c, expired |-> FALSE]]
  BY DEF Inserted
<1>4. registry' = [registry EXCEPT ![c] = [room |-> r, released |-> FALSE]]
  BY DEF Inserted
<1>5. rooms' \in [Rooms -> RoomRow] /\ RegistryOK'
  BY <1>1, <1>2, <1>3, <1>4 DEF RegistryOK
<1>6. ASSUME NEW q \in Rooms, Live(q)'
      PROVE  registry'[rooms'[q].code] = [room |-> q, released |-> FALSE]
  <2>1. CASE q = r
    BY <1>1, <1>3, <1>4, <2>1 DEF RegistryOK
  <2>2. CASE q # r
    <3>1. rooms'[q] = rooms[q] /\ Live(q) /\ rooms[q].code \in Codes
      BY <1>1, <1>3, <1>6, <2>2 DEF Live, CreationFacts, CreationFact
    <3>2. registry[rooms[q].code] = [room |-> q, released |-> FALSE]
      BY <3>1 DEF LiveRoomIsFound
    <3>3. rooms[q].code # c
      BY <3>1, <3>2, LiveRoomsAssumption DEF Claimable, InForce, Live, Rooms
    <3> QED
      BY <1>1, <1>4, <3>1, <3>2, <3>3 DEF RegistryOK
  <2> QED
    BY <2>1, <2>2
<1> QED
  BY <1>1, <1>3, <1>5, <1>6 DEF LiveRoomIsFound

\* An ended room gives its code back, and nothing else changes.
LEMMA RoomEnded ==
  ASSUME LiveRoomsTypeOK, LiveRoomIsFound, CreationFacts, NEW r \in Rooms,
         rooms[r].status = "active" \/ rooms[r].status = "ended", Ended(r)
  PROVE  /\ rooms' \in [Rooms -> RoomRow] /\ RegistryOK'
         /\ rooms'[r].status = "ended" /\ rooms'[r].expired = rooms[r].expired
         /\ \A q \in Rooms \ {r} : rooms'[q] = rooms[q]
         /\ LiveRoomIsFound'
<1>1. rooms \in [Rooms -> RoomRow] /\ RegistryOK /\ rooms[r] \in RoomRow
  BY Types DEF LiveRoomsTypeOK, RegistryOK
<1>2. rooms' = [rooms EXCEPT ![r] = [rooms[r] EXCEPT !.status = "ended"]]
  BY <1>1 DEF Ended
<1>3. [rooms[r] EXCEPT !.status = "ended"] \in RoomRow
  BY <1>1 DEF RoomRow
<1>4. [rooms[r] EXCEPT !.status = "ended"].status = "ended"
      /\ [rooms[r] EXCEPT !.status = "ended"].expired = rooms[r].expired
  BY <1>1 DEF RoomRow
<1>5. /\ registry' \in [Codes -> [room : Rooms \cup {Nobody}, released : BOOLEAN]]
      /\ \A c \in Codes : registry[c].room # r => registry'[c] = registry[c]
  <2>1. CASE OwnEntry(r)
    <3>1. registry' = [registry EXCEPT ![rooms[r].code].released = TRUE]
      BY <2>1 DEF Ended
    <3> QED
      BY <1>1, <2>1, <3>1 DEF RegistryOK, OwnEntry
  <2>2. CASE ~OwnEntry(r)
    BY <1>1, <2>2 DEF Ended, RegistryOK
  <2> QED
    BY <2>1, <2>2
<1>6. ASSUME NEW q \in Rooms, Live(q)'
      PROVE  registry'[rooms'[q].code] = [room |-> q, released |-> FALSE]
  <2>1. q # r
    BY <1>1, <1>2, <1>4, <1>6 DEF Live
  <2>2. rooms'[q] = rooms[q] /\ Live(q) /\ rooms[q].code \in Codes
    BY <1>1, <1>2, <1>6, <2>1 DEF Live, CreationFacts, CreationFact
  <2>3. registry[rooms[q].code] = [room |-> q, released |-> FALSE]
    BY <2>2 DEF LiveRoomIsFound
  <2> QED
    BY <1>5, <2>1, <2>2, <2>3
<1> QED
  BY <1>1, <1>2, <1>3, <1>4, <1>5, <1>6 DEF LiveRoomIsFound, RegistryOK

\* Deleted rooms give their codes back, and nothing else changes.
LEMMA RoomsDeleted ==
  ASSUME LiveRoomsTypeOK, LiveRoomIsFound, CreationFacts, NEW gone \in SUBSET Rooms, Deleted(gone)
  PROVE  /\ rooms' \in [Rooms -> RoomRow] /\ RegistryOK'
         /\ \A q \in Rooms : rooms'[q].expired = rooms[q].expired
         /\ \A q \in gone : Exists(q) => rooms'[q].status = "deleted"
         /\ \A q \in Rooms : q \notin gone \/ ~Exists(q) => rooms'[q] = rooms[q]
         /\ LiveRoomIsFound'
<1>1. rooms \in [Rooms -> RoomRow] /\ RegistryOK
  BY Types DEF LiveRoomsTypeOK, RegistryOK
<1>2. ASSUME NEW q \in Rooms
      PROVE  /\ [rooms[q] EXCEPT !.status = "deleted", !.code = NoCode] \in RoomRow
             /\ [rooms[q] EXCEPT !.status = "deleted", !.code = NoCode].status = "deleted"
             /\ [rooms[q] EXCEPT !.status = "deleted", !.code = NoCode].expired = rooms[q].expired
  BY <1>1 DEF RoomRow
<1>3. rooms' = [q \in Rooms |-> IF q \in gone /\ Exists(q)
                  THEN [rooms[q] EXCEPT !.status = "deleted", !.code = NoCode] ELSE rooms[q]]
  BY DEF Deleted
<1>4. registry' = [c \in Codes |-> IF registry[c].room \in gone THEN NoEntry ELSE registry[c]]
  BY DEF Deleted
<1>5. RegistryOK'
  BY <1>1, <1>4 DEF RegistryOK, NoEntry
<1>6. ASSUME NEW q \in Rooms, Live(q)'
      PROVE  registry'[rooms'[q].code] = [room |-> q, released |-> FALSE]
  <2>1. q \notin gone /\ rooms'[q] = rooms[q]
    BY <1>2, <1>3, <1>6 DEF Live, Exists
  <2>2. Live(q) /\ rooms[q].code \in Codes
    BY <1>6, <2>1 DEF Live, CreationFacts, CreationFact
  <2>3. registry[rooms[q].code] = [room |-> q, released |-> FALSE]
    BY <2>2 DEF LiveRoomIsFound
  <2> QED
    BY <1>4, <2>1, <2>2, <2>3
<1>7. LiveRoomIsFound'
  BY <1>6 DEF LiveRoomIsFound
<1> QED
  BY <1>1, <1>2, <1>3, <1>5, <1>7

\* A fault is counted, and never uncounted.
LEMMA FaultOrNot ==
  ASSUME LiveRoomsTypeOK, NEW ok \in BOOLEAN, MayFail(ok) \/ Fault
  PROVE  faults' \in 0..MaxFaults /\ faults <= faults' /\ faults \in Nat /\ faults' \in Nat
         /\ (faults' = 0 => faults = 0)
  BY LiveRoomsAssumption DEF MayFail, Fault, LiveRoomsTypeOK

\* No room exists at first.
LEMMA RoomsInitInv == LiveRoomsInit => RoomsIInv
<1> SUFFICES ASSUME LiveRoomsInit PROVE RoomsIInv
  OBVIOUS
<1>1. /\ \A r \in Rooms : rooms[r].status = "absent" /\ ~rooms[r].expired
      /\ \A r \in Rooms : creation[r] = NoCreation
      /\ \A r \in Rounds : mutation[r] = NoMutation
      /\ \A p \in Processes : loader[p].pc = "idle"
      /\ \A c \in Codes : reservation[c] = Nobody
      /\ cached = {} /\ account.pc = "idle"
  BY DEF LiveRoomsInit, NoDeletion
<1>2. LiveRoomsTypeOK
  <2>1. rooms \in [Rooms -> RoomRow] /\ registry \in [Codes -> [room : Rooms \cup {Nobody}, released : BOOLEAN]]
    BY DEF LiveRoomsInit, RoomRow, NoEntry
  <2>2. creation \in [Rooms -> CreationRow] /\ mutation \in [Rounds -> MutationRow]
    <3>1. NoCreation \in CreationRow
      BY LiveRoomsAssumption DEF NoCreation, CreationRow, CreationPcs
    <3>2. NoMutation \in MutationRow
      BY DEF NoMutation, MutationRow, MutationPcs
    <3> QED
      BY <3>1, <3>2 DEF LiveRoomsInit
  <2>3. loader \in [Processes -> LoaderRow] /\ account \in AccountRow
    BY DEF LiveRoomsInit, LoaderRow, AccountRow, NoDeletion
  <2>4. 0 \in 0..MaxFaults
    BY LiveRoomsAssumption
  <2> QED
    BY <2>1, <2>2, <2>3, <2>4 DEF LiveRoomsInit, LiveRoomsTypeOK, RoomRow, CreationRow,
       CreationPcs, MutationRow, MutationPcs, LoaderRow, AccountRow
<1>3. LiveRoomIsFound /\ LoaderFacts
  BY <1>1 DEF LiveRoomIsFound, Live, LoaderFacts
<1>4. CreationFacts
  <2>1. NoCreation.pc = "idle"
    BY DEF NoCreation
  <2> QED
    BY <1>1, <2>1 DEF CreationFacts, CreationFact
<1>5. MutationFacts
  <2>1. NoMutation.pc = "idle"
    BY DEF NoMutation
  <2> QED
    BY <1>1, <2>1 DEF MutationFacts, MutationFact, MutationAt
<1>6. DeletionFacts
  BY <1>1 DEF DeletionFacts, DeletionFact
<1>7. RedisFacts
  BY <1>1, LiveRoomsAssumption DEF RedisFacts, RedisFact
<1> QED
  BY <1>2, <1>3, <1>4, <1>5, <1>6, <1>7 DEF RoomsIInv

\* Every step keeps the inductive invariant.
LEMMA RoomsStep ==
  RoomsIInv /\ LiveRoomsNext => RoomsIInv'
<1> SUFFICES ASSUME RoomsIInv, LiveRoomsNext
             PROVE  RoomsIInv'
  OBVIOUS
<1>1. ASSUME NEW p \in Processes, NEW r \in Rounds, NEW c \in Codes, ReserveSessionCode(p, r, c)
      PROVE  RoomsIInv'
  <2>0. /\ creation[r].pc = "idle" /\ creation[r].tries < MaxTries
        /\ creation' \in [Rooms -> CreationRow]
        /\ \A q \in Rooms \ {r} : creation'[q] = creation[q]
        /\ creation'[r].pc \in {"reserved", "idle"}
        /\ creation'[r].pc = "reserved" =>
              creation'[r].code = c /\ creation'[r].tries = creation[r].tries
        /\ creation'[r].pc = "reserved" =>
              reservation[c] = Nobody /\ reservation' = [reservation EXCEPT ![c] = r]
        /\ creation'[r].pc = "idle" => reservation' = reservation
        /\ \A d \in Codes : reservation'[d] # reservation[d] =>
              reservation'[d] = r /\ creation'[r].pc = "reserved"
    <3>1. creation[r].pc = "idle" /\ creation[r].tries < MaxTries /\ r \in Rooms
      BY <1>1 DEF ReserveSessionCode, MayTry, CreationAt, Rooms
    <3>2. CASE reservation[c] # Nobody
      <4>1. TryAnother(r) /\ UNCHANGED reservation
        BY <1>1, <3>2 DEF ReserveSessionCode
      <4> QED
        BY <3>1, <4>1, CreationTriesOn DEF RoomsIInv
    <3>3. CASE ~(reservation[c] # Nobody)
      <4>1. creation \in [Rooms -> CreationRow] /\ creation[r] \in CreationRow
        BY <3>1, Types DEF RoomsIInv
      <4>2. creation' = [creation EXCEPT ![r] = [creation[r] EXCEPT !.pc = "reserved", !.p = p, !.code = c]]
        BY <1>1, <3>3, <4>1 DEF ReserveSessionCode
      <4>3. /\ [creation[r] EXCEPT !.pc = "reserved", !.p = p, !.code = c] \in CreationRow
            /\ [creation[r] EXCEPT !.pc = "reserved", !.p = p, !.code = c].pc = "reserved"
            /\ [creation[r] EXCEPT !.pc = "reserved", !.p = p, !.code = c].code = c
            /\ [creation[r] EXCEPT !.pc = "reserved", !.p = p, !.code = c].tries = creation[r].tries
        BY <4>1 DEF CreationRow, CreationPcs
      <4>4. reservation \in [Codes -> Rounds \cup {Nobody}]
        BY DEF RoomsIInv, LiveRoomsTypeOK
      <4> QED
        BY <1>1, <3>1, <3>3, <4>1, <4>2, <4>3, <4>4 DEF ReserveSessionCode
    <3> QED
      BY <3>2, <3>3
  <2>1. LiveRoomsTypeOK'
    <3>1. reservation' \in [Codes -> Rounds \cup {Nobody}]
      <4>1. reservation \in [Codes -> Rounds \cup {Nobody}]
        BY DEF RoomsIInv, LiveRoomsTypeOK
      <4>2. reservation' = reservation \/ reservation' = [reservation EXCEPT ![c] = r]
        BY <1>1 DEF ReserveSessionCode
      <4> QED
        BY <4>1, <4>2
    <3> QED
      BY <3>1, <1>1, <2>0, LiveRoomsAssumption DEF ReserveSessionCode, RoomsIInv, LiveRoomsTypeOK,
         RoomRow, CreationRow, CreationPcs, MutationRow, MutationPcs, RegistryOK, Forget, Rooms,
         room_vars, redis, work
  <2>2. LiveRoomIsFound'
    BY <1>1, <2>0, LiveRoomsAssumption DEF ReserveSessionCode, RoomsIInv, LiveRoomIsFound, Live,
       Rooms, room_vars, redis, work
  <2>3. ASSUME NEW q \in Rooms
        PROVE  CreationFact(q)'
    BY <1>1, <2>0, LiveRoomsAssumption DEF ReserveSessionCode, RoomsIInv, CreationFacts,
       CreationFact, Exists, Rooms, room_vars, redis
  <2>4. ASSUME NEW q \in Rounds
        PROVE  MutationFact(q)'
    BY <1>1, <2>0, LiveRoomsAssumption DEF ReserveSessionCode, RoomsIInv, MutationFacts,
       MutationFact, MutationAt, CreationAt, Exists, Rooms, room_vars, redis
  <2>5. DeletionFacts'
    BY <1>1, <2>0, LiveRoomsAssumption DEF ReserveSessionCode, RoomsIInv, DeletionFacts,
       DeletionFact, Exists, CreationAt, Rooms, room_vars, redis, work, CreationFacts,
       CreationFact
  <2>6. ASSUME NEW q \in Rounds
        PROVE  RedisFact(q)'
    BY <1>1, <2>0, LiveRoomsAssumption DEF ReserveSessionCode, RoomsIInv, RedisFacts, RedisFact,
       Exists, MutationAt, Rooms, room_vars, redis, work, CreationFacts, CreationFact
  <2>7. LoaderFacts'
    BY <1>1, LiveRoomsAssumption, <2>0 DEF RoomsIInv, LoaderFacts, ReserveSessionCode
  <2> QED
    BY <2>1, <2>2, <2>3, <2>4, <2>5, <2>6, <2>7 DEF RoomsIInv, CreationFacts, MutationFacts,
       RedisFacts
<1>2. ASSUME NEW p \in Processes, NEW r \in Presentations, NEW c \in Codes, ChooseJoinCode(p, r, c)
      PROVE  RoomsIInv'
  <2>0. /\ creation[r].pc = "idle" /\ creation[r].tries < MaxTries
        /\ creation' \in [Rooms -> CreationRow]
        /\ \A q \in Rooms \ {r} : creation'[q] = creation[q]
        /\ creation'[r].pc \in {"insert", "idle"}
        /\ creation'[r].pc = "insert" =>
              creation'[r].code = c /\ creation'[r].tries = creation[r].tries
    <3>1. creation[r].pc = "idle" /\ creation[r].tries < MaxTries /\ r \in Rooms
      BY <1>2 DEF ChooseJoinCode, MayTry, CreationAt, Rooms
    <3>2. CASE InForce(c)
      <4>1. TryAnother(r)
        BY <1>2, <3>2 DEF ChooseJoinCode
      <4> QED
        BY <3>1, <4>1, CreationTriesOn DEF RoomsIInv
    <3>3. CASE ~(InForce(c))
      <4>1. creation \in [Rooms -> CreationRow] /\ creation[r] \in CreationRow
        BY <3>1, Types DEF RoomsIInv
      <4>2. creation' = [creation EXCEPT ![r] = [creation[r] EXCEPT !.pc = "insert", !.p = p, !.code = c]]
        BY <1>2, <3>3, <4>1 DEF ChooseJoinCode
      <4>3. /\ [creation[r] EXCEPT !.pc = "insert", !.p = p, !.code = c] \in CreationRow
            /\ [creation[r] EXCEPT !.pc = "insert", !.p = p, !.code = c].pc = "insert"
            /\ [creation[r] EXCEPT !.pc = "insert", !.p = p, !.code = c].code = c
            /\ [creation[r] EXCEPT !.pc = "insert", !.p = p, !.code = c].tries = creation[r].tries
        BY <4>1 DEF CreationRow, CreationPcs
      <4>4. reservation \in [Codes -> Rounds \cup {Nobody}]
        BY DEF RoomsIInv, LiveRoomsTypeOK
      <4> QED
        BY <1>2, <3>1, <3>3, <4>1, <4>2, <4>3, <4>4 DEF ChooseJoinCode
    <3> QED
      BY <3>2, <3>3
  <2>1. LiveRoomsTypeOK'
    BY <1>2, <2>0, LiveRoomsAssumption DEF ChooseJoinCode, RoomsIInv, LiveRoomsTypeOK, RoomRow,
       CreationRow, CreationPcs, MutationRow, MutationPcs, RegistryOK, Forget, Rooms, room_vars,
       redis, work
  <2>2. LiveRoomIsFound'
    BY <1>2, <2>0, LiveRoomsAssumption DEF ChooseJoinCode, RoomsIInv, LiveRoomIsFound, Live,
       Rooms, room_vars, redis, work
  <2>3. ASSUME NEW q \in Rooms
        PROVE  CreationFact(q)'
    BY <1>2, <2>0, LiveRoomsAssumption DEF ChooseJoinCode, RoomsIInv, CreationFacts, CreationFact,
       Exists, Rooms, room_vars, redis
  <2>4. ASSUME NEW q \in Rounds
        PROVE  MutationFact(q)'
    BY <1>2, <2>0, LiveRoomsAssumption DEF ChooseJoinCode, RoomsIInv, MutationFacts, MutationFact,
       MutationAt, CreationAt, Exists, Rooms, room_vars, redis
  <2>5. DeletionFacts'
    BY <1>2, <2>0, LiveRoomsAssumption DEF ChooseJoinCode, RoomsIInv, DeletionFacts, DeletionFact,
       Exists, CreationAt, Rooms, room_vars, redis, work, CreationFacts, CreationFact
  <2>6. ASSUME NEW q \in Rounds
        PROVE  RedisFact(q)'
    BY <1>2, <2>0, LiveRoomsAssumption DEF ChooseJoinCode, RoomsIInv, RedisFacts, RedisFact,
       Exists, MutationAt, Rooms, room_vars, redis, work, CreationFacts, CreationFact
  <2>7. LoaderFacts'
    BY <1>2, LiveRoomsAssumption, <2>0 DEF RoomsIInv, LoaderFacts, ChooseJoinCode
  <2> QED
    BY <2>1, <2>2, <2>3, <2>4, <2>5, <2>6, <2>7 DEF RoomsIInv, CreationFacts, MutationFacts,
       RedisFacts
<1>3. ASSUME NEW p \in Processes, NEW r \in Rounds, NEW op \in {"command", "finish", "delete"}, BeginMutation(p, r, op)
      PROVE  RoomsIInv'
  <2>1. LiveRoomsTypeOK'
    BY <1>3, LiveRoomsAssumption DEF RoomsIInv, LiveRoomsTypeOK, Rooms, NoEntry, BeginMutation,
       LeaseFreeFor, MutationAt, CreationAt, room_vars, redis
  <2>2. LiveRoomIsFound'
    BY <1>3, LiveRoomsAssumption DEF RoomsIInv, LiveRoomsTypeOK, LiveRoomIsFound, Live, Rooms,
       Exists, CreationFacts, CreationFact, BeginMutation, LeaseFreeFor, MutationAt, CreationAt,
       room_vars, redis
  <2>3. ASSUME NEW q \in Rooms
        PROVE  CreationFact(q)'
    BY <1>3, LiveRoomsAssumption DEF RoomsIInv, LiveRoomsTypeOK, CreationFacts, CreationFact,
       Exists, Rooms, BeginMutation, LeaseFreeFor, MutationAt, CreationAt, room_vars, redis
  <2>4. ASSUME NEW q \in Rounds
        PROVE  MutationFact(q)'
    BY <1>3, LiveRoomsAssumption DEF RoomsIInv, LiveRoomsTypeOK, MutationFacts, MutationFact,
       MutationAt, CreationAt, Exists, CreationFacts, CreationFact, Rooms, BeginMutation,
       LeaseFreeFor, room_vars, redis
  <2>5. DeletionFacts'
    BY <1>3, LiveRoomsAssumption DEF RoomsIInv, LiveRoomsTypeOK, DeletionFacts, DeletionFact,
       Exists, CreationAt, CreationFacts, CreationFact, MutationFacts, MutationFact, MutationAt,
       Rooms, BeginMutation, LeaseFreeFor, room_vars, redis
  <2>6. ASSUME NEW q \in Rounds
        PROVE  RedisFact(q)'
    BY <1>3, LiveRoomsAssumption DEF RoomsIInv, LiveRoomsTypeOK, RedisFacts, RedisFact, Exists,
       MutationAt, CreationFacts, CreationFact, MutationFacts, MutationFact, DeletionFacts,
       DeletionFact, Rooms, BeginMutation, LeaseFreeFor, CreationAt, room_vars, redis
  <2>7. LoaderFacts'
    BY <1>3, LiveRoomsAssumption DEF RoomsIInv, LoaderFacts, BeginMutation
  <2> QED
    BY <2>1, <2>2, <2>3, <2>4, <2>5, <2>6, <2>7 DEF RoomsIInv, CreationFacts, MutationFacts,
       RedisFacts
<1>4. ASSUME NEW p \in Processes, NEW r \in Rounds, BeginLoad(p, r)
      PROVE  RoomsIInv'
  <2>0. /\ loader' \in [Processes -> LoaderRow]
        /\ active' \in [Processes -> SUBSET Rounds]
    <3>1. [pc |-> "read", room |-> r] \in LoaderRow
      BY DEF RoomsIInv, LiveRoomsTypeOK, LoaderRow
    <3>3. loader \in [Processes -> LoaderRow]
      BY DEF RoomsIInv, LiveRoomsTypeOK, LoaderRow
    <3>4. loader' \in [Processes -> LoaderRow]
      BY <1>4, <3>1, <3>3 DEF BeginLoad, LoaderGoes
    <3>5. active' \in [Processes -> SUBSET Rounds]
      BY <1>4 DEF BeginLoad, Forget, Remember, RoomsIInv, LiveRoomsTypeOK, LoaderFacts
    <3> QED
      BY <3>4, <3>5
  <2>1. LiveRoomsTypeOK'
    BY <1>4, <2>0, LiveRoomsAssumption DEF BeginLoad, LoaderRow, RoomsIInv, LiveRoomsTypeOK,
       RoomRow, CreationRow, CreationPcs, MutationRow, MutationPcs, RegistryOK, Forget, Rooms,
       room_vars, redis
  <2>2. LiveRoomIsFound'
    BY <1>4, LiveRoomsAssumption, <2>0 DEF RoomsIInv, LiveRoomsTypeOK, LiveRoomIsFound, Live,
       Rooms, Exists, CreationFacts, CreationFact, BeginLoad, LoaderGoes, Forget, room_vars,
       redis, work
  <2>3. ASSUME NEW q \in Rooms
        PROVE  CreationFact(q)'
    BY <1>4, LiveRoomsAssumption, <2>0 DEF RoomsIInv, LiveRoomsTypeOK, CreationFacts,
       CreationFact, Exists, Rooms, BeginLoad, LoaderGoes, Forget, room_vars, redis, work
  <2>4. ASSUME NEW q \in Rounds
        PROVE  MutationFact(q)'
    BY <1>4, LiveRoomsAssumption, <2>0 DEF RoomsIInv, LiveRoomsTypeOK, MutationFacts,
       MutationFact, MutationAt, CreationAt, Exists, CreationFacts, CreationFact, Rooms,
       BeginLoad, LoaderGoes, Forget, room_vars, redis, work
  <2>5. DeletionFacts'
    BY <1>4, LiveRoomsAssumption, <2>0 DEF RoomsIInv, LiveRoomsTypeOK, DeletionFacts,
       DeletionFact, Exists, CreationAt, CreationFacts, CreationFact, MutationFacts, MutationFact,
       MutationAt, Rooms, BeginLoad, LoaderGoes, Forget, room_vars, redis, work
  <2>6. ASSUME NEW q \in Rounds
        PROVE  RedisFact(q)'
    BY <1>4, LiveRoomsAssumption, <2>0 DEF RoomsIInv, LiveRoomsTypeOK, RedisFacts, RedisFact,
       Exists, MutationAt, CreationFacts, CreationFact, MutationFacts, MutationFact,
       DeletionFacts, DeletionFact, Rooms, BeginLoad, LoaderGoes, Forget, room_vars, redis
  <2>7. LoaderFacts'
    BY <1>4, LiveRoomsAssumption, <2>0 DEF RoomsIInv, LoaderFacts, BeginLoad, LoaderGoes, Forget
  <2> QED
    BY <2>1, <2>2, <2>3, <2>4, <2>5, <2>6, <2>7 DEF RoomsIInv, CreationFacts, MutationFacts,
       RedisFacts
<1>5. ASSUME NEW p \in Processes, FenceLoad(p)
      PROVE  RoomsIInv'
  <2>0. /\ loader' \in [Processes -> LoaderRow]
        /\ active' \in [Processes -> SUBSET Rounds]
    <3>1. [pc |-> "idle", room |-> Nobody] \in LoaderRow
      BY DEF RoomsIInv, LiveRoomsTypeOK, LoaderRow
    <3>2. [pc |-> "checked", room |-> loader[p].room] \in LoaderRow
      BY DEF RoomsIInv, LiveRoomsTypeOK, LoaderRow
    <3>3. loader \in [Processes -> LoaderRow]
      BY DEF RoomsIInv, LiveRoomsTypeOK, LoaderRow
    <3>4. loader' \in [Processes -> LoaderRow]
      BY <1>5, <3>1, <3>2, <3>3 DEF FenceLoad, LoaderGoes
    <3>5. active' \in [Processes -> SUBSET Rounds]
      BY <1>5 DEF FenceLoad, Forget, Remember, RoomsIInv, LiveRoomsTypeOK, LoaderFacts
    <3> QED
      BY <3>4, <3>5
  <2>1. LiveRoomsTypeOK'
    BY <1>5, <2>0, LiveRoomsAssumption DEF FenceLoad, LoaderRow, RoomsIInv, LiveRoomsTypeOK,
       RoomRow, CreationRow, CreationPcs, MutationRow, MutationPcs, RegistryOK, Forget, Rooms,
       room_vars, redis
  <2>2. LiveRoomIsFound'
    BY <1>5, LiveRoomsAssumption, <2>0 DEF RoomsIInv, LiveRoomsTypeOK, LiveRoomIsFound, Live,
       Rooms, Exists, CreationFacts, CreationFact, FenceLoad, LoaderGoes, Forget, room_vars,
       redis, work
  <2>3. ASSUME NEW q \in Rooms
        PROVE  CreationFact(q)'
    BY <1>5, LiveRoomsAssumption, <2>0 DEF RoomsIInv, LiveRoomsTypeOK, CreationFacts,
       CreationFact, Exists, Rooms, FenceLoad, LoaderGoes, Forget, room_vars, redis, work
  <2>4. ASSUME NEW q \in Rounds
        PROVE  MutationFact(q)'
    BY <1>5, LiveRoomsAssumption, <2>0 DEF RoomsIInv, LiveRoomsTypeOK, MutationFacts,
       MutationFact, MutationAt, CreationAt, Exists, CreationFacts, CreationFact, Rooms,
       FenceLoad, LoaderGoes, Forget, room_vars, redis, work
  <2>5. DeletionFacts'
    BY <1>5, LiveRoomsAssumption, <2>0 DEF RoomsIInv, LiveRoomsTypeOK, DeletionFacts,
       DeletionFact, Exists, CreationAt, CreationFacts, CreationFact, MutationFacts, MutationFact,
       MutationAt, Rooms, FenceLoad, LoaderGoes, Forget, room_vars, redis, work
  <2>6. ASSUME NEW q \in Rounds
        PROVE  RedisFact(q)'
    BY <1>5, LiveRoomsAssumption, <2>0 DEF RoomsIInv, LiveRoomsTypeOK, RedisFacts, RedisFact,
       Exists, MutationAt, CreationFacts, CreationFact, MutationFacts, MutationFact,
       DeletionFacts, DeletionFact, Rooms, FenceLoad, LoaderGoes, Forget, room_vars, redis
  <2>7. LoaderFacts'
    BY <1>5, <2>0 DEF FenceLoad, LoaderGoes, RoomsIInv, LoaderFacts
  <2> QED
    BY <2>1, <2>2, <2>3, <2>4, <2>5, <2>6, <2>7 DEF RoomsIInv, CreationFacts, MutationFacts,
       RedisFacts
<1>6. ASSUME NEW p \in Processes, EndLoad(p)
      PROVE  RoomsIInv'
  <2>0. /\ loader' \in [Processes -> LoaderRow]
        /\ active' \in [Processes -> SUBSET Rounds]
    <3>1. [pc |-> "idle", room |-> Nobody] \in LoaderRow
      BY DEF RoomsIInv, LiveRoomsTypeOK, LoaderRow
    <3>3. loader \in [Processes -> LoaderRow]
      BY DEF RoomsIInv, LiveRoomsTypeOK, LoaderRow
    <3>4. loader' \in [Processes -> LoaderRow]
      BY <1>6, <3>1, <3>3 DEF EndLoad, LoaderGoes
    <3>5. active' \in [Processes -> SUBSET Rounds]
      BY <1>6 DEF EndLoad, Remember, RoomsIInv, LiveRoomsTypeOK, LoaderFacts
    <3> QED
      BY <3>4, <3>5
  <2>1. LiveRoomsTypeOK'
    BY <1>6, <2>0, LiveRoomsAssumption DEF EndLoad, LoaderRow, RoomsIInv, LiveRoomsTypeOK,
       RoomRow, CreationRow, CreationPcs, MutationRow, MutationPcs, RegistryOK, Forget, Rooms,
       room_vars, redis
  <2>2. LiveRoomIsFound'
    BY <1>6, LiveRoomsAssumption, <2>0 DEF RoomsIInv, LiveRoomsTypeOK, LiveRoomIsFound, Live,
       Rooms, Exists, CreationFacts, CreationFact, EndLoad, LoaderGoes, Remember, room_vars,
       redis, work
  <2>3. ASSUME NEW q \in Rooms
        PROVE  CreationFact(q)'
    BY <1>6, LiveRoomsAssumption, <2>0 DEF RoomsIInv, LiveRoomsTypeOK, CreationFacts,
       CreationFact, Exists, Rooms, EndLoad, LoaderGoes, Remember, room_vars, redis, work
  <2>4. ASSUME NEW q \in Rounds
        PROVE  MutationFact(q)'
    BY <1>6, LiveRoomsAssumption, <2>0 DEF RoomsIInv, LiveRoomsTypeOK, MutationFacts,
       MutationFact, MutationAt, CreationAt, Exists, CreationFacts, CreationFact, Rooms, EndLoad,
       LoaderGoes, Remember, room_vars, redis, work
  <2>5. DeletionFacts'
    BY <1>6, LiveRoomsAssumption, <2>0 DEF RoomsIInv, LiveRoomsTypeOK, DeletionFacts,
       DeletionFact, Exists, CreationAt, CreationFacts, CreationFact, MutationFacts, MutationFact,
       MutationAt, Rooms, EndLoad, LoaderGoes, Remember, room_vars, redis, work
  <2>6. ASSUME NEW q \in Rounds
        PROVE  RedisFact(q)'
    BY <1>6, LiveRoomsAssumption, <2>0 DEF RoomsIInv, LiveRoomsTypeOK, RedisFacts, RedisFact,
       Exists, MutationAt, CreationFacts, CreationFact, MutationFacts, MutationFact,
       DeletionFacts, DeletionFact, Rooms, EndLoad, LoaderGoes, Remember, room_vars, redis
  <2>7. LoaderFacts'
    BY <1>6, LiveRoomsAssumption, <2>0 DEF RoomsIInv, LoaderFacts, EndLoad, LoaderGoes, Remember
  <2> QED
    BY <2>1, <2>2, <2>3, <2>4, <2>5, <2>6, <2>7 DEF RoomsIInv, CreationFacts, MutationFacts,
       RedisFacts
<1>7. ASSUME NEW p \in Processes, FenceWorkspace(p)
      PROVE  RoomsIInv'
  <2>1. LiveRoomsTypeOK'
    BY <1>7, LiveRoomsAssumption DEF RoomsIInv, LiveRoomsTypeOK, FenceWorkspace, room_vars, redis,
       work
  <2>2. LiveRoomIsFound'
    BY <1>7, LiveRoomsAssumption DEF RoomsIInv, LiveRoomsTypeOK, LiveRoomIsFound, Live, Rooms,
       Exists, CreationFacts, CreationFact, FenceWorkspace, room_vars, redis, work
  <2>3. ASSUME NEW q \in Rooms
        PROVE  CreationFact(q)'
    BY <1>7, LiveRoomsAssumption DEF RoomsIInv, LiveRoomsTypeOK, CreationFacts, CreationFact,
       Exists, Rooms, FenceWorkspace, room_vars, redis, work
  <2>4. ASSUME NEW q \in Rounds
        PROVE  MutationFact(q)'
    BY <1>7, LiveRoomsAssumption DEF RoomsIInv, LiveRoomsTypeOK, MutationFacts, MutationFact,
       MutationAt, CreationAt, Exists, CreationFacts, CreationFact, Rooms, FenceWorkspace,
       room_vars, redis, work
  <2>5. DeletionFacts'
    BY <1>7, LiveRoomsAssumption DEF RoomsIInv, DeletionFacts, DeletionFact, FenceWorkspace
  <2>6. ASSUME NEW q \in Rounds
        PROVE  RedisFact(q)'
    BY <1>7, LiveRoomsAssumption DEF RoomsIInv, LiveRoomsTypeOK, RedisFacts, RedisFact, Exists,
       MutationAt, CreationFacts, CreationFact, MutationFacts, MutationFact, DeletionFacts,
       DeletionFact, Rooms, FenceWorkspace, room_vars, redis
  <2>7. LoaderFacts'
    BY <1>7, LiveRoomsAssumption DEF RoomsIInv, LoaderFacts, FenceWorkspace
  <2> QED
    BY <2>1, <2>2, <2>3, <2>4, <2>5, <2>6, <2>7 DEF RoomsIInv, CreationFacts, MutationFacts,
       RedisFacts
<1>8. ASSUME NEW p \in Processes, CrashServer(p)
      PROVE  RoomsIInv'
  <2>1. LiveRoomsTypeOK'
    BY <1>8, LiveRoomsAssumption DEF RoomsIInv, LiveRoomsTypeOK, Rooms, NoEntry, CrashServer,
       Fault, NoCreation, NoMutation, LoaderGoes, NoDeletion, room_vars, redis
  <2>2. LiveRoomIsFound'
    BY <1>8, LiveRoomsAssumption DEF RoomsIInv, LiveRoomsTypeOK, LiveRoomIsFound, Live, Rooms,
       Exists, CreationFacts, CreationFact, CrashServer, Fault, NoCreation, NoMutation,
       LoaderGoes, NoDeletion, room_vars, redis
  <2>3. ASSUME NEW q \in Rooms
        PROVE  CreationFact(q)'
    BY <1>8, LiveRoomsAssumption DEF RoomsIInv, LiveRoomsTypeOK, CreationFacts, CreationFact,
       Exists, Rooms, CrashServer, Fault, NoCreation, NoMutation, LoaderGoes, NoDeletion,
       room_vars, redis
  <2>4. ASSUME NEW q \in Rounds
        PROVE  MutationFact(q)'
    BY <1>8, LiveRoomsAssumption DEF RoomsIInv, LiveRoomsTypeOK, MutationFacts, MutationFact,
       MutationAt, CreationAt, Exists, CreationFacts, CreationFact, Rooms, CrashServer, Fault,
       NoCreation, NoMutation, LoaderGoes, NoDeletion, room_vars, redis
  <2>5. DeletionFacts'
    BY <1>8, LiveRoomsAssumption DEF RoomsIInv, LiveRoomsTypeOK, DeletionFacts, DeletionFact,
       Exists, CreationAt, CreationFacts, CreationFact, MutationFacts, MutationFact, MutationAt,
       Rooms, CrashServer, Fault, NoCreation, NoMutation, LoaderGoes, NoDeletion, room_vars, redis
  <2>6. ASSUME NEW q \in Rounds
        PROVE  RedisFact(q)'
    BY <1>8, LiveRoomsAssumption DEF RoomsIInv, LiveRoomsTypeOK, RedisFacts, RedisFact, Exists,
       DeletionFacts, DeletionFact, Rooms, CrashServer, Fault, NoCreation, NoMutation, LoaderGoes,
       NoDeletion, room_vars, redis, work
  <2>7. LoaderFacts'
    BY <1>8, LiveRoomsAssumption DEF RoomsIInv, LoaderFacts, CrashServer, Fault, LoaderGoes
  <2> QED
    BY <2>1, <2>2, <2>3, <2>4, <2>5, <2>6, <2>7 DEF RoomsIInv, CreationFacts, MutationFacts,
       RedisFacts
<1>9. ASSUME NEW p \in Processes, NEW r \in Rooms, Retire(p, r)
      PROVE  RoomsIInv'
  <2>0. /\ rooms' \in [Rooms -> RoomRow] /\ RegistryOK' /\ LiveRoomIsFound'
        /\ \A q \in Rooms \ {r} : rooms'[q] = rooms[q]
        /\ rooms[r].expired /\ rooms'[r].expired
        /\ rooms[r].status \in {"active", "ended"} /\ rooms'[r].status \in {"ended", "deleted"}
        /\ r \in Rounds /\ ~Exists(r)' => MutationAt(r, "idle")
    <3>1. rooms[r].expired /\ r \in Rooms
      BY <1>9 DEF Retire
    <3>2. CASE Ended(r) /\ rooms[r].status = "active"
      BY <3>1, <3>2, RoomEnded DEF RoomsIInv, Exists
    <3>3. CASE Deleted({r}) /\ Exists(r) /\ (r \in Rounds => MutationAt(r, "idle"))
      BY <3>1, <3>3, RoomsDeleted DEF RoomsIInv, Exists
    <3> QED
      BY <1>9, <3>2, <3>3, LiveRoomsAssumption DEF Retire, Exists
  <2>1. LiveRoomsTypeOK'
    BY <1>9, <2>0, LiveRoomsAssumption DEF Retire, Forget, RoomsIInv, LiveRoomsTypeOK, RoomRow,
       CreationRow, CreationPcs, MutationRow, MutationPcs, RegistryOK, Forget, Rooms, room_vars,
       redis, work
  <2>2. LiveRoomIsFound'
    BY <2>0
  <2>3. ASSUME NEW q \in Rooms
        PROVE  CreationFact(q)'
    BY <1>9, <2>0, LiveRoomsAssumption DEF Retire, RoomsIInv, CreationFacts, CreationFact, Exists,
       Rooms, room_vars, redis, work
  <2>4. ASSUME NEW q \in Rounds
        PROVE  MutationFact(q)'
    BY <1>9, <2>0, LiveRoomsAssumption DEF Retire, RoomsIInv, MutationFacts, MutationFact,
       MutationAt, CreationAt, Exists, Rooms, room_vars, redis, work, CreationFacts
  <2>5. DeletionFacts'
    BY <1>9, <2>0, LiveRoomsAssumption DEF Retire, RoomsIInv, DeletionFacts, DeletionFact, Exists,
       CreationAt, Rooms, room_vars, redis, work
  <2>6. ASSUME NEW q \in Rounds
        PROVE  RedisFact(q)'
    BY <1>9, <2>0, LiveRoomsAssumption DEF Retire, RoomsIInv, RedisFacts, RedisFact, Exists,
       MutationAt, Rooms, room_vars, redis, work, CreationFacts, CreationFact
  <2>7. LoaderFacts'
    BY <1>9, LiveRoomsAssumption, <2>0 DEF RoomsIInv, LiveRoomsTypeOK, LoaderFacts, Retire, Ended,
       Deleted, Forget, OwnEntry, Exists, NoEntry, MutationAt, room_vars, redis, work
  <2> QED
    BY <2>1, <2>2, <2>3, <2>4, <2>5, <2>6, <2>7 DEF RoomsIInv, CreationFacts, MutationFacts,
       RedisFacts
<1>10. ASSUME NEW r \in Rounds, NEW c \in Codes, ReserveUnknown(r, c)
      PROVE  RoomsIInv'
  <2>1. LiveRoomsTypeOK'
    BY <1>10, LiveRoomsAssumption DEF RoomsIInv, LiveRoomsTypeOK, Rooms, NoEntry, ReserveUnknown,
       MayTry, CreationAt, CreationGoes, Fault, NoCreation, room_vars, redis
  <2>2. LiveRoomIsFound'
    BY <1>10, LiveRoomsAssumption DEF RoomsIInv, LiveRoomsTypeOK, LiveRoomIsFound, Live, Rooms,
       Exists, CreationFacts, CreationFact, ReserveUnknown, MayTry, CreationAt, CreationGoes,
       Fault, NoCreation, room_vars, redis
  <2>3. ASSUME NEW q \in Rooms
        PROVE  CreationFact(q)'
    BY <1>10, LiveRoomsAssumption DEF RoomsIInv, LiveRoomsTypeOK, CreationFacts, CreationFact,
       Exists, Rooms, ReserveUnknown, MayTry, CreationAt, CreationGoes, Fault, NoCreation,
       room_vars, redis
  <2>4. ASSUME NEW q \in Rounds
        PROVE  MutationFact(q)'
    BY <1>10, LiveRoomsAssumption DEF RoomsIInv, LiveRoomsTypeOK, MutationFacts, MutationFact,
       MutationAt, CreationAt, Exists, CreationFacts, CreationFact, Rooms, ReserveUnknown, MayTry,
       CreationGoes, Fault, NoCreation, room_vars, redis, work
  <2>5. DeletionFacts'
    BY <1>10, LiveRoomsAssumption DEF RoomsIInv, LiveRoomsTypeOK, DeletionFacts, DeletionFact,
       Exists, CreationAt, CreationFacts, CreationFact, MutationFacts, MutationFact, MutationAt,
       Rooms, ReserveUnknown, MayTry, CreationGoes, Fault, NoCreation, room_vars, redis, work
  <2>6. ASSUME NEW q \in Rounds
        PROVE  RedisFact(q)'
    BY <1>10, LiveRoomsAssumption DEF RoomsIInv, LiveRoomsTypeOK, RedisFacts, RedisFact, Exists,
       DeletionFacts, DeletionFact, Rooms, ReserveUnknown, MayTry, CreationAt, CreationGoes,
       Fault, NoCreation, room_vars, redis, work
  <2>7. LoaderFacts'
    BY <1>10, LiveRoomsAssumption DEF RoomsIInv, LoaderFacts, ReserveUnknown
  <2> QED
    BY <2>1, <2>2, <2>3, <2>4, <2>5, <2>6, <2>7 DEF RoomsIInv, CreationFacts, MutationFacts,
       RedisFacts
<1>11. ASSUME NEW r \in Rooms, CheckCode(r)
      PROVE  RoomsIInv'
  <2>0. /\ creation[r].pc \in {"reserved", "checked"}
        /\ creation' \in [Rooms -> CreationRow]
        /\ \A q \in Rooms \ {r} : creation'[q] = creation[q]
        /\ creation'[r].pc \in {"again", "checked", "create"}
        /\ creation'[r].code = creation[r].code /\ creation'[r].tries = creation[r].tries
    <3>1. PICK pc \in {"again", "checked", "create"} : CreationGoes(r, pc)
      BY <1>11 DEF CheckCode
    <3>2. pc \in CreationPcs
      BY DEF CreationPcs
    <3>3. creation[r].pc \in {"reserved", "checked"}
      BY <1>11 DEF CheckCode, CreationAt
    <3> QED
      BY <3>1, <3>2, <3>3, CreationGoesOn DEF RoomsIInv
  <2>1. LiveRoomsTypeOK'
    BY <1>11, <2>0, LiveRoomsAssumption DEF CheckCode, RoomsIInv, LiveRoomsTypeOK, RoomRow,
       CreationRow, CreationPcs, MutationRow, MutationPcs, RegistryOK, Forget, Rooms, room_vars,
       redis, work
  <2>2. LiveRoomIsFound'
    BY <1>11, <2>0, LiveRoomsAssumption DEF CheckCode, RoomsIInv, LiveRoomIsFound, Live, Rooms,
       room_vars, redis, work
  <2>3. ASSUME NEW q \in Rooms
        PROVE  CreationFact(q)'
    BY <1>11, <2>0, LiveRoomsAssumption DEF CheckCode, RoomsIInv, CreationFacts, CreationFact,
       Exists, Rooms, room_vars, redis
  <2>4. ASSUME NEW q \in Rounds
        PROVE  MutationFact(q)'
    BY <1>11, <2>0, LiveRoomsAssumption DEF CheckCode, RoomsIInv, MutationFacts, MutationFact,
       MutationAt, CreationAt, Exists, Rooms, room_vars, redis
  <2>5. DeletionFacts'
    BY <1>11, <2>0, LiveRoomsAssumption DEF CheckCode, RoomsIInv, DeletionFacts, DeletionFact,
       Exists, CreationAt, Rooms, room_vars, redis, work
  <2>6. ASSUME NEW q \in Rounds
        PROVE  RedisFact(q)'
    BY <1>11, <2>0, LiveRoomsAssumption DEF CheckCode, RoomsIInv, RedisFacts, RedisFact, Exists,
       MutationAt, Rooms, room_vars, redis, work
  <2>7. LoaderFacts'
    BY <1>11, LiveRoomsAssumption, <2>0 DEF RoomsIInv, LoaderFacts, CheckCode
  <2> QED
    BY <2>1, <2>2, <2>3, <2>4, <2>5, <2>6, <2>7 DEF RoomsIInv, CreationFacts, MutationFacts,
       RedisFacts
<1>12. ASSUME NEW r \in Rooms, CreateSession(r)
      PROVE  RoomsIInv'
  <2>0. /\ creation[r].pc \in {"create"}
        /\ creation' \in [Rooms -> CreationRow]
        /\ \A q \in Rooms \ {r} : creation'[q] = creation[q]
        /\ creation'[r].pc \in {"publish", "undo", "again"}
        /\ rooms' \in [Rooms -> RoomRow] /\ RegistryOK' /\ LiveRoomIsFound'
        /\ \A q \in Rooms \ {r} : rooms'[q] = rooms[q]
        /\ \/ /\ ~fenced /\ creation'[r].pc = "publish"
              /\ rooms'[r] = [status |-> "active", code |-> creation[r].code, expired |-> FALSE]
           \/ rooms'[r] = rooms[r] /\ creation'[r].pc # "publish"
        /\ rooms[r].status = "absent" /\ creation[r].code \in Codes
        /\ creation'[r].tries = creation[r].tries
    <3>1. creation[r].pc = "create" /\ creation[r].code \in Codes /\ rooms[r].status = "absent"
      BY <1>12, Types DEF CreateSession, CreationAt, RoomsIInv, CreationFacts, CreationFact,
         RoomRow
    <3>2. rooms \in [Rooms -> RoomRow] /\ RegistryOK
      BY Types DEF RoomsIInv, LiveRoomsTypeOK, RegistryOK
    <3>3. {"publish", "undo", "again"} \subseteq CreationPcs
      BY DEF CreationPcs
    <3>4. CASE ~fenced /\ Claimable(r, creation[r].code)
      <4>1. Inserted(r, creation[r].code) /\ CreationGoes(r, "publish")
        BY <1>12, <3>4 DEF CreateSession
      <4>2. /\ creation' \in [Rooms -> CreationRow] /\ creation'[r].pc = "publish"
            /\ \A q \in Rooms \ {r} : creation'[q] = creation[q]
            /\ creation'[r].tries = creation[r].tries
        BY <3>3, <4>1, CreationGoesOn DEF RoomsIInv
      <4> QED
        BY <3>1, <3>4, <4>1, <4>2, RoomInserted DEF RoomsIInv
    <3>5. CASE fenced \/ ~Claimable(r, creation[r].code)
      <4>1. PICK pc \in {"undo", "again"} : CreationGoes(r, pc)
        BY <1>12, <3>5 DEF CreateSession
      <4>2. UNCHANGED << rooms, registry >>
        BY <1>12, <3>5 DEF CreateSession, room_vars
      <4>3. /\ creation' \in [Rooms -> CreationRow] /\ creation'[r].pc = pc
            /\ \A q \in Rooms \ {r} : creation'[q] = creation[q]
            /\ creation'[r].tries = creation[r].tries
        BY <3>3, <4>1, CreationGoesOn DEF RoomsIInv
      <4> QED
        BY <3>1, <3>2, <4>2, <4>3 DEF RoomsIInv, LiveRoomIsFound, Live, RegistryOK
    <3> QED
      BY <3>4, <3>5
  <2>1. LiveRoomsTypeOK'
    BY <1>12, <2>0, LiveRoomsAssumption DEF CreateSession, RoomsIInv, LiveRoomsTypeOK, RoomRow,
       CreationRow, CreationPcs, MutationRow, MutationPcs, RegistryOK, Forget, Rooms, room_vars,
       redis, work
  <2>2. LiveRoomIsFound'
    BY <2>0
  <2>3. ASSUME NEW q \in Rooms
        PROVE  CreationFact(q)'
    BY <1>12, <2>0, LiveRoomsAssumption DEF CreateSession, RoomsIInv, CreationFacts, CreationFact,
       Exists, Rooms, room_vars, redis
  <2>4. ASSUME NEW q \in Rounds
        PROVE  MutationFact(q)'
    BY <1>12, <2>0, LiveRoomsAssumption DEF CreateSession, RoomsIInv, MutationFacts, MutationFact,
       MutationAt, CreationAt, Exists, Rooms, room_vars, redis
  <2>5. DeletionFacts'
    BY <1>12, <2>0, LiveRoomsAssumption DEF CreateSession, RoomsIInv, DeletionFacts, DeletionFact,
       Exists, CreationAt, Rooms, room_vars, redis, work, CreationFacts, CreationFact
  <2>6. ASSUME NEW q \in Rounds
        PROVE  RedisFact(q)'
    BY <1>12, <2>0, LiveRoomsAssumption DEF CreateSession, RoomsIInv, RedisFacts, RedisFact,
       Exists, MutationAt, Rooms, room_vars, redis, work
  <2>7. LoaderFacts'
    BY <1>12, LiveRoomsAssumption, <2>0 DEF RoomsIInv, LoaderFacts, CreateSession, CreationGoes
  <2> QED
    BY <2>1, <2>2, <2>3, <2>4, <2>5, <2>6, <2>7 DEF RoomsIInv, CreationFacts, MutationFacts,
       RedisFacts
<1>13. ASSUME NEW r \in Rooms, CreateFails(r)
      PROVE  RoomsIInv'
  <2>0. /\ creation[r].pc \in {"reserved", "checked", "create"}
        /\ creation' \in [Rooms -> CreationRow]
        /\ \A q \in Rooms \ {r} : creation'[q] = creation[q]
        /\ creation'[r].pc \in {"undo"}
        /\ rooms' \in [Rooms -> RoomRow] /\ RegistryOK' /\ LiveRoomIsFound'
        /\ \A q \in Rooms \ {r} : rooms'[q] = rooms[q]
        /\ \/ /\ ~fenced /\ creation[r].pc = "create" /\ rooms[r].status = "absent"
              /\ rooms'[r] = [status |-> "active", code |-> creation[r].code, expired |-> FALSE]
           \/ rooms'[r] = rooms[r]
        /\ rooms[r].status = "absent" /\ creation[r].code \in Codes
        /\ faults' # 0 /\ faults' \in 0..MaxFaults
    <3>1. /\ creation[r].pc \in {"reserved", "checked", "create"} /\ creation[r].code \in Codes
          /\ rooms[r].status = "absent"
      BY <1>13, Types DEF CreateFails, RoomsIInv, CreationFacts, CreationFact, RoomRow
    <3>2. rooms \in [Rooms -> RoomRow] /\ RegistryOK
      BY Types DEF RoomsIInv, LiveRoomsTypeOK, RegistryOK
    <3>3. "undo" \in CreationPcs
      BY DEF CreationPcs
    <3>4. /\ creation' \in [Rooms -> CreationRow] /\ creation'[r].pc = "undo"
          /\ \A q \in Rooms \ {r} : creation'[q] = creation[q]
      BY <1>13, <3>3, CreationGoesOn DEF RoomsIInv, CreateFails
    <3>5. faults' # 0 /\ faults' \in 0..MaxFaults
      BY <1>13, LiveRoomsAssumption DEF CreateFails, Fault, RoomsIInv, LiveRoomsTypeOK
    <3>6. CASE UNCHANGED room_vars
      BY <3>1, <3>2, <3>4, <3>5, <3>6 DEF RoomsIInv, LiveRoomIsFound, Live, RegistryOK, room_vars
    <3>7. CASE /\ CreationAt(r, "create") /\ ~fenced /\ Claimable(r, creation[r].code)
               /\ Inserted(r, creation[r].code)
      BY <3>1, <3>4, <3>5, <3>7, RoomInserted DEF RoomsIInv, CreationAt
    <3> QED
      BY <1>13, <3>6, <3>7 DEF CreateFails
  <2>1. LiveRoomsTypeOK'
    BY <1>13, <2>0, LiveRoomsAssumption DEF CreateFails, RoomsIInv, LiveRoomsTypeOK, RoomRow,
       CreationRow, CreationPcs, MutationRow, MutationPcs, RegistryOK, Forget, Rooms, room_vars,
       redis, work
  <2>2. LiveRoomIsFound'
    BY <2>0
  <2>3. ASSUME NEW q \in Rooms
        PROVE  CreationFact(q)'
    BY <1>13, <2>0, LiveRoomsAssumption DEF CreateFails, RoomsIInv, CreationFacts, CreationFact,
       Exists, Rooms, room_vars, redis
  <2>4. ASSUME NEW q \in Rounds
        PROVE  MutationFact(q)'
    BY <1>13, <2>0, LiveRoomsAssumption DEF CreateFails, RoomsIInv, MutationFacts, MutationFact,
       MutationAt, CreationAt, Exists, Rooms, room_vars, redis
  <2>5. DeletionFacts'
    BY <1>13, <2>0, LiveRoomsAssumption DEF CreateFails, RoomsIInv, DeletionFacts, DeletionFact,
       Exists, CreationAt, Rooms, room_vars, redis, work
  <2>6. ASSUME NEW q \in Rounds
        PROVE  RedisFact(q)'
    BY <1>13, <2>0, LiveRoomsAssumption DEF RedisFacts, RedisFact, Exists
  <2>7. LoaderFacts'
    BY <1>13, LiveRoomsAssumption, <2>0 DEF RoomsIInv, LoaderFacts, CreateFails, CreationGoes
  <2> QED
    BY <2>1, <2>2, <2>3, <2>4, <2>5, <2>6, <2>7 DEF RoomsIInv, CreationFacts, MutationFacts,
       RedisFacts
<1>14. ASSUME NEW r \in Rooms, PublishSession(r)
      PROVE  RoomsIInv'
  <2>0. /\ creation[r].pc = "publish" /\ r \in Rounds
        /\ creation' \in [Rooms -> CreationRow]
        /\ \A q \in Rooms \ {r} : creation'[q] = creation[q]
        /\ creation'[r].pc = "done"
        /\ faults' \in 0..MaxFaults /\ (faults' = 0 => faults = 0)
        /\ cached' \in {cached, cached \cup {r}}
    <3>1. creation[r].pc = "publish" /\ r \in Rounds
      BY <1>14 DEF PublishSession, CreationAt, RoomsIInv, CreationFacts, CreationFact
    <3>2. "done" \in CreationPcs
      BY DEF CreationPcs
    <3>3. /\ creation' \in [Rooms -> CreationRow] /\ creation'[r].pc = "done"
          /\ \A q \in Rooms \ {r} : creation'[q] = creation[q]
      BY <1>14, <3>2, CreationGoesOn DEF RoomsIInv, PublishSession
    <3>4. PICK ok \in BOOLEAN : MayFail(ok) /\ cached' = IF ok THEN cached \cup {r} ELSE cached
      BY <1>14 DEF PublishSession
    <3> QED
      BY <3>1, <3>3, <3>4, FaultOrNot DEF RoomsIInv
  <2>1. LiveRoomsTypeOK'
    BY ZenonT(40), <1>14, <2>0, LiveRoomsAssumption
       DEF PublishSession, Remember, RoomsIInv, LiveRoomsTypeOK, RoomRow, CreationRow,
           CreationPcs, MutationRow, MutationPcs, RegistryOK, Forget, Rooms, room_vars, redis, work
  <2>2. LiveRoomIsFound'
    BY <1>14, <2>0, LiveRoomsAssumption DEF PublishSession, RoomsIInv, LiveRoomIsFound, Live,
       Rooms, room_vars, redis, work
  <2>3. ASSUME NEW q \in Rooms
        PROVE  CreationFact(q)'
    BY <1>14, <2>0, LiveRoomsAssumption DEF PublishSession, RoomsIInv, CreationFacts,
       CreationFact, Exists, Rooms, room_vars, redis
  <2>4. ASSUME NEW q \in Rounds
        PROVE  MutationFact(q)'
    BY <1>14, <2>0, LiveRoomsAssumption DEF PublishSession, RoomsIInv, MutationFacts,
       MutationFact, MutationAt, CreationAt, Exists, Rooms, room_vars, redis
  <2>5. DeletionFacts'
    BY <1>14, <2>0, LiveRoomsAssumption DEF PublishSession, RoomsIInv, DeletionFacts,
       DeletionFact, Exists, CreationAt, Rooms, room_vars, redis, work, MutationFacts,
       MutationFact, MutationAt, CreationFacts
  <2>6. ASSUME NEW q \in Rounds
        PROVE  RedisFact(q)'
    BY <1>14, <2>0, LiveRoomsAssumption DEF PublishSession, RoomsIInv, RedisFacts, RedisFact,
       Exists, MutationAt, Rooms, room_vars, redis, work, CreationFacts, CreationFact
  <2>7. LoaderFacts'
    BY <1>14, LiveRoomsAssumption, <2>0 DEF RoomsIInv, LoaderFacts, PublishSession, CreationGoes
  <2> QED
    BY <2>1, <2>2, <2>3, <2>4, <2>5, <2>6, <2>7 DEF RoomsIInv, CreationFacts, MutationFacts,
       RedisFacts
<1>15. ASSUME NEW r \in Rooms, ReleaseReservation(r)
      PROVE  RoomsIInv'
  <2>0. /\ creation[r].pc \in {"again", "undo"} /\ r \in Rounds
        /\ creation' \in [Rooms -> CreationRow]
        /\ \A q \in Rooms \ {r} : creation'[q] = creation[q]
        /\ creation'[r].pc = IF creation[r].pc = "again" THEN "idle" ELSE "failed"
        /\ faults' \in 0..MaxFaults /\ (faults' = 0 => faults = 0 /\ reservation' = ReservationsWithout(r))
        /\ reservation' \in {reservation, ReservationsWithout(r)}
    <3>1. creation[r].pc \in {"again", "undo"} /\ r \in Rounds
      BY <1>15 DEF ReleaseReservation, CreationAt, RoomsIInv, CreationFacts, CreationFact
    <3>2. "failed" \in CreationPcs
      BY DEF CreationPcs
    <3>3. /\ creation' \in [Rooms -> CreationRow]
          /\ creation'[r].pc = IF creation[r].pc = "again" THEN "idle" ELSE "failed"
          /\ \A q \in Rooms \ {r} : creation'[q] = creation[q]
      <4>1. CASE creation[r].pc = "again"
        <5>1. TryAnother(r) /\ creation[r].tries < MaxTries
          BY <1>15, <4>1 DEF ReleaseReservation, CreationAt, RoomsIInv, CreationFacts,
             CreationFact
        <5> QED
          BY <4>1, <5>1, CreationTriesOn DEF RoomsIInv
      <4>2. CASE creation[r].pc # "again"
        <5>1. CreationGoes(r, "failed")
          BY <1>15, <4>2 DEF ReleaseReservation, CreationAt
        <5> QED
          BY <3>2, <4>2, <5>1, CreationGoesOn DEF RoomsIInv
      <4> QED
        BY <4>1, <4>2
    <3>4. PICK ok \in BOOLEAN :
            MayFail(ok) /\ reservation' = IF ok THEN ReservationsWithout(r) ELSE reservation
      BY <1>15 DEF ReleaseReservation
    <3>5. faults' = 0 => ok
      BY <3>4, LiveRoomsAssumption DEF MayFail, Fault, RoomsIInv, LiveRoomsTypeOK
    <3> QED
      BY <3>1, <3>3, <3>4, <3>5, FaultOrNot DEF RoomsIInv
  <2>1. LiveRoomsTypeOK'
    BY <1>15, <2>0, LiveRoomsAssumption DEF ReleaseReservation, ReservationsWithout, RoomsIInv,
       LiveRoomsTypeOK, RoomRow, CreationRow, CreationPcs, MutationRow, MutationPcs, RegistryOK,
       Forget, Rooms, room_vars, redis
  <2>2. LiveRoomIsFound'
    BY <1>15, <2>0, LiveRoomsAssumption DEF ReleaseReservation, ReservationsWithout, RoomsIInv,
       LiveRoomIsFound, Live, Rooms, room_vars, redis
  <2>3. ASSUME NEW q \in Rooms
        PROVE  CreationFact(q)'
    BY <1>15, <2>0, LiveRoomsAssumption DEF ReleaseReservation, ReservationsWithout, RoomsIInv,
       CreationFacts, CreationFact, Exists, Rooms, room_vars, redis, work
  <2>4. ASSUME NEW q \in Rounds
        PROVE  MutationFact(q)'
    BY <1>15, <2>0, LiveRoomsAssumption DEF ReleaseReservation, ReservationsWithout, RoomsIInv,
       MutationFacts, MutationFact, MutationAt, CreationAt, Exists, Rooms, room_vars, redis, work
  <2>5. DeletionFacts'
    BY <1>15, <2>0, LiveRoomsAssumption DEF ReleaseReservation, ReservationsWithout, RoomsIInv,
       DeletionFacts, DeletionFact, Exists, CreationAt, Rooms, room_vars, redis
  <2>6. ASSUME NEW q \in Rounds
        PROVE  RedisFact(q)'
    BY <1>15, <2>0, LiveRoomsAssumption DEF ReleaseReservation, ReservationsWithout, RoomsIInv,
       RedisFacts, RedisFact, Exists, MutationAt, Rooms, room_vars, redis
  <2>7. LoaderFacts'
    BY <1>15, LiveRoomsAssumption, <2>0 DEF RoomsIInv, LoaderFacts, ReleaseReservation,
       CreationGoes
  <2> QED
    BY <2>1, <2>2, <2>3, <2>4, <2>5, <2>6, <2>7 DEF RoomsIInv, CreationFacts, MutationFacts,
       RedisFacts
<1>16. ASSUME NEW r \in Rooms, CreateSessionWithCredential(r)
      PROVE  RoomsIInv'
  <2>0. /\ creation[r].pc = "insert"
        /\ creation' \in [Rooms -> CreationRow]
        /\ \A q \in Rooms \ {r} : creation'[q] = creation[q]
        /\ creation'[r].pc \in {"done", "failed", "idle"}
        /\ rooms' \in [Rooms -> RoomRow] /\ RegistryOK' /\ LiveRoomIsFound'
        /\ \A q \in Rooms \ {r} : rooms'[q] = rooms[q]
        /\ \/ /\ ~fenced /\ creation'[r].pc \in {"done", "failed"}
              /\ rooms'[r] = [status |-> "active", code |-> creation[r].code, expired |-> FALSE]
           \/ rooms'[r] = rooms[r]
        /\ rooms[r].status = "absent" /\ creation[r].code \in Codes
        /\ faults' \in 0..MaxFaults /\ (faults' = 0 => faults = 0) /\ r \notin Rounds
    <3>1. /\ creation[r].pc = "insert" /\ creation[r].code \in Codes /\ rooms[r].status = "absent"
          /\ creation[r].tries < MaxTries
      BY <1>16, Types DEF CreateSessionWithCredential, CreationAt, RoomsIInv, CreationFacts,
         CreationFact, RoomRow
    <3>2. rooms \in [Rooms -> RoomRow] /\ RegistryOK
      BY Types DEF RoomsIInv, LiveRoomsTypeOK, RegistryOK
    <3>3. {"done", "failed"} \subseteq CreationPcs
      BY DEF CreationPcs
    <3>6. r \notin Rounds
      BY <3>1 DEF RoomsIInv, CreationFacts, CreationFact
    <3>4. CASE ~fenced /\ Claimable(r, creation[r].code)
      <4>1. PICK ok \in BOOLEAN : /\ MayFail(ok) /\ Inserted(r, creation[r].code)
                                  /\ CreationGoes(r, IF ok THEN "done" ELSE "failed")
        BY <1>16, <3>4 DEF CreateSessionWithCredential
      <4>2. PICK pc \in {"done", "failed"} : CreationGoes(r, pc)
        BY <4>1
      <4>3. /\ creation' \in [Rooms -> CreationRow] /\ creation'[r].pc = pc
            /\ \A q \in Rooms \ {r} : creation'[q] = creation[q]
        BY <3>3, <4>2, CreationGoesOn DEF RoomsIInv
      <4>4. faults' \in 0..MaxFaults /\ (faults' = 0 => faults = 0)
        BY <4>1, FaultOrNot DEF RoomsIInv
      <4>5. /\ rooms' \in [Rooms -> RoomRow] /\ RegistryOK' /\ LiveRoomIsFound'
            /\ \A q \in Rooms \ {r} : rooms'[q] = rooms[q]
            /\ rooms'[r] = [status |-> "active", code |-> creation[r].code, expired |-> FALSE]
        BY <3>1, <3>4, <4>1, RoomInserted DEF RoomsIInv
      <4> QED
        BY <3>1, <3>4, <3>6, <4>3, <4>4, <4>5
    <3>5. CASE fenced \/ ~Claimable(r, creation[r].code)
      <4>1. UNCHANGED << rooms, registry, faults >>
        BY <1>16, <3>5 DEF CreateSessionWithCredential, room_vars
      <4>2. CASE fenced
        <5>1. CreationGoes(r, "failed")
          BY <1>16, <4>2 DEF CreateSessionWithCredential
        <5>2. /\ creation' \in [Rooms -> CreationRow] /\ creation'[r].pc = "failed"
              /\ \A q \in Rooms \ {r} : creation'[q] = creation[q]
          BY <3>3, <5>1, CreationGoesOn DEF RoomsIInv
        <5> QED
          BY <3>1, <3>2, <3>6, <4>1, <5>2 DEF RoomsIInv, LiveRoomsTypeOK, LiveRoomIsFound, Live,
             RegistryOK
      <4>3. CASE ~fenced
        <5>1. TryAnother(r)
          BY <1>16, <3>5, <4>3 DEF CreateSessionWithCredential
        <5>2. /\ creation' \in [Rooms -> CreationRow] /\ creation'[r].pc = "idle"
              /\ \A q \in Rooms \ {r} : creation'[q] = creation[q]
          BY <3>1, <5>1, CreationTriesOn DEF RoomsIInv
        <5> QED
          BY <3>1, <3>2, <3>6, <4>1, <5>2 DEF RoomsIInv, LiveRoomsTypeOK, LiveRoomIsFound, Live,
             RegistryOK
      <4> QED
        BY <4>2, <4>3
    <3> QED
      BY <3>4, <3>5
  <2>1. LiveRoomsTypeOK'
    BY <1>16, <2>0, LiveRoomsAssumption DEF CreateSessionWithCredential, RoomsIInv,
       LiveRoomsTypeOK, RoomRow, CreationRow, CreationPcs, MutationRow, MutationPcs, RegistryOK,
       Forget, Rooms, room_vars, redis, work
  <2>2. LiveRoomIsFound'
    BY <2>0
  <2>3. ASSUME NEW q \in Rooms
        PROVE  CreationFact(q)'
    BY <1>16, <2>0, LiveRoomsAssumption DEF CreateSessionWithCredential, RoomsIInv, CreationFacts,
       CreationFact, Exists, Rooms, room_vars, redis
  <2>4. ASSUME NEW q \in Rounds
        PROVE  MutationFact(q)'
    BY <1>16, <2>0, LiveRoomsAssumption DEF CreateSessionWithCredential, RoomsIInv, MutationFacts,
       MutationFact, MutationAt, CreationAt, Exists, Rooms, room_vars, redis
  <2>5. DeletionFacts'
    BY <1>16, <2>0, LiveRoomsAssumption DEF CreateSessionWithCredential, RoomsIInv, DeletionFacts,
       DeletionFact, Exists, CreationAt, Rooms, room_vars, redis, work
  <2>6. ASSUME NEW q \in Rounds
        PROVE  RedisFact(q)'
    BY <1>16, <2>0, LiveRoomsAssumption DEF CreateSessionWithCredential, RoomsIInv, RedisFacts,
       RedisFact, Exists, MutationAt, Rooms, room_vars, redis, work
  <2>7. LoaderFacts'
    BY <1>16, LiveRoomsAssumption, <2>0 DEF RoomsIInv, LoaderFacts, CreateSessionWithCredential
  <2> QED
    BY <2>1, <2>2, <2>3, <2>4, <2>5, <2>6, <2>7 DEF RoomsIInv, CreationFacts, MutationFacts,
       RedisFacts
<1>17. ASSUME NEW r \in Rooms, ExpireRoom(r)
      PROVE  RoomsIInv'
  <2>0. /\ rooms' \in [Rooms -> RoomRow]
        /\ \A q \in Rooms \ {r} : rooms'[q] = rooms[q]
        /\ rooms'[r].status = rooms[r].status /\ rooms'[r].code = rooms[r].code
        /\ rooms'[r].expired
    <3>1. rooms \in [Rooms -> RoomRow] /\ rooms[r] \in RoomRow
      BY Types DEF RoomsIInv
    <3>2. rooms' = [rooms EXCEPT ![r] = [rooms[r] EXCEPT !.expired = TRUE]]
      BY <1>17, <3>1 DEF ExpireRoom
    <3>3. /\ [rooms[r] EXCEPT !.expired = TRUE] \in RoomRow
          /\ [rooms[r] EXCEPT !.expired = TRUE].expired
          /\ [rooms[r] EXCEPT !.expired = TRUE].status = rooms[r].status
          /\ [rooms[r] EXCEPT !.expired = TRUE].code = rooms[r].code
      BY <3>1 DEF RoomRow
    <3> QED
      BY <3>1, <3>2, <3>3
  <2>1. LiveRoomsTypeOK'
    BY <1>17, <2>0, LiveRoomsAssumption DEF ExpireRoom, RoomsIInv, LiveRoomsTypeOK, RoomRow,
       CreationRow, CreationPcs, MutationRow, MutationPcs, RegistryOK, Forget, Rooms, room_vars,
       redis, work
  <2>2. LiveRoomIsFound'
    BY <1>17, <2>0, LiveRoomsAssumption DEF ExpireRoom, RoomsIInv, LiveRoomIsFound, Live
  <2>3. ASSUME NEW q \in Rooms
        PROVE  CreationFact(q)'
    BY <1>17, <2>0, LiveRoomsAssumption DEF ExpireRoom, RoomsIInv, CreationFacts, CreationFact,
       Exists, Rooms, room_vars, redis, work
  <2>4. ASSUME NEW q \in Rounds
        PROVE  MutationFact(q)'
    BY <1>17, <2>0, LiveRoomsAssumption DEF ExpireRoom, RoomsIInv, MutationFacts, MutationFact,
       MutationAt, CreationAt, Exists, Rooms, room_vars, redis, work
  <2>5. DeletionFacts'
    BY <1>17, <2>0, LiveRoomsAssumption DEF ExpireRoom, RoomsIInv, DeletionFacts, DeletionFact,
       Exists, CreationAt, Rooms, room_vars, redis, work
  <2>6. ASSUME NEW q \in Rounds
        PROVE  RedisFact(q)'
    BY <1>17, <2>0, LiveRoomsAssumption DEF ExpireRoom, RoomsIInv, RedisFacts, RedisFact, Exists,
       MutationAt, Rooms, room_vars, redis, work
  <2>7. LoaderFacts'
    BY <1>17, LiveRoomsAssumption, <2>0 DEF RoomsIInv, LiveRoomsTypeOK, LoaderFacts, ExpireRoom,
       Exists, room_vars, redis, work
  <2> QED
    BY <2>1, <2>2, <2>3, <2>4, <2>5, <2>6, <2>7 DEF RoomsIInv, CreationFacts, MutationFacts,
       RedisFacts
<1>18. ASSUME NEW r \in Rounds, UseEntry(r)
      PROVE  RoomsIInv'
  <2>0. /\ mutation[r].pc = "entry"
        /\ mutation' \in [Rounds -> MutationRow]
        /\ \A q \in Rounds \ {r} : mutation'[q] = mutation[q]
        /\ mutation'[r].pc # "idle" => mutation'[r].op = mutation[r].op
        /\ active' \in [Processes -> SUBSET Rounds]
        /\ mutation'[r].pc \in {"idle", "blind", "cache", "load"}
        /\ mutation'[r].pc = "cache" => ~fenced
        /\ cached' \in {cached, cached \ {r}}
    <3>1. PICK pc \in {"idle", "blind", "cache", "load"} : MutationGoes(r, pc) /\ (pc = "cache" => ~fenced)
      BY <1>18 DEF UseEntry, WithoutSession
    <3>2. {"idle", "blind", "cache", "load"} \subseteq MutationPcs
      BY DEF MutationPcs
    <3>3. /\ mutation' \in [Rounds -> MutationRow] /\ mutation'[r].pc = pc
          /\ \A q \in Rounds \ {r} : mutation'[q] = mutation[q]
          /\ mutation'[r].pc # "idle" => mutation'[r].op = mutation[r].op
      BY <3>1, <3>2, MutationGoesOn DEF RoomsIInv
    <3>4. active' \in [Processes -> SUBSET Rounds]
      BY <1>18 DEF UseEntry, Forget, Remember, RoomsIInv, LiveRoomsTypeOK
    <3> QED
      BY <1>18, <3>1, <3>3, <3>4 DEF UseEntry, MutationAt
  <2>1. LiveRoomsTypeOK'
    BY <1>18, <2>0, LiveRoomsAssumption DEF UseEntry, RoomsIInv, LiveRoomsTypeOK, MutationRow,
       MutationPcs, RegistryOK, Forget, Rooms, room_vars, redis, work
  <2>2. LiveRoomIsFound'
    BY <1>18, <2>0, LiveRoomsAssumption DEF UseEntry, RoomsIInv, LiveRoomIsFound, Live, Rooms,
       room_vars, redis, work
  <2>3. ASSUME NEW q \in Rooms
        PROVE  CreationFact(q)'
    BY <1>18, <2>0, LiveRoomsAssumption DEF UseEntry, RoomsIInv, CreationFacts, CreationFact,
       Exists, Rooms, room_vars, redis
  <2>4. ASSUME NEW q \in Rounds
        PROVE  MutationFact(q)'
    BY <1>18, <2>0, LiveRoomsAssumption DEF UseEntry, RoomsIInv, MutationFacts, MutationFact,
       MutationAt, CreationAt, Exists, Rooms, room_vars, redis
  <2>5. DeletionFacts'
    BY <1>18, <2>0, LiveRoomsAssumption DEF UseEntry, RoomsIInv, DeletionFacts, DeletionFact,
       Exists, CreationAt, Rooms, room_vars, redis, work
  <2>6. ASSUME NEW q \in Rounds
        PROVE  RedisFact(q)'
    BY <1>18, <2>0, LiveRoomsAssumption DEF UseEntry, RoomsIInv, RedisFacts, RedisFact, Exists,
       MutationAt, Rooms, room_vars, redis, work
  <2>7. LoaderFacts'
    BY <1>18, LiveRoomsAssumption, <2>0 DEF RoomsIInv, LoaderFacts, UseEntry, MutationGoes
  <2> QED
    BY <2>1, <2>2, <2>3, <2>4, <2>5, <2>6, <2>7 DEF RoomsIInv, CreationFacts, MutationFacts,
       RedisFacts
<1>19. ASSUME NEW r \in Rounds, UseCached(r)
      PROVE  RoomsIInv'
  <2>0. /\ mutation[r].pc = "cache"
        /\ mutation' \in [Rounds -> MutationRow]
        /\ \A q \in Rounds \ {r} : mutation'[q] = mutation[q]
        /\ mutation'[r].pc # "idle" => mutation'[r].op = mutation[r].op
        /\ mutation'[r].pc \in {"load", "work"}
        /\ mutation'[r].pc = "work" => r \in cached
    <3>1. PICK pc \in {"load", "work"} : MutationGoes(r, pc) /\ (pc = "work" => r \in cached)
      BY <1>19 DEF UseCached, WithoutSession
    <3>2. {"load", "work"} \subseteq MutationPcs
      BY DEF MutationPcs
    <3>3. /\ mutation' \in [Rounds -> MutationRow] /\ mutation'[r].pc = pc
          /\ \A q \in Rounds \ {r} : mutation'[q] = mutation[q]
          /\ mutation'[r].pc # "idle" => mutation'[r].op = mutation[r].op
      BY <3>1, <3>2, MutationGoesOn DEF RoomsIInv
    <3> QED
      BY <1>19, <3>1, <3>3 DEF UseCached, MutationAt
  <2>1. LiveRoomsTypeOK'
    BY <1>19, <2>0, LiveRoomsAssumption DEF UseCached, RoomsIInv, LiveRoomsTypeOK, MutationRow,
       MutationPcs, RegistryOK, Forget, Rooms, room_vars, redis, work
  <2>2. LiveRoomIsFound'
    BY <1>19, <2>0, LiveRoomsAssumption DEF UseCached, RoomsIInv, LiveRoomIsFound, Live, Rooms,
       room_vars, redis, work
  <2>3. ASSUME NEW q \in Rooms
        PROVE  CreationFact(q)'
    BY <1>19, <2>0, LiveRoomsAssumption DEF UseCached, RoomsIInv, CreationFacts, CreationFact,
       Exists, Rooms, room_vars, redis
  <2>4. ASSUME NEW q \in Rounds
        PROVE  MutationFact(q)'
    BY <1>19, <2>0, LiveRoomsAssumption DEF UseCached, RoomsIInv, MutationFacts, MutationFact,
       MutationAt, CreationAt, Exists, Rooms, room_vars, redis, work, RedisFacts, RedisFact
  <2>5. DeletionFacts'
    BY <1>19, <2>0, LiveRoomsAssumption DEF UseCached, RoomsIInv, DeletionFacts, DeletionFact,
       Exists, CreationAt, Rooms, room_vars, redis, work
  <2>6. ASSUME NEW q \in Rounds
        PROVE  RedisFact(q)'
    BY <1>19, <2>0, LiveRoomsAssumption DEF UseCached, RoomsIInv, RedisFacts, RedisFact, Exists,
       MutationAt, Rooms, room_vars, redis, work
  <2>7. LoaderFacts'
    BY <1>19, LiveRoomsAssumption, <2>0 DEF RoomsIInv, LoaderFacts, UseCached
  <2> QED
    BY <2>1, <2>2, <2>3, <2>4, <2>5, <2>6, <2>7 DEF RoomsIInv, CreationFacts, MutationFacts,
       RedisFacts
<1>20. ASSUME NEW r \in Rounds, LoadRow(r)
      PROVE  RoomsIInv'
  <2>0. /\ mutation[r].pc = "load"
        /\ mutation' \in [Rounds -> MutationRow]
        /\ \A q \in Rounds \ {r} : mutation'[q] = mutation[q]
        /\ mutation'[r].pc # "idle" => mutation'[r].op = mutation[r].op
        /\ active' \in [Processes -> SUBSET Rounds]
        /\ mutation'[r].pc \in {"idle", "blind", "fence"}
        /\ mutation'[r].pc = "fence" => Exists(r)
        /\ cached' \in {cached, cached \ {r}}
    <3>1. PICK pc \in {"idle", "blind", "fence"} : MutationGoes(r, pc) /\ (pc = "fence" => Exists(r))
      BY <1>20 DEF LoadRow, WithoutSession
    <3>2. {"idle", "blind", "fence"} \subseteq MutationPcs
      BY DEF MutationPcs
    <3>3. /\ mutation' \in [Rounds -> MutationRow] /\ mutation'[r].pc = pc
          /\ \A q \in Rounds \ {r} : mutation'[q] = mutation[q]
          /\ mutation'[r].pc # "idle" => mutation'[r].op = mutation[r].op
      BY <3>1, <3>2, MutationGoesOn DEF RoomsIInv
    <3>4. active' \in [Processes -> SUBSET Rounds]
      BY <1>20 DEF LoadRow, Forget, Remember, RoomsIInv, LiveRoomsTypeOK
    <3> QED
      BY <1>20, <3>1, <3>3, <3>4 DEF LoadRow, MutationAt
  <2>1. LiveRoomsTypeOK'
    BY <1>20, <2>0, LiveRoomsAssumption DEF LoadRow, RoomsIInv, LiveRoomsTypeOK, MutationRow,
       MutationPcs, RegistryOK, Forget, Rooms, room_vars, redis, work
  <2>2. LiveRoomIsFound'
    BY <1>20, <2>0, LiveRoomsAssumption DEF LoadRow, RoomsIInv, LiveRoomIsFound, Live, Rooms,
       room_vars, redis, work
  <2>3. ASSUME NEW q \in Rooms
        PROVE  CreationFact(q)'
    BY <1>20, <2>0, LiveRoomsAssumption DEF LoadRow, RoomsIInv, CreationFacts, CreationFact,
       Exists, Rooms, room_vars, redis
  <2>4. ASSUME NEW q \in Rounds
        PROVE  MutationFact(q)'
    BY <1>20, <2>0, LiveRoomsAssumption DEF LoadRow, RoomsIInv, MutationFacts, MutationFact,
       MutationAt, CreationAt, Exists, Rooms, room_vars, redis
  <2>5. DeletionFacts'
    BY <1>20, <2>0, LiveRoomsAssumption DEF LoadRow, RoomsIInv, DeletionFacts, DeletionFact,
       Exists, CreationAt, Rooms, room_vars, redis, work
  <2>6. ASSUME NEW q \in Rounds
        PROVE  RedisFact(q)'
    BY <1>20, <2>0, LiveRoomsAssumption DEF LoadRow, RoomsIInv, RedisFacts, RedisFact, Exists,
       MutationAt, Rooms, room_vars, redis, work
  <2>7. LoaderFacts'
    BY <1>20, LiveRoomsAssumption, <2>0 DEF RoomsIInv, LoaderFacts, LoadRow, MutationGoes
  <2> QED
    BY <2>1, <2>2, <2>3, <2>4, <2>5, <2>6, <2>7 DEF RoomsIInv, CreationFacts, MutationFacts,
       RedisFacts
<1>21. ASSUME NEW r \in Rounds, CheckFence(r)
      PROVE  RoomsIInv'
  <2>0. /\ mutation[r].pc = "fence"
        /\ mutation' \in [Rounds -> MutationRow]
        /\ \A q \in Rounds \ {r} : mutation'[q] = mutation[q]
        /\ mutation'[r].pc # "idle" => mutation'[r].op = mutation[r].op
        /\ active' \in [Processes -> SUBSET Rounds]
        /\ mutation'[r].pc \in {"idle", "blind", "work"}
        /\ mutation'[r].pc = "work" => ~fenced
        /\ cached' \in {cached, cached \ {r}}
    <3>1. PICK pc \in {"idle", "blind", "work"} : MutationGoes(r, pc) /\ (pc = "work" => ~fenced)
      BY <1>21 DEF CheckFence, WithoutSession
    <3>2. {"idle", "blind", "work"} \subseteq MutationPcs
      BY DEF MutationPcs
    <3>3. /\ mutation' \in [Rounds -> MutationRow] /\ mutation'[r].pc = pc
          /\ \A q \in Rounds \ {r} : mutation'[q] = mutation[q]
          /\ mutation'[r].pc # "idle" => mutation'[r].op = mutation[r].op
      BY <3>1, <3>2, MutationGoesOn DEF RoomsIInv
    <3>4. active' \in [Processes -> SUBSET Rounds]
      BY <1>21 DEF CheckFence, Forget, Remember, RoomsIInv, LiveRoomsTypeOK
    <3> QED
      BY <1>21, <3>1, <3>3, <3>4 DEF CheckFence, MutationAt
  <2>1. LiveRoomsTypeOK'
    BY <1>21, <2>0, LiveRoomsAssumption DEF CheckFence, RoomsIInv, LiveRoomsTypeOK, MutationRow,
       MutationPcs, RegistryOK, Forget, Rooms, room_vars, redis, work
  <2>2. LiveRoomIsFound'
    BY <1>21, <2>0, LiveRoomsAssumption DEF CheckFence, RoomsIInv, LiveRoomIsFound, Live, Rooms,
       room_vars, redis, work
  <2>3. ASSUME NEW q \in Rooms
        PROVE  CreationFact(q)'
    BY <1>21, <2>0, LiveRoomsAssumption DEF CheckFence, RoomsIInv, CreationFacts, CreationFact,
       Exists, Rooms, room_vars, redis
  <2>4. ASSUME NEW q \in Rounds
        PROVE  MutationFact(q)'
    BY <1>21, <2>0, LiveRoomsAssumption DEF CheckFence, RoomsIInv, MutationFacts, MutationFact,
       MutationAt, CreationAt, Exists, Rooms, room_vars, redis
  <2>5. DeletionFacts'
    BY <1>21, <2>0, LiveRoomsAssumption DEF CheckFence, RoomsIInv, DeletionFacts, DeletionFact,
       Exists, CreationAt, Rooms, room_vars, redis, work
  <2>6. ASSUME NEW q \in Rounds
        PROVE  RedisFact(q)'
    BY <1>21, <2>0, LiveRoomsAssumption DEF CheckFence, RoomsIInv, RedisFacts, RedisFact, Exists,
       MutationAt, Rooms, room_vars, redis, work
  <2>7. LoaderFacts'
    BY <1>21, LiveRoomsAssumption, <2>0 DEF RoomsIInv, LoaderFacts, CheckFence, MutationGoes
  <2> QED
    BY <2>1, <2>2, <2>3, <2>4, <2>5, <2>6, <2>7 DEF RoomsIInv, CreationFacts, MutationFacts,
       RedisFacts
<1>22. ASSUME NEW r \in Rounds, SaveSession(r)
      PROVE  RoomsIInv'
  <2>0. /\ rooms' \in [Rooms -> RoomRow] /\ RegistryOK' /\ LiveRoomIsFound'
        /\ \A q \in Rooms \ {r} : rooms'[q] = rooms[q]
        /\ \/ rooms'[r] = rooms[r]
           \/ /\ Exists(r) /\ rooms'[r].status = "ended"
              /\ rooms'[r].expired = rooms[r].expired
        /\ mutation[r].pc = "work" /\ mutation[r].op # "delete"
        /\ mutation' \in [Rounds -> MutationRow]
        /\ \A q \in Rounds \ {r} : mutation'[q] = mutation[q]
        /\ mutation'[r].pc # "idle" => mutation'[r].op = mutation[r].op
        /\ active' \in [Processes -> SUBSET Rounds]
        /\ faults' \in 0..MaxFaults /\ (faults' = 0 => faults = 0)
        /\ cached' \in {cached, cached \cup {r}}
        /\ mutation'[r].pc \in {"idle", "load", "release"}
        /\ mutation'[r].pc = "release" \/ cached' # cached => ~fenced /\ Exists(r)'
    <3>1. /\ rooms \in [Rooms -> RoomRow] /\ RegistryOK /\ faults \in 0..MaxFaults
          /\ rooms[r] \in RoomRow /\ r \in Rooms
      BY Types DEF RoomsIInv, LiveRoomsTypeOK, RegistryOK, Rooms
    <3>2. mutation[r].pc = "work" /\ mutation[r].op # "delete"
      BY <1>22 DEF SaveSession, MutationAt
    <3>3. {"idle", "load", "release"} \subseteq MutationPcs
      BY DEF MutationPcs
    <3>4. active' \in [Processes -> SUBSET Rounds]
      BY <1>22 DEF SaveSession, Forget, Remember, RoomsIInv, LiveRoomsTypeOK
    <3>5. ASSUME NEW pc \in {"idle", "load", "release"}, MutationGoes(r, pc)
          PROVE  /\ mutation' \in [Rounds -> MutationRow] /\ mutation'[r].pc = pc
                 /\ \A q \in Rounds \ {r} : mutation'[q] = mutation[q]
                 /\ mutation'[r].pc # "idle" => mutation'[r].op = mutation[r].op
      BY <3>3, <3>5, MutationGoesOn DEF RoomsIInv
    <3>6. CASE fenced \/ ~Exists(r)
      <4>1. UNCHANGED << rooms, registry, cached, faults >>
        BY <1>22, <3>6 DEF SaveSession, room_vars
      <4>2. PICK pc \in {"idle", "load"} : MutationGoes(r, pc)
        BY <1>22, <3>6 DEF SaveSession
      <4>3. LiveRoomIsFound'
        BY <4>1 DEF RoomsIInv, LiveRoomIsFound, Live
      <4>4. RegistryOK'
        BY <3>1, <4>1 DEF RegistryOK
      <4> QED
        BY <3>1, <3>2, <3>4, <3>5, <4>1, <4>2, <4>3, <4>4
    <3>7. CASE ~fenced /\ Exists(r)
      <4>1. PICK ok \in BOOLEAN : MayFail(ok) /\ cached' = IF ok THEN cached \cup {r} ELSE cached
        BY <1>22, <3>7 DEF SaveSession
      <4>2. faults' \in 0..MaxFaults /\ (faults' = 0 => faults = 0)
        BY <4>1, FaultOrNot DEF RoomsIInv
      <4>3. CASE mutation[r].op = "finish"
        <5>1. Ended(r) /\ MutationGoes(r, "release")
          BY <1>22, <3>7, <4>3 DEF SaveSession
        <5>2. /\ rooms' \in [Rooms -> RoomRow] /\ RegistryOK' /\ LiveRoomIsFound'
              /\ \A q \in Rooms \ {r} : rooms'[q] = rooms[q]
              /\ rooms'[r].status = "ended" /\ Exists(r)' /\ rooms'[r].expired = rooms[r].expired
          BY <3>1, <3>7, <5>1, RoomEnded DEF RoomsIInv, Exists
        <5>3. /\ mutation' \in [Rounds -> MutationRow] /\ mutation'[r].pc = "release"
              /\ \A q \in Rounds \ {r} : mutation'[q] = mutation[q]
              /\ mutation'[r].pc # "idle" => mutation'[r].op = mutation[r].op
          BY <3>5, <5>1
        <5> QED
          BY <3>2, <3>4, <3>7, <4>1, <4>2, <5>2, <5>3
      <4>4. CASE mutation[r].op # "finish"
        <5>1. UNCHANGED << rooms, registry >> /\ MutationGoes(r, "idle")
          BY <1>22, <3>7, <4>4 DEF SaveSession, room_vars
        <5>2. LiveRoomIsFound' /\ Exists(r)'
          BY <3>7, <5>1 DEF RoomsIInv, LiveRoomIsFound, Live, Exists
        <5>3. RegistryOK'
          BY <3>1, <5>1 DEF RegistryOK
        <5>4. /\ mutation' \in [Rounds -> MutationRow] /\ mutation'[r].pc = "idle"
              /\ \A q \in Rounds \ {r} : mutation'[q] = mutation[q]
          BY <3>5, <5>1
        <5> QED
          BY <3>1, <3>2, <3>4, <3>7, <4>1, <4>2, <5>1, <5>2, <5>3, <5>4
      <4> QED
        BY <4>3, <4>4
    <3> QED
      BY <3>6, <3>7
  <2>1. LiveRoomsTypeOK'
    BY <1>22, <2>0, LiveRoomsAssumption DEF SaveSession, RoomsIInv, LiveRoomsTypeOK, RoomRow,
       CreationRow, CreationPcs, MutationRow, MutationPcs, RegistryOK, Forget, Rooms, room_vars,
       redis, work
  <2>2. LiveRoomIsFound'
    BY <2>0
  <2>3. ASSUME NEW q \in Rooms
        PROVE  CreationFact(q)'
    BY <1>22, <2>0, LiveRoomsAssumption DEF SaveSession, RoomsIInv, CreationFacts, CreationFact,
       Exists, Rooms, room_vars, redis
  <2>4. ASSUME NEW q \in Rounds
        PROVE  MutationFact(q)'
    BY <1>22, <2>0, LiveRoomsAssumption DEF SaveSession, RoomsIInv, MutationFacts, MutationFact,
       MutationAt, CreationAt, Exists, Rooms, room_vars, redis, work, CreationFacts
  <2>5. DeletionFacts'
    BY <1>22, <2>0, LiveRoomsAssumption DEF SaveSession, RoomsIInv, DeletionFacts, DeletionFact,
       Exists, CreationAt, Rooms, room_vars, redis, work
  <2>6. ASSUME NEW q \in Rounds
        PROVE  RedisFact(q)'
    BY <1>22, <2>0, LiveRoomsAssumption DEF SaveSession, RoomsIInv, RedisFacts, RedisFact, Exists,
       MutationAt, Rooms, room_vars, redis, work
  <2>7. LoaderFacts'
    BY <1>22, LiveRoomsAssumption, <2>0 DEF RoomsIInv, LoaderFacts, SaveSession, MutationGoes,
       Forget
  <2> QED
    BY <2>1, <2>2, <2>3, <2>4, <2>5, <2>6, <2>7 DEF RoomsIInv, CreationFacts, MutationFacts,
       RedisFacts
<1>23. ASSUME NEW r \in Rounds, DeleteSession(r)
      PROVE  RoomsIInv'
  <2>0. /\ rooms' \in [Rooms -> RoomRow] /\ RegistryOK' /\ LiveRoomIsFound'
        /\ \A q \in Rooms \ {r} : rooms'[q] = rooms[q]
        /\ mutation[r].op = "delete" /\ mutation[r].pc \in {"work", "blind"}
        /\ rooms'[r].expired = rooms[r].expired
        /\ IF Exists(r)
           THEN /\ rooms'[r].status = "deleted"
                /\ IF mutation[r].pc = "work"
                   THEN mutation'[r].pc = "release" /\ unloaded' = unloaded
                   ELSE mutation'[r].pc = "invalidate" /\ unloaded' = unloaded \cup {r}
           ELSE rooms'[r] = rooms[r] /\ unloaded' = unloaded /\ mutation'[r].pc = "idle"
        /\ mutation' \in [Rounds -> MutationRow]
        /\ \A q \in Rounds \ {r} : mutation'[q] = mutation[q]
        /\ mutation'[r].pc # "idle" => mutation'[r].op = mutation[r].op
    <3>1. mutation[r].op = "delete" /\ mutation[r].pc \in {"work", "blind"} /\ r \in Rooms
      BY <1>23 DEF DeleteSession, Rooms
    <3>2. {"idle", "release", "invalidate"} \subseteq MutationPcs
      BY DEF MutationPcs
    <3>3. ASSUME NEW pc \in {"idle", "release", "invalidate"}, MutationGoes(r, pc)
          PROVE  /\ mutation' \in [Rounds -> MutationRow] /\ mutation'[r].pc = pc
                 /\ \A q \in Rounds \ {r} : mutation'[q] = mutation[q]
                 /\ mutation'[r].pc # "idle" => mutation'[r].op = mutation[r].op
      BY <3>2, <3>3, MutationGoesOn DEF RoomsIInv
    <3>4. CASE Exists(r)
      <4>1. /\ rooms' \in [Rooms -> RoomRow] /\ RegistryOK' /\ LiveRoomIsFound'
            /\ \A q \in Rooms \ {r} : rooms'[q] = rooms[q]
            /\ rooms'[r].status = "deleted" /\ rooms'[r].expired = rooms[r].expired
        <5>1. Deleted({r})
          BY <1>23, <3>4 DEF DeleteSession
        <5> QED
          BY <3>1, <3>4, <5>1, RoomsDeleted DEF RoomsIInv
      <4>2. CASE mutation[r].pc = "work"
        <5>1. MutationGoes(r, "release") /\ unloaded' = unloaded
          BY <1>23, <3>4, <4>2 DEF DeleteSession, MutationAt
        <5> QED
          BY <3>1, <3>3, <3>4, <4>1, <4>2, <5>1
      <4>3. CASE mutation[r].pc # "work"
        <5>1. MutationGoes(r, "invalidate") /\ unloaded' = unloaded \cup {r}
          BY <1>23, <3>4, <4>3 DEF DeleteSession, MutationAt
        <5> QED
          BY <3>1, <3>3, <3>4, <4>1, <4>3, <5>1
      <4> QED
        BY <4>2, <4>3
    <3>5. CASE ~Exists(r)
      <4>1. UNCHANGED << rooms, registry, unloaded >> /\ MutationGoes(r, "idle")
        BY <1>23, <3>5 DEF DeleteSession, room_vars
      <4>2. /\ rooms' \in [Rooms -> RoomRow] /\ RegistryOK' /\ LiveRoomIsFound'
        BY <4>1, Types DEF RoomsIInv, LiveRoomsTypeOK, LiveRoomIsFound, Live, RegistryOK
      <4> QED
        BY <3>1, <3>3, <3>5, <4>1, <4>2
    <3> QED
      BY <3>4, <3>5
  <2>1. LiveRoomsTypeOK'
    BY <1>23, <2>0, LiveRoomsAssumption DEF DeleteSession, RoomsIInv, LiveRoomsTypeOK, RoomRow,
       CreationRow, CreationPcs, MutationRow, MutationPcs, RegistryOK, Forget, Rooms, room_vars,
       redis, work
  <2>2. LiveRoomIsFound'
    BY <2>0
  <2>3. ASSUME NEW q \in Rooms
        PROVE  CreationFact(q)'
    BY <1>23, <2>0, LiveRoomsAssumption DEF DeleteSession, RoomsIInv, CreationFacts, CreationFact,
       Exists, Rooms, room_vars, redis, work, MutationFacts, MutationFact, MutationAt, CreationAt
  <2>4. ASSUME NEW q \in Rounds
        PROVE  MutationFact(q)'
    BY <1>23, <2>0, LiveRoomsAssumption DEF DeleteSession, RoomsIInv, MutationFacts, MutationFact,
       MutationAt, CreationAt, Exists, Rooms, room_vars, redis, work, CreationFacts
  <2>5. DeletionFacts'
    BY <1>23, <2>0, LiveRoomsAssumption DEF DeleteSession, RoomsIInv, DeletionFacts, DeletionFact,
       Exists, CreationAt, Rooms, room_vars, redis, work
  <2>6. ASSUME NEW q \in Rounds
        PROVE  RedisFact(q)'
    BY <1>23, <2>0, LiveRoomsAssumption DEF DeleteSession, RoomsIInv, RedisFacts, RedisFact,
       Exists, MutationAt, Rooms, room_vars, redis, work, DeletionFacts, DeletionFact
  <2>7. LoaderFacts'
    BY <1>23, LiveRoomsAssumption, <2>0 DEF RoomsIInv, LoaderFacts, DeleteSession, MutationGoes,
       Deleted
  <2> QED
    BY <2>1, <2>2, <2>3, <2>4, <2>5, <2>6, <2>7 DEF RoomsIInv, CreationFacts, MutationFacts,
       RedisFacts
<1>24. ASSUME NEW r \in Rounds, ReleaseCode(r)
      PROVE  RoomsIInv'
  <2>0. /\ mutation[r].pc = "release"
        /\ mutation' \in [Rounds -> MutationRow]
        /\ \A q \in Rounds \ {r} : mutation'[q] = mutation[q]
        /\ mutation'[r].pc # "idle" => mutation'[r].op = mutation[r].op
        /\ mutation'[r].pc \in {"idle", "invalidate"}
        /\ mutation'[r].pc = "invalidate" <=> mutation[r].op = "delete"
        /\ mutation[r].op \in {"command", "finish", "delete"}
        /\ faults' \in 0..MaxFaults
        /\ faults' = 0 => faults = 0 /\ reservation' = ReservationsWithout(r)
        /\ \A d \in Codes, q \in Rounds : reservation'[d] = q =>
              reservation[d] = q /\ (q = r => faults' # 0)
        /\ reservation' \in {reservation, ReservationsWithout(r)}
    <3>1. PICK pc \in {"idle", "invalidate"} : MutationGoes(r, pc) /\ (pc = "invalidate" <=> mutation[r].op = "delete")
      BY <1>24 DEF ReleaseCode, WithoutSession
    <3>2. {"idle", "invalidate"} \subseteq MutationPcs
      BY DEF MutationPcs
    <3>3. /\ mutation' \in [Rounds -> MutationRow] /\ mutation'[r].pc = pc
          /\ \A q \in Rounds \ {r} : mutation'[q] = mutation[q]
          /\ mutation'[r].pc # "idle" => mutation'[r].op = mutation[r].op
      BY <3>1, <3>2, MutationGoesOn DEF RoomsIInv
    <3>4. PICK ok \in BOOLEAN :
            MayFail(ok) /\ reservation' = IF ok THEN ReservationsWithout(r) ELSE reservation
      BY <1>24 DEF ReleaseCode
    <3>5. faults' = 0 => ok
      BY <3>4, LiveRoomsAssumption DEF MayFail, Fault, RoomsIInv, LiveRoomsTypeOK
    <3>6. mutation[r].op \in {"command", "finish", "delete"}
      BY DEF RoomsIInv, LiveRoomsTypeOK
    <3>7. \A d \in Codes, q \in Rounds : reservation'[d] = q =>
            reservation[d] = q /\ (q = r => faults' # 0)
      BY <3>4, <3>5, LiveRoomsAssumption DEF ReservationsWithout
    <3> QED
      BY <1>24, <3>1, <3>3, <3>4, <3>5, <3>6, <3>7, FaultOrNot DEF RoomsIInv, ReleaseCode,
         MutationAt
  <2>1. LiveRoomsTypeOK'
    BY <1>24, <2>0, LiveRoomsAssumption DEF ReleaseCode, ReservationsWithout, RoomsIInv,
       LiveRoomsTypeOK, RoomRow, CreationRow, CreationPcs, MutationRow, MutationPcs, RegistryOK,
       Forget, Rooms, room_vars, redis
  <2>2. LiveRoomIsFound'
    BY <1>24, <2>0, LiveRoomsAssumption DEF ReleaseCode, ReservationsWithout, RoomsIInv,
       LiveRoomIsFound, Live, Rooms, room_vars, redis
  <2>3. ASSUME NEW q \in Rooms
        PROVE  CreationFact(q)'
    BY <1>24, <2>0, LiveRoomsAssumption DEF ReleaseCode, ReservationsWithout, RoomsIInv,
       CreationFacts, CreationFact, Exists, Rooms, room_vars, redis, work
  <2>4. ASSUME NEW q \in Rounds
        PROVE  MutationFact(q)'
    BY <1>24, <2>0, LiveRoomsAssumption DEF ReleaseCode, ReservationsWithout, RoomsIInv,
       MutationFacts, MutationFact, MutationAt, CreationAt, Exists, Rooms, room_vars, redis, work
  <2>5. DeletionFacts'
    BY <1>24, <2>0, LiveRoomsAssumption DEF ReleaseCode, ReservationsWithout, RoomsIInv,
       DeletionFacts, DeletionFact, Exists, CreationAt, Rooms, room_vars, redis
  <2>6. ASSUME NEW q \in Rounds
        PROVE  RedisFact(q)'
    <3>1. UNCHANGED << rooms, cached, creation, unloaded >>
      BY <1>24 DEF ReleaseCode, room_vars
    <3>2. CASE q = r
      <4>1. faults' = 0 => faults = 0 /\ \A d \in Codes : reservation'[d] # r
        BY <2>0
      <4>2. r \in cached /\ ~Exists(r) /\ faults = 0 => mutation'[r].pc = "invalidate"
        BY <2>0 DEF RoomsIInv, MutationFacts, MutationFact, MutationAt
      <4> QED
        BY <3>1, <3>2, <4>1, <4>2 DEF RedisFact, Exists
    <3>3. CASE q # r
      BY <2>0, <3>1, <3>3 DEF RoomsIInv, RedisFacts, RedisFact, Exists, MutationAt
    <3> QED
      BY <3>2, <3>3
  <2>7. LoaderFacts'
    BY <1>24, LiveRoomsAssumption, <2>0 DEF RoomsIInv, LoaderFacts, ReleaseCode, MutationGoes
  <2> QED
    BY <2>1, <2>2, <2>3, <2>4, <2>5, <2>6, <2>7 DEF RoomsIInv, CreationFacts, MutationFacts,
       RedisFacts
<1>25. ASSUME NEW r \in Rounds, Invalidate(r)
      PROVE  RoomsIInv'
  <2>0. /\ mutation[r].pc = "invalidate"
        /\ mutation' \in [Rounds -> MutationRow]
        /\ \A q \in Rounds \ {r} : mutation'[q] = mutation[q]
        /\ mutation'[r].pc # "idle" => mutation'[r].op = mutation[r].op
        /\ active' \in [Processes -> SUBSET Rounds]
        /\ mutation'[r].pc = "idle"
        /\ faults' \in 0..MaxFaults
        /\ faults' = 0 => faults = 0 /\ cached' = cached \ {r}
        /\ cached' \in {cached, cached \ {r}}
    <3>1. MutationGoes(r, "idle") /\ "idle" \in MutationPcs
      BY <1>25 DEF Invalidate, MutationPcs
    <3>2. /\ mutation' \in [Rounds -> MutationRow] /\ mutation'[r].pc = "idle"
          /\ \A q \in Rounds \ {r} : mutation'[q] = mutation[q]
      BY <3>1, MutationGoesOn DEF RoomsIInv
    <3>3. active' \in [Processes -> SUBSET Rounds]
      BY <1>25 DEF Invalidate, Forget, Remember, RoomsIInv, LiveRoomsTypeOK
    <3>4. PICK ok \in BOOLEAN : MayFail(ok) /\ cached' = IF ok THEN cached \ {r} ELSE cached
      BY <1>25 DEF Invalidate
    <3>5. faults' = 0 => ok
      BY <3>4, LiveRoomsAssumption DEF MayFail, Fault, RoomsIInv, LiveRoomsTypeOK
    <3> QED
      BY <1>25, <3>2, <3>3, <3>4, <3>5, FaultOrNot DEF RoomsIInv, Invalidate, MutationAt
  <2>1. LiveRoomsTypeOK'
    BY <1>25, <2>0, LiveRoomsAssumption DEF Invalidate, RoomsIInv, LiveRoomsTypeOK, MutationRow,
       MutationPcs, RegistryOK, Forget, Rooms, room_vars, redis, work
  <2>2. LiveRoomIsFound'
    BY <1>25, <2>0, LiveRoomsAssumption DEF Invalidate, RoomsIInv, LiveRoomIsFound, Live, Rooms,
       room_vars, redis, work
  <2>3. ASSUME NEW q \in Rooms
        PROVE  CreationFact(q)'
    BY <1>25, <2>0, LiveRoomsAssumption DEF Invalidate, RoomsIInv, CreationFacts, CreationFact,
       Exists, Rooms, room_vars, redis
  <2>4. ASSUME NEW q \in Rounds
        PROVE  MutationFact(q)'
    BY <1>25, <2>0, LiveRoomsAssumption DEF Invalidate, RoomsIInv, MutationFacts, MutationFact,
       MutationAt, CreationAt, Exists, Rooms, room_vars, redis
  <2>5. DeletionFacts'
    BY <1>25, <2>0, LiveRoomsAssumption DEF Invalidate, RoomsIInv, DeletionFacts, DeletionFact,
       Exists, CreationAt, Rooms, room_vars, redis, work
  <2>6. ASSUME NEW q \in Rounds
        PROVE  RedisFact(q)'
    BY <1>25, <2>0, LiveRoomsAssumption DEF Invalidate, RoomsIInv, RedisFacts, RedisFact, Exists,
       MutationAt, Rooms, room_vars, redis, work
  <2>7. LoaderFacts'
    BY <1>25, LiveRoomsAssumption, <2>0 DEF RoomsIInv, LoaderFacts, Invalidate, MutationGoes
  <2> QED
    BY <2>1, <2>2, <2>3, <2>4, <2>5, <2>6, <2>7 DEF RoomsIInv, CreationFacts, MutationFacts,
       RedisFacts
<1>26. ASSUME NEW r \in Rounds, InvalidateTarget(r)
      PROVE  RoomsIInv'
  <2>1. LiveRoomsTypeOK'
    <3>1. PICK released \in BOOLEAN, dropped \in BOOLEAN :
            /\ MayFail(released /\ dropped)
            /\ reservation' = IF released THEN ReservationsWithout(r) ELSE reservation
            /\ cached' = IF dropped THEN cached \ {r} ELSE cached
            /\ account' = IF released /\ dropped
                          THEN [account EXCEPT !.targets = account.targets \ {r}] ELSE NoDeletion
      BY <1>26 DEF InvalidateTarget, RoomsIInv, LiveRoomsTypeOK
    <3>2. faults' \in 0..MaxFaults
      <4>1. (released /\ dropped) \in BOOLEAN
        OBVIOUS
      <4> QED
        BY <3>1, <4>1, FaultOrNot DEF RoomsIInv
    <3>3. account' \in AccountRow
      <4>1. account \in AccountRow
        BY DEF RoomsIInv, LiveRoomsTypeOK, AccountRow
      <4>2. [account EXCEPT !.targets = account.targets \ {r}] \in AccountRow
        BY <4>1 DEF AccountRow
      <4>3. NoDeletion \in AccountRow
        BY DEF NoDeletion, AccountRow
      <4> QED
        BY <3>1, <4>2, <4>3
    <3>4. reservation' \in [Codes -> Rounds \cup {Nobody}] /\ cached' \subseteq Rounds
      BY <3>1 DEF RoomsIInv, LiveRoomsTypeOK, ReservationsWithout
    <3>5. active' \in [Processes -> SUBSET Rounds]
      BY <1>26 DEF InvalidateTarget, Forget, RoomsIInv, LiveRoomsTypeOK
    <3> QED
      BY <1>26, <3>2, <3>3, <3>4, <3>5 DEF InvalidateTarget, RoomsIInv, LiveRoomsTypeOK,
         AccountRow, room_vars
  <2>2. LiveRoomIsFound'
    BY <1>26, LiveRoomsAssumption DEF RoomsIInv, LiveRoomsTypeOK, LiveRoomIsFound, Live, Rooms,
       Exists, CreationFacts, CreationFact, InvalidateTarget, LeaseFreeFor, MutationAt,
       CreationAt, Forget, MayFail, Fault, ReservationsWithout, NoDeletion, room_vars, redis, work
  <2>3. ASSUME NEW q \in Rooms
        PROVE  CreationFact(q)'
    BY <1>26, LiveRoomsAssumption DEF RoomsIInv, LiveRoomsTypeOK, CreationFacts, CreationFact,
       Exists, Rooms, InvalidateTarget, LeaseFreeFor, MutationAt, CreationAt, Forget, MayFail,
       Fault, ReservationsWithout, NoDeletion, room_vars, redis, work
  <2>4. ASSUME NEW q \in Rounds
        PROVE  MutationFact(q)'
    BY <1>26, LiveRoomsAssumption DEF RoomsIInv, LiveRoomsTypeOK, MutationFacts, MutationFact,
       MutationAt, CreationAt, Exists, CreationFacts, CreationFact, Rooms, InvalidateTarget,
       LeaseFreeFor, Forget, MayFail, Fault, ReservationsWithout, NoDeletion, room_vars, redis,
       work
  <2>5. DeletionFacts'
    BY <1>26, LiveRoomsAssumption DEF RoomsIInv, LiveRoomsTypeOK, DeletionFacts, DeletionFact,
       Exists, CreationAt, CreationFacts, CreationFact, MutationFacts, MutationFact, MutationAt,
       Rooms, InvalidateTarget, LeaseFreeFor, Forget, MayFail, Fault, ReservationsWithout,
       NoDeletion, room_vars, redis, work
  <2>6. ASSUME NEW q \in Rounds
        PROVE  RedisFact(q)'
    BY <1>26, LiveRoomsAssumption DEF RoomsIInv, LiveRoomsTypeOK, RedisFacts, RedisFact, Exists,
       MutationAt, Rooms, InvalidateTarget, LeaseFreeFor, CreationAt, Forget, MayFail, Fault,
       ReservationsWithout, NoDeletion, room_vars, redis, work
  <2>7. LoaderFacts'
    BY <1>26, LiveRoomsAssumption DEF RoomsIInv, LoaderFacts, InvalidateTarget
  <2> QED
    BY <2>1, <2>2, <2>3, <2>4, <2>5, <2>6, <2>7 DEF RoomsIInv, CreationFacts, MutationFacts,
       RedisFacts
<1>27. ASSUME NEW r \in Rounds, RedisExpires(r)
      PROVE  RoomsIInv'
  <2>1. LiveRoomsTypeOK'
    BY <1>27, LiveRoomsAssumption DEF RoomsIInv, LiveRoomsTypeOK, Rooms, NoEntry, RedisExpires,
       Live, CreationAt, ReservationsWithout, room_vars, redis, work
  <2>2. LiveRoomIsFound'
    BY <1>27, LiveRoomsAssumption DEF RoomsIInv, LiveRoomsTypeOK, LiveRoomIsFound, Live, Rooms,
       Exists, CreationFacts, CreationFact, RedisExpires, CreationAt, ReservationsWithout,
       room_vars, redis, work
  <2>3. ASSUME NEW q \in Rooms
        PROVE  CreationFact(q)'
    BY <1>27, LiveRoomsAssumption DEF RoomsIInv, LiveRoomsTypeOK, CreationFacts, CreationFact,
       Exists, Rooms, RedisExpires, Live, CreationAt, ReservationsWithout, room_vars, redis, work
  <2>4. ASSUME NEW q \in Rounds
        PROVE  MutationFact(q)'
    BY <1>27, LiveRoomsAssumption DEF RoomsIInv, LiveRoomsTypeOK, MutationFacts, MutationFact,
       MutationAt, CreationAt, Exists, CreationFacts, CreationFact, Rooms, RedisExpires, Live,
       ReservationsWithout, room_vars, redis, work
  <2>5. DeletionFacts'
    BY <1>27, LiveRoomsAssumption DEF RoomsIInv, LiveRoomsTypeOK, DeletionFacts, DeletionFact,
       Exists, CreationAt, CreationFacts, CreationFact, MutationFacts, MutationFact, MutationAt,
       Rooms, RedisExpires, Live, ReservationsWithout, room_vars, redis, work
  <2>6. ASSUME NEW q \in Rounds
        PROVE  RedisFact(q)'
    BY <1>27, LiveRoomsAssumption DEF RoomsIInv, LiveRoomsTypeOK, RedisFacts, RedisFact, Exists,
       MutationAt, CreationFacts, CreationFact, MutationFacts, MutationFact, DeletionFacts,
       DeletionFact, Rooms, RedisExpires, Live, CreationAt, ReservationsWithout, room_vars, redis,
       work
  <2>7. LoaderFacts'
    BY <1>27, LiveRoomsAssumption DEF RoomsIInv, LiveRoomsTypeOK, LoaderFacts, RedisExpires, Live,
       CreationAt, ReservationsWithout, room_vars, redis, work
  <2> QED
    BY <2>1, <2>2, <2>3, <2>4, <2>5, <2>6, <2>7 DEF RoomsIInv, CreationFacts, MutationFacts,
       RedisFacts
<1>28. ASSUME ListTargets
      PROVE  RoomsIInv'
  <2>1. LiveRoomsTypeOK'
    BY <1>28, LiveRoomsAssumption DEF RoomsIInv, LiveRoomsTypeOK, Rooms, NoEntry, ListTargets,
       Targets, Exists, room_vars, redis, work
  <2>2. LiveRoomIsFound'
    BY <1>28, LiveRoomsAssumption DEF RoomsIInv, LiveRoomsTypeOK, LiveRoomIsFound, Live, Rooms,
       Exists, CreationFacts, CreationFact, ListTargets, Targets, room_vars, redis
  <2>3. ASSUME NEW q \in Rooms
        PROVE  CreationFact(q)'
    BY <1>28, LiveRoomsAssumption DEF RoomsIInv, LiveRoomsTypeOK, CreationFacts, CreationFact,
       Exists, Rooms, ListTargets, Targets, room_vars, redis
  <2>4. ASSUME NEW q \in Rounds
        PROVE  MutationFact(q)'
    BY <1>28, LiveRoomsAssumption DEF RoomsIInv, LiveRoomsTypeOK, MutationFacts, MutationFact,
       MutationAt, CreationAt, Exists, CreationFacts, CreationFact, Rooms, ListTargets, Targets,
       room_vars, redis
  <2>5. DeletionFacts'
    BY <1>28, LiveRoomsAssumption DEF RoomsIInv, LiveRoomsTypeOK, DeletionFacts, DeletionFact,
       Exists, CreationAt, CreationFacts, CreationFact, MutationFacts, MutationFact, MutationAt,
       Rooms, ListTargets, Targets, room_vars, redis
  <2>6. ASSUME NEW q \in Rounds
        PROVE  RedisFact(q)'
    BY <1>28, LiveRoomsAssumption DEF RoomsIInv, LiveRoomsTypeOK, RedisFacts, RedisFact, Exists,
       MutationAt, CreationFacts, CreationFact, MutationFacts, MutationFact, DeletionFacts,
       DeletionFact, Rooms, ListTargets, Targets, room_vars, redis, work
  <2>7. LoaderFacts'
    BY <1>28, LiveRoomsAssumption DEF RoomsIInv, LoaderFacts, ListTargets
  <2> QED
    BY <2>1, <2>2, <2>3, <2>4, <2>5, <2>6, <2>7 DEF RoomsIInv, CreationFacts, MutationFacts,
       RedisFacts
<1>29. ASSUME InvalidateTimesOut
      PROVE  RoomsIInv'
  <2>1. LiveRoomsTypeOK'
    BY <1>29, LiveRoomsAssumption DEF RoomsIInv, LiveRoomsTypeOK, Rooms, NoEntry,
       InvalidateTimesOut, NoDeletion, room_vars, redis
  <2>2. LiveRoomIsFound'
    BY <1>29, LiveRoomsAssumption DEF RoomsIInv, LiveRoomsTypeOK, LiveRoomIsFound, Live, Rooms,
       Exists, CreationFacts, CreationFact, InvalidateTimesOut, NoDeletion, room_vars, redis
  <2>3. ASSUME NEW q \in Rooms
        PROVE  CreationFact(q)'
    BY <1>29, LiveRoomsAssumption DEF RoomsIInv, LiveRoomsTypeOK, CreationFacts, CreationFact,
       Exists, Rooms, InvalidateTimesOut, NoDeletion, room_vars, redis
  <2>4. ASSUME NEW q \in Rounds
        PROVE  MutationFact(q)'
    BY <1>29, LiveRoomsAssumption DEF RoomsIInv, LiveRoomsTypeOK, MutationFacts, MutationFact,
       MutationAt, CreationAt, Exists, CreationFacts, CreationFact, Rooms, InvalidateTimesOut,
       NoDeletion, room_vars, redis
  <2>5. DeletionFacts'
    BY <1>29, LiveRoomsAssumption DEF RoomsIInv, LiveRoomsTypeOK, DeletionFacts, DeletionFact,
       Exists, CreationAt, CreationFacts, CreationFact, MutationFacts, MutationFact, MutationAt,
       Rooms, InvalidateTimesOut, NoDeletion, room_vars, redis
  <2>6. ASSUME NEW q \in Rounds
        PROVE  RedisFact(q)'
    BY <1>29, LiveRoomsAssumption DEF RoomsIInv, LiveRoomsTypeOK, RedisFacts, RedisFact, Exists,
       MutationAt, CreationFacts, CreationFact, MutationFacts, MutationFact, DeletionFacts,
       DeletionFact, Rooms, InvalidateTimesOut, NoDeletion, room_vars, redis, work
  <2>7. LoaderFacts'
    BY <1>29, LiveRoomsAssumption DEF RoomsIInv, LoaderFacts, InvalidateTimesOut
  <2> QED
    BY <2>1, <2>2, <2>3, <2>4, <2>5, <2>6, <2>7 DEF RoomsIInv, CreationFacts, MutationFacts,
       RedisFacts
<1>30. ASSUME RemoveWorkspace
      PROVE  RoomsIInv'
  <2>0. /\ rooms' \in [Rooms -> RoomRow] /\ RegistryOK' /\ LiveRoomIsFound'
        /\ \A q \in Rooms : /\ Exists(q) => rooms'[q].status = "deleted"
                            /\ ~Exists(q) => rooms'[q] = rooms[q]
        /\ \A q \in Rooms : rooms'[q].expired = rooms[q].expired
        /\ account.pc = "listed" /\ account.targets = {} /\ account'.pc = "done"
        /\ account' \in [pc : {"idle", "fenced", "listed", "done"}, p : Processes \cup {Nobody},
                         targets : SUBSET Rounds]
    <3>1. Deleted(Rooms) /\ account.pc = "listed" /\ account.targets = {}
      BY <1>30 DEF RemoveWorkspace
    <3>2. /\ [NoDeletion EXCEPT !.pc = "done"]
               \in [pc : {"idle", "fenced", "listed", "done"}, p : Processes \cup {Nobody},
                    targets : SUBSET Rounds]
          /\ [NoDeletion EXCEPT !.pc = "done"].pc = "done"
      BY DEF NoDeletion
    <3>3. account' = [NoDeletion EXCEPT !.pc = "done"]
      BY <1>30 DEF RemoveWorkspace
    <3>4. Rooms \in SUBSET Rooms
      OBVIOUS
    <3> QED
      BY <3>1, <3>2, <3>3, <3>4, RoomsDeleted DEF RoomsIInv
  <2>1. LiveRoomsTypeOK'
    BY <1>30, <2>0, LiveRoomsAssumption DEF RemoveWorkspace, RoomsIInv, LiveRoomsTypeOK, RoomRow,
       CreationRow, CreationPcs, MutationRow, MutationPcs, RegistryOK, Forget, Rooms, room_vars,
       redis, work
  <2>2. LiveRoomIsFound'
    BY <2>0
  <2>3. ASSUME NEW q \in Rooms
        PROVE  CreationFact(q)'
    BY <1>30, <2>0, LiveRoomsAssumption DEF RemoveWorkspace, RoomsIInv, CreationFacts,
       CreationFact, Exists, Rooms, room_vars, redis, work, DeletionFacts, DeletionFact,
       CreationAt
  <2>4. ASSUME NEW q \in Rounds
        PROVE  MutationFact(q)'
    BY <1>30, <2>0, LiveRoomsAssumption DEF RemoveWorkspace, RoomsIInv, MutationFacts,
       MutationFact, MutationAt, CreationAt, Exists, Rooms, room_vars, redis, work, CreationFacts,
       CreationFact, DeletionFacts, DeletionFact
  <2>5. DeletionFacts'
    BY <1>30, <2>0, LiveRoomsAssumption DEF DeletionFacts, DeletionFact, Exists
  <2>6. ASSUME NEW q \in Rounds
        PROVE  RedisFact(q)'
    BY <1>30, <2>0, LiveRoomsAssumption DEF RemoveWorkspace, RoomsIInv, RedisFacts, RedisFact,
       Exists, MutationAt, Rooms, room_vars, redis, work, DeletionFacts, DeletionFact
  <2>7. LoaderFacts'
    BY <1>30, LiveRoomsAssumption, <2>0 DEF RoomsIInv, LoaderFacts, RemoveWorkspace, Deleted
  <2> QED
    BY <2>1, <2>2, <2>3, <2>4, <2>5, <2>6, <2>7 DEF RoomsIInv, CreationFacts, MutationFacts,
       RedisFacts
<1>31. ASSUME RedisLoses
      PROVE  RoomsIInv'
  <2>1. LiveRoomsTypeOK'
    BY <1>31, LiveRoomsAssumption DEF RoomsIInv, LiveRoomsTypeOK, Rooms, NoEntry, RedisLoses,
       Fault, room_vars, redis, work
  <2>2. LiveRoomIsFound'
    BY <1>31, LiveRoomsAssumption DEF RoomsIInv, LiveRoomsTypeOK, LiveRoomIsFound, Live, Rooms,
       Exists, CreationFacts, CreationFact, RedisLoses, Fault, room_vars, redis
  <2>3. ASSUME NEW q \in Rooms
        PROVE  CreationFact(q)'
    BY <1>31, LiveRoomsAssumption DEF RoomsIInv, LiveRoomsTypeOK, CreationFacts, CreationFact,
       Exists, Rooms, RedisLoses, Fault, room_vars, redis, work
  <2>4. ASSUME NEW q \in Rounds
        PROVE  MutationFact(q)'
    BY <1>31, LiveRoomsAssumption DEF RoomsIInv, LiveRoomsTypeOK, MutationFacts, MutationFact,
       MutationAt, CreationAt, Exists, CreationFacts, CreationFact, Rooms, RedisLoses, Fault,
       room_vars, redis, work
  <2>5. DeletionFacts'
    BY <1>31, LiveRoomsAssumption DEF RoomsIInv, LiveRoomsTypeOK, DeletionFacts, DeletionFact,
       Exists, CreationAt, CreationFacts, CreationFact, MutationFacts, MutationFact, MutationAt,
       Rooms, RedisLoses, Fault, room_vars, redis, work
  <2>6. ASSUME NEW q \in Rounds
        PROVE  RedisFact(q)'
    BY <1>31, LiveRoomsAssumption DEF RoomsIInv, RedisFact, RedisLoses, Fault
  <2>7. LoaderFacts'
    BY <1>31, LiveRoomsAssumption DEF RoomsIInv, LiveRoomsTypeOK, LoaderFacts, RedisLoses, Fault,
       room_vars, redis, work
  <2> QED
    BY <2>1, <2>2, <2>3, <2>4, <2>5, <2>6, <2>7 DEF RoomsIInv, CreationFacts, MutationFacts,
       RedisFacts
<1>32. ASSUME NEW r \in Presentations, FinishPresentation(r)
      PROVE  RoomsIInv'
  <2>0. /\ rooms' \in [Rooms -> RoomRow] /\ RegistryOK' /\ LiveRoomIsFound'
        /\ \A q \in Rooms \ {r} : rooms'[q] = rooms[q]
        /\ rooms[r].status # "absent" /\ rooms'[r].status = "ended" /\ r \in Rooms \ Rounds
        /\ rooms'[r].expired = rooms[r].expired
    <3>1. Ended(r) /\ rooms[r].status = "active" /\ r \in Rooms \ Rounds
      BY <1>32, LiveRoomsAssumption DEF FinishPresentation, Live, Rooms
    <3> QED
      BY <3>1, RoomEnded DEF RoomsIInv
  <2>1. LiveRoomsTypeOK'
    BY <1>32, <2>0, LiveRoomsAssumption DEF FinishPresentation, RoomsIInv, LiveRoomsTypeOK,
       RoomRow, CreationRow, CreationPcs, MutationRow, MutationPcs, RegistryOK, Forget, Rooms,
       room_vars, redis, work
  <2>2. LiveRoomIsFound'
    BY <2>0
  <2>3. ASSUME NEW q \in Rooms
        PROVE  CreationFact(q)'
    BY <1>32, <2>0, LiveRoomsAssumption DEF FinishPresentation, RoomsIInv, CreationFacts,
       CreationFact, Exists, Rooms, room_vars, redis, work
  <2>4. ASSUME NEW q \in Rounds
        PROVE  MutationFact(q)'
    BY <1>32, <2>0, LiveRoomsAssumption DEF FinishPresentation, RoomsIInv, MutationFacts,
       MutationFact, MutationAt, CreationAt, Exists, Rooms, room_vars, redis, work
  <2>5. DeletionFacts'
    BY <1>32, <2>0, LiveRoomsAssumption DEF FinishPresentation, RoomsIInv, DeletionFacts,
       DeletionFact, Exists, CreationAt, Rooms, room_vars, redis, work
  <2>6. ASSUME NEW q \in Rounds
        PROVE  RedisFact(q)'
    BY <1>32, <2>0, LiveRoomsAssumption DEF FinishPresentation, RoomsIInv, RedisFacts, RedisFact,
       Exists, MutationAt, Rooms, room_vars, redis, work
  <2>7. LoaderFacts'
    BY <1>32, LiveRoomsAssumption, <2>0 DEF RoomsIInv, LiveRoomsTypeOK, LoaderFacts,
       FinishPresentation, Live, Ended, OwnEntry, room_vars, redis, work
  <2> QED
    BY <2>1, <2>2, <2>3, <2>4, <2>5, <2>6, <2>7 DEF RoomsIInv, CreationFacts, MutationFacts,
       RedisFacts
<1>33. ASSUME NEW r \in Presentations, DeletePresentation(r)
      PROVE  RoomsIInv'
  <2>0. /\ rooms' \in [Rooms -> RoomRow] /\ RegistryOK' /\ LiveRoomIsFound'
        /\ \A q \in Rooms \ {r} : rooms'[q] = rooms[q]
        /\ rooms[r].status # "absent" /\ rooms'[r].status = "deleted" /\ r \in Rooms \ Rounds
    <3>1. Deleted({r}) /\ Exists(r) /\ r \in Rooms \ Rounds
      BY <1>33, LiveRoomsAssumption DEF DeletePresentation, Rooms
    <3> QED
      BY <3>1, RoomsDeleted DEF RoomsIInv, Exists
  <2>1. LiveRoomsTypeOK'
    BY <1>33, <2>0, LiveRoomsAssumption DEF DeletePresentation, RoomsIInv, LiveRoomsTypeOK,
       RoomRow, CreationRow, CreationPcs, MutationRow, MutationPcs, RegistryOK, Forget, Rooms,
       room_vars, redis, work
  <2>2. LiveRoomIsFound'
    BY <2>0
  <2>3. ASSUME NEW q \in Rooms
        PROVE  CreationFact(q)'
    BY <1>33, <2>0, LiveRoomsAssumption DEF DeletePresentation, RoomsIInv, CreationFacts,
       CreationFact, Exists, Rooms, room_vars, redis, work
  <2>4. ASSUME NEW q \in Rounds
        PROVE  MutationFact(q)'
    BY <1>33, <2>0, LiveRoomsAssumption DEF DeletePresentation, RoomsIInv, MutationFacts,
       MutationFact, MutationAt, CreationAt, Exists, Rooms, room_vars, redis, work
  <2>5. DeletionFacts'
    BY <1>33, <2>0, LiveRoomsAssumption DEF DeletePresentation, RoomsIInv, DeletionFacts,
       DeletionFact, Exists, CreationAt, Rooms, room_vars, redis, work
  <2>6. ASSUME NEW q \in Rounds
        PROVE  RedisFact(q)'
    BY <1>33, <2>0, LiveRoomsAssumption DEF DeletePresentation, RoomsIInv, RedisFacts, RedisFact,
       Exists, MutationAt, Rooms, room_vars, redis, work
  <2>7. LoaderFacts'
    BY <1>33, LiveRoomsAssumption, <2>0 DEF RoomsIInv, LiveRoomsTypeOK, LoaderFacts,
       DeletePresentation, Exists, Live, Deleted, NoEntry, room_vars, redis, work
  <2> QED
    BY <2>1, <2>2, <2>3, <2>4, <2>5, <2>6, <2>7 DEF RoomsIInv, CreationFacts, MutationFacts,
       RedisFacts
<1> QED
  BY <1>1, <1>2, <1>3, <1>4, <1>5, <1>6, <1>7, <1>8, <1>9, <1>10, <1>11, <1>12, <1>13, <1>14, <1>15, <1>16, <1>17, <1>18, <1>19, <1>20, <1>21, <1>22, <1>23, <1>24, <1>25, <1>26, <1>27, <1>28, <1>29, <1>30, <1>31, <1>32, <1>33
     DEF LiveRoomsNext, ServerStep, CreationStep, MutationStep

\* So does a step that changes nothing.
LEMMA RoomsStutter == RoomsIInv /\ UNCHANGED liveRoomsVars => RoomsIInv'
<1> SUFFICES ASSUME RoomsIInv, UNCHANGED liveRoomsVars PROVE RoomsIInv'
  OBVIOUS
<1>1. /\ UNCHANGED << rooms, registry, reservation, cached, active, creation, mutation >>
      /\ UNCHANGED << loader, account, fenced, unloaded, faults >>
  BY DEF liveRoomsVars, room_vars, redis, work
<1>2. LiveRoomsTypeOK' /\ LiveRoomIsFound' /\ LoaderFacts'
  BY <1>1 DEF RoomsIInv, LiveRoomsTypeOK, LiveRoomIsFound, Live, LoaderFacts
<1>3. CreationFacts' /\ MutationFacts'
  BY <1>1 DEF RoomsIInv, CreationFacts, CreationFact, MutationFacts, MutationFact, MutationAt,
     CreationAt, Exists
<1>4. DeletionFacts'
  BY <1>1 DEF RoomsIInv, DeletionFacts, DeletionFact, CreationAt, Exists
<1>5. RedisFacts'
  BY <1>1 DEF RoomsIInv, RedisFacts, RedisFact, MutationAt, Exists
<1> QED
  BY <1>2, <1>3, <1>4, <1>5 DEF RoomsIInv

\* The inductive invariant implies what the run checks.
LEMMA RoomsIInvIsEnough == RoomsIInv => RoomsInv /\ NothingOutlivesItsRoom
<1> SUFFICES ASSUME RoomsIInv PROVE RoomsInv /\ NothingOutlivesItsRoom
  OBVIOUS
<1>1. OneRoomPerCode
  <2> SUFFICES ASSUME NEW r \in Rooms, NEW q \in Rooms, Live(r), Live(q),
                      rooms[r].code = rooms[q].code
               PROVE  r = q
    BY DEF OneRoomPerCode
  <2>1. [room |-> r, released |-> FALSE] = [room |-> q, released |-> FALSE]
    BY DEF RoomsIInv, LiveRoomIsFound
  <2> QED
    BY <2>1
<1>2. WorkHasItsRow
  BY DEF RoomsIInv, MutationFacts, MutationFact, WorkHasItsRow
<1>3. ASSUME faults = 0, NEW r \in Rounds, ~Exists(r), ~rooms[r].expired, AtRest(r)
      PROVE  r \notin cached /\ (r \notin unloaded => \A c \in Codes : reservation[c] # r)
  <2>1. mutation[r].pc = "idle" /\ creation[r].pc \in {"idle", "done", "failed"}
    BY <1>3 DEF AtRest, MutationAt
  <2> QED
    BY <1>3, <2>1 DEF RoomsIInv, RedisFacts, RedisFact, MutationAt
<1> QED
  BY <1>1, <1>2, <1>3 DEF RoomsIInv, RoomsInv, NothingOutlivesItsRoom

\* No two live rooms share a code and a live room is found by its code, whatever Redis
\* loses and whoever dies; while no call fails a mutation works on a row that exists
\* (createSession, releaseJoinCode, mutate).  For any number of rooms, codes and processes.
THEOREM RoomsAreSafe == LiveRoomsSpec => []RoomsInv
<1>1. RoomsIInv /\ [LiveRoomsNext]_liveRoomsVars => RoomsIInv'
  BY RoomsStep, RoomsStutter
<1>2. RoomsIInv => RoomsInv
  BY RoomsIInvIsEnough
<1> QED
  BY <1>1, <1>2, RoomsInitInv, PTL DEF LiveRoomsSpec

\* While no call fails, a Round that is deleted leaves neither a cached state nor a
\* reservation of its code behind (deleteSession, finishSession, deleteUserData).
THEOREM NothingIsLeftInRedis == LiveRoomsSpec => []NothingOutlivesItsRoom
<1>1. RoomsIInv /\ [LiveRoomsNext]_liveRoomsVars => RoomsIInv'
  BY RoomsStep, RoomsStutter
<1>2. RoomsIInv => NothingOutlivesItsRoom
  BY RoomsIInvIsEnough
<1> QED
  BY <1>1, <1>2, RoomsInitInv, PTL DEF LiveRoomsSpec

--------------------------------------------------------------------------------
(* The two lives together                                                       *)

\* The lives the run mixes keep what is promised of each of them, for all its instances: an
\* asset's steps leave the rooms alone, and the rooms' steps the asset.
THEOREM LifecyclesAreKept ==
    MCSpec => [](MediaInv /\ NothingLeaks /\ RoomsInv /\ NothingOutlivesItsRoom)
<1>1. MCInit => MediaIInv /\ RoomsIInv
  BY MediaInitInv, RoomsInitInv DEF MCInit
<1>2. MediaIInv /\ RoomsIInv /\ [MCNext]_<< vars, liveRoomsVars, scene >>
        => MediaIInv' /\ RoomsIInv'
  <2> SUFFICES ASSUME MediaIInv, RoomsIInv, [MCNext]_<< vars, liveRoomsVars, scene >>
               PROVE  MediaIInv' /\ RoomsIInv'
    OBVIOUS
  <2>1. CASE Next /\ UNCHANGED liveRoomsVars
    BY <2>1, MediaStep, RoomsStutter
  <2>2. CASE LiveRoomsNext /\ UNCHANGED vars
    BY <2>2, RoomsStep, MediaStutter
  <2>3. CASE UNCHANGED vars /\ UNCHANGED liveRoomsVars
    BY <2>3, MediaStutter, RoomsStutter
  <2> QED
    BY <2>1, <2>2, <2>3 DEF MCNext
<1>3. MediaIInv /\ RoomsIInv => MediaInv /\ NothingLeaks /\ RoomsInv /\ NothingOutlivesItsRoom
  BY MediaIInvIsEnough, RoomsIInvIsEnough
<1> QED
  BY <1>1, <1>2, <1>3, PTL DEF MCSpec
================================================================================
