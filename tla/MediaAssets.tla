----------------------------- MODULE MediaAssets -----------------------------
(***************************************************************************)
(* One uploaded image: its row in media_assets, its objects in storage and *)
(* everything that works on them at once: finalizations (POST              *)
(* /v1/media/:id/complete), the retention run's cleanup of published       *)
(* assets, deletion requests, the retention run's purge and the deletion   *)
(* of the workspace (apps/server/src/routes.ts, storage.ts, retention.ts,  *)
(* packages/db/src/postgres.ts).                                           *)
(*                                                                         *)
(* The object an upload is put to is Quarantine; a finalization copies it  *)
(* to an object of its own, named by its token, so a token is its key.     *)
(* Leases and holds are abstracted to the moment they pass.                *)
(***************************************************************************)
EXTENDS Integers

CONSTANTS Finalizers,  \* finalization attempts, each with its own token
          Cleaners,    \* retention runs that clean up after finalizations
          Deleters,    \* requests and retention runs that delete
          Quarantine,  \* the object of the upload
          NoToken,     \* no claim
          NoAsset,     \* there is no row
          MaxMishaps   \* bound on crashes, failed calls and lost replies

Keys == {Quarantine} \cup Finalizers

\* A row of media_assets.
Rows == [status : {"pending", "finalizing", "clean", "rejected", "deleting"},
         key : Keys, token : Finalizers \cup {NoToken}, lapsed : BOOLEAN, pass : 0..2,
         claim : Cleaners \cup {NoToken}, claimLapsed : BOOLEAN, due : BOOLEAN, mature : BOOLEAN]

ASSUME MediaAssumption ==
    /\ Quarantine \notin Finalizers
    /\ NoToken \notin Finalizers \cup Cleaners
    /\ NoAsset \notin Rows
    /\ MaxMishaps \in Nat

VARIABLES
    row,         \* the asset's row, or NoAsset
    object,      \* per key: "none", "temporary" (storage expires it) or "committed"
    finalizer,   \* per attempt: where it is
    inflight,    \* attempts whose unacknowledged update the database may still apply
    cleaner,     \* per cleanup: where it is, for which key, what it listed
    deleter,     \* per deletion: what for, where it is, what it listed
    referenced,  \* a draft, version or presentation refers to the asset
    window,      \* "unissued", "open" or "closed": the presigned upload
    workspace,   \* "live", "deleting" or "gone"
    job,         \* the workspace's media deletion job: "none", "waiting" or "due"
    mishaps

world == << referenced, window, workspace, job >>

vars == << row, object, finalizer, inflight, cleaner, deleter, world, mishaps >>

NewRow == [status |-> "pending", key |-> Quarantine, token |-> NoToken, lapsed |-> FALSE,
           pass |-> 0, claim |-> NoToken, claimLapsed |-> FALSE, due |-> FALSE, mature |-> FALSE]

Has(status) == row # NoAsset /\ row.status = status

IdleCleaner == [pc |-> "idle", key |-> Quarantine, pass |-> 0, keys |-> {}]

IdleDeleter == [pc |-> "idle", for |-> "request", mature |-> FALSE, keys |-> {}]

\* The objects that are there.
Stored == {k \in Keys : object[k] # "none"}

Removed(keys) == [k \in Keys |-> IF k \in keys THEN "none" ELSE object[k]]

\* A step that goes wrong.
Mishap == mishaps < MaxMishaps /\ mishaps' = mishaps + 1

\* Deletions run side by side, and some may fail: keys are deleted, of those asked for.
Deletes(keys, asked) ==
    /\ object' = Removed(keys)
    /\ IF keys = asked THEN UNCHANGED mishaps ELSE Mishap

\* PutObjectTagging: an object that is not there stays so.
Tagged(key) == [object EXCEPT ![key] = IF @ = "none" THEN @ ELSE "committed"]

-----------------------------------------------------------------------------
(* The upload *)

\* POST /v1/media and createMediaAsset: the row, then the presigned URL.
CreateMediaAsset ==
    /\ window = "unissued" /\ workspace = "live"
    /\ row' = NewRow /\ window' = "open"
    /\ UNCHANGED << object, finalizer, inflight, cleaner, deleter, referenced, workspace, job,
                    mishaps >>

\* The client puts the image, as often as it likes while its URL is valid.
Upload ==
    /\ window = "open"
    /\ object' = [object EXCEPT ![Quarantine] = "temporary"]
    /\ UNCHANGED << row, finalizer, inflight, cleaner, deleter, world, mishaps >>

CloseWindow ==
    /\ window = "open" /\ window' = "closed"
    /\ UNCHANGED << row, object, finalizer, inflight, cleaner, deleter, referenced, workspace,
                    job, mishaps >>

\* The bucket's lifecycle rules.
Expire(k) ==
    /\ object[k] = "temporary"
    /\ object' = Removed({k})
    /\ UNCHANGED << row, finalizer, inflight, cleaner, deleter, world, mishaps >>

\* replaceMediaReferences, and every saved draft, version or presentation: only to an asset
\* that is not being deleted.
Refer ==
    /\ referenced \/ (row # NoAsset /\ row.status # "deleting")
    /\ referenced' = ~referenced
    /\ UNCHANGED << row, object, finalizer, inflight, cleaner, deleter, window, workspace, job,
                    mishaps >>

-----------------------------------------------------------------------------
(* A finalization *)

At(f, pc) == finalizer[f] = pc
Goes(f, pc) == finalizer' = [finalizer EXCEPT ![f] = pc]

\* claimMediaAssetFinalization
ClaimFinalization(f) ==
    /\ At(f, "idle")
    /\ Has("pending") \/ (Has("finalizing") /\ row.lapsed)
    /\ row' = [row EXCEPT !.status = "finalizing", !.token = f, !.lapsed = FALSE]
    /\ Goes(f, "claimed")
    /\ UNCHANGED << object, inflight, cleaner, deleter, world, mishaps >>

\* finalize: the upload is there, scanned clean, and copied.
Copy(f) ==
    /\ At(f, "claimed") /\ object[Quarantine] # "none"
    /\ object' = [object EXCEPT ![f] = "temporary"]
    /\ Goes(f, "copied")
    /\ UNCHANGED << row, inflight, cleaner, deleter, world, mishaps >>

\* finalize: the metadata, the signature or the scan says no.
Reject(f) ==
    /\ At(f, "claimed") /\ object[Quarantine] # "none"
    /\ Goes(f, "rejecting")
    /\ UNCHANGED << row, object, inflight, cleaner, deleter, world, mishaps >>

\* commitFinalizationCandidate: makes the candidate permanent before it is published.
Tag(f) ==
    /\ At(f, "copied") /\ object[f] # "none"
    /\ object' = Tagged(f)
    /\ Goes(f, "committing")
    /\ UNCHANGED << row, inflight, cleaner, deleter, world, mishaps >>

\* A step of the finalization fails, or its reply is lost.
FinalizeFails(f) ==
    /\ finalizer[f] \in {"claimed", "copied", "committing"}
    /\ Goes(f, "failed")
    /\ Mishap
    /\ UNCHANGED << row, object, inflight, cleaner, deleter, world >>

Owns(f) == Has("finalizing") /\ row.token = f

\* updateMediaAsset's row for a result
Finalized(f, clean) ==
    [row EXCEPT !.status = IF clean THEN "clean" ELSE "rejected", !.token = NoToken,
                !.key = IF clean THEN f ELSE @, !.pass = 0, !.due = clean,
                !.claim = NoToken, !.claimLapsed = FALSE]

\* updateMediaAsset, and its acknowledgement
Update(f) ==
    /\ finalizer[f] \in {"committing", "rejecting"}
    /\ IF Owns(f)
       THEN row' = Finalized(f, At(f, "committing")) /\ Goes(f, "cleanup")
       ELSE UNCHANGED row /\ Goes(f, "lost")
    /\ UNCHANGED << object, inflight, cleaner, deleter, world, mishaps >>

\* The connection is dropped before the acknowledgement.
UpdateUnknown(f) ==
    /\ finalizer[f] \in {"committing", "rejecting"}
    /\ inflight' = inflight \cup {<< f, At(f, "committing") >>}
    /\ Goes(f, IF At(f, "committing") THEN "unsureClean" ELSE "unsureRejected")
    /\ Mishap
    /\ UNCHANGED << row, object, cleaner, deleter, world >>

\* The database handles an update whose connection was dropped.
LateUpdate(f, clean) ==
    /\ << f, clean >> \in inflight
    /\ inflight' = inflight \ {<< f, clean >>}
    /\ row' = IF Owns(f) THEN Finalized(f, clean) ELSE row
    /\ UNCHANGED << object, finalizer, cleaner, deleter, world, mishaps >>

\* The authoritative read shows this attempt's result.
Committed(f) ==
    \/ At(f, "unsureClean") /\ Has("clean") /\ row.key = f
    \/ At(f, "unsureRejected") /\ Has("rejected")

\* Reconciliation: the result is found, or the attempt is to be released.
Reconcile(f) ==
    /\ finalizer[f] \in {"unsureClean", "unsureRejected"}
    /\ Goes(f, IF Committed(f) THEN "cleanup" ELSE "release")
    /\ UNCHANGED << row, object, inflight, cleaner, deleter, world, mishaps >>

\* The read fails.
ReconcileFails(f) ==
    /\ finalizer[f] \in {"unsureClean", "unsureRejected"}
    /\ Goes(f, "release")
    /\ Mishap
    /\ UNCHANGED << row, object, inflight, cleaner, deleter, world >>

Released(f) == IF Owns(f) THEN [row EXCEPT !.status = "pending", !.token = NoToken] ELSE row

\* Mistaken: the candidate goes whether or not the attempt still owned its lease.
CleanupAlways(f) == TRUE

\* The failure's cleanup is allowed: the conditional release found the attempt's own lease.
CleanupAllowed(f) == Owns(f)

\* releaseMediaAssetFinalization after an uncertain update
ReleaseUnsure(f) ==
    /\ At(f, "release")
    /\ Goes(f, IF CleanupAllowed(f) THEN "failed" ELSE "done")
    /\ row' = Released(f)
    /\ UNCHANGED << object, inflight, cleaner, deleter, world, mishaps >>

\* deleteFinalizationCandidate, which may fail, for an attempt that lost its claim or failed;
\* one that failed then releases its claim.
DeleteCandidate(f) ==
    /\ finalizer[f] \in {"failed", "lost"}
    /\ \E keys \in SUBSET {f} : Deletes(keys, {f})
    /\ Goes(f, IF At(f, "failed") THEN "releasing" ELSE "done")
    /\ UNCHANGED << row, inflight, cleaner, deleter, world >>

Release(f) ==
    /\ At(f, "releasing")
    /\ row' = Released(f) /\ Goes(f, "done")
    /\ UNCHANGED << object, inflight, cleaner, deleter, world, mishaps >>

\* cleanupFinalization after the attempt's own commit: everything but the published object.
\* Deletions run side by side, and some may fail; completeInlineMediaObjectCleanup when none did.
CleanupInline(f) ==
    LET leftover == Stored \ {f}
    IN  /\ At(f, "cleanup") /\ Goes(f, "done")
        /\ \E keys \in SUBSET leftover :
               /\ Deletes(keys, leftover)
               /\ row' = IF /\ keys = leftover /\ Has("clean") /\ row.key = f
                            /\ row.pass = 0 /\ row.claim = NoToken
                         THEN [row EXCEPT !.pass = 1, !.due = FALSE] ELSE row
        /\ UNCHANGED << inflight, cleaner, deleter, world >>

\* Its process dies, or its last answer is never acted on.
CrashFinalizer(f) ==
    /\ finalizer[f] \notin {"idle", "done"} /\ Goes(f, "done")
    /\ Mishap
    /\ UNCHANGED << row, object, inflight, cleaner, deleter, world >>

-----------------------------------------------------------------------------
(* The cleanup of published assets *)

\* claimMediaObjectCleanupCandidates
ClaimCleanup(c) ==
    /\ cleaner[c].pc = "idle"
    /\ Has("clean") /\ row.pass < 2 /\ row.due
    /\ row.claim = NoToken \/ row.claimLapsed
    /\ row' = [row EXCEPT !.claim = c, !.claimLapsed = FALSE]
    /\ cleaner' = [cleaner EXCEPT ![c] = [pc |-> "claimed", key |-> row.key, pass |-> row.pass,
                                          keys |-> {}]]
    /\ UNCHANGED << object, finalizer, inflight, deleter, world, mishaps >>

HoldsClaim(c) ==
    Has("clean") /\ row.key = cleaner[c].key /\ row.pass = cleaner[c].pass /\ row.claim = c

\* renewMediaObjectCleanupClaim, before each piece of work; a claim that changed is given up.
RenewCleanup(c) ==
    /\ cleaner[c].pc \in {"claimed", "listed"}
    /\ IF HoldsClaim(c)
       THEN /\ row' = [row EXCEPT !.claimLapsed = FALSE]
            /\ cleaner' = [cleaner EXCEPT ![c].pc = IF @ = "claimed" THEN "list" ELSE "delete"]
       ELSE UNCHANGED row /\ cleaner' = [cleaner EXCEPT ![c].pc = "failed"]
    /\ UNCHANGED << object, finalizer, inflight, deleter, world, mishaps >>

KeysToDelete(c) == Stored \ {cleaner[c].key}

\* cleanupFinalization: the published object is tagged again, the others are listed.
ListCleanup(c) ==
    /\ cleaner[c].pc = "list"
    /\ object' = Tagged(cleaner[c].key)
    /\ cleaner' = [cleaner EXCEPT ![c].pc = "listed", ![c].keys = KeysToDelete(c)]
    /\ UNCHANGED << row, finalizer, inflight, deleter, world, mishaps >>

\* cleanupFinalization: the deletions, of which some may fail.
DeleteCleanup(c) ==
    /\ cleaner[c].pc = "delete"
    /\ \E keys \in SUBSET cleaner[c].keys :
           /\ Deletes(keys, cleaner[c].keys)
           /\ cleaner' = [cleaner EXCEPT ![c].pc = IF keys = cleaner[c].keys THEN "complete"
                                                   ELSE "failed"]
    /\ UNCHANGED << row, finalizer, inflight, deleter, world >>

\* completeMediaObjectCleanupClaim: the second pass comes six days after the finalization.
CompleteCleanup(c) ==
    /\ cleaner[c].pc = "complete"
    /\ row' = IF HoldsClaim(c)
              THEN [row EXCEPT !.pass = @ + 1, !.due = FALSE, !.claim = NoToken] ELSE row
    /\ cleaner' = [cleaner EXCEPT ![c] = IdleCleaner]
    /\ UNCHANGED << object, finalizer, inflight, deleter, world, mishaps >>

\* deferMediaObjectCleanupClaim: again in an hour.
DeferCleanup(c) ==
    /\ cleaner[c].pc = "failed"
    /\ row' = IF HoldsClaim(c) THEN [row EXCEPT !.due = FALSE, !.claim = NoToken] ELSE row
    /\ cleaner' = [cleaner EXCEPT ![c] = IdleCleaner]
    /\ UNCHANGED << object, finalizer, inflight, deleter, world, mishaps >>

CrashCleaner(c) ==
    /\ cleaner[c].pc # "idle"
    /\ cleaner' = [cleaner EXCEPT ![c] = IdleCleaner]
    /\ Mishap
    /\ UNCHANGED << row, object, finalizer, inflight, deleter, world >>

-----------------------------------------------------------------------------
(* Deletion *)

MayDelete == ~referenced /\ (row.status = "finalizing" => row.lapsed)

Tombstone ==
    [row EXCEPT !.status = "deleting", !.token = NoToken, !.lapsed = FALSE]

\* claimMediaAssetDeletion, for DELETE /v1/media/:id or the retention run.
ClaimDeletion(d, for) ==
    /\ deleter[d].pc = "idle"
    /\ row # NoAsset /\ MayDelete
    /\ deleter' = [deleter EXCEPT ![d] = [pc |-> "list", for |-> for, mature |-> row.mature,
                                          keys |-> {}]]
    /\ row' = Tombstone
    /\ UNCHANGED << object, finalizer, inflight, cleaner, world, mishaps >>

\* DELETE /v1/account: claimWorkspaceMediaDeletion, whoever refers to the asset or holds it.
ClaimWorkspaceDeletion(d) ==
    /\ deleter[d].pc = "idle" /\ workspace # "gone"
    /\ workspace' = "deleting"
    /\ IF row = NoAsset
       THEN /\ UNCHANGED << row, job >>
            /\ deleter' = [deleter EXCEPT ![d].pc = "deleteAccount", ![d].for = "account"]
       ELSE /\ row' = Tombstone
            /\ job' = IF job = "none" THEN "waiting" ELSE job
            /\ deleter' = [deleter EXCEPT ![d].pc = "list", ![d].for = "account"]
    /\ UNCHANGED << object, finalizer, inflight, cleaner, referenced, window, mishaps >>

\* completeWorkspaceMediaDeletionJob's sweep begins (deleteWorkspaceMediaObjects).
BeginSweep(d) ==
    /\ deleter[d].pc = "idle" /\ job = "due"
    /\ deleter' = [deleter EXCEPT ![d].pc = "list", ![d].for = "sweep"]
    /\ UNCHANGED << row, object, finalizer, inflight, cleaner, world, mishaps >>

\* deleteAsset and deleteObjectPrefix list what is there.
ListDeletion(d) ==
    /\ deleter[d].pc = "list"
    /\ deleter' = [deleter EXCEPT ![d].pc = "delete", ![d].keys = Stored]
    /\ UNCHANGED << row, object, finalizer, inflight, cleaner, world, mishaps >>

\* Mistaken: whether the tombstone is mature is asked after the sweep.
NextStepAtOnce(d) ==
    CASE deleter[d].for = "retention" -> "purge"
      [] deleter[d].for = "account" -> "deleteAccount"
      [] deleter[d].for = "sweep" -> "completeJob"
      [] OTHER -> "idle"

\* What follows when everything listed is deleted: a row that was mature when claimed is purged.
NextStep(d) ==
    CASE deleter[d].for = "retention" /\ deleter[d].mature -> "purge"
      [] deleter[d].for = "account" -> "deleteAccount"
      [] deleter[d].for = "sweep" -> "completeJob"
      [] OTHER -> "idle"

\* The deletions; when some fail, the tombstone or the job waits for the next attempt.
DeleteObjects(d) ==
    /\ deleter[d].pc = "delete"
    /\ \E keys \in SUBSET deleter[d].keys :
           /\ Deletes(keys, deleter[d].keys)
           /\ LET next == NextStep(d)
              IN  deleter' = [deleter EXCEPT ![d] =
                     IF keys = deleter[d].keys /\ next # "idle"
                     THEN [@ EXCEPT !.pc = next, !.keys = {}] ELSE IdleDeleter]
    /\ UNCHANGED << row, finalizer, inflight, cleaner, world >>

Purgeable == Has("deleting") /\ row.mature /\ ~referenced

\* deleteMediaAsset
Purge(d) ==
    /\ deleter[d].pc = "purge"
    /\ row' = IF Purgeable THEN NoAsset ELSE row
    /\ deleter' = [deleter EXCEPT ![d] = IdleDeleter]
    /\ UNCHANGED << object, finalizer, inflight, cleaner, world, mishaps >>

\* deleteAccount: the workspace goes with its assets and references; its job stays.
DeleteAccount(d) ==
    /\ deleter[d].pc = "deleteAccount"
    /\ workspace' = "gone" /\ row' = NoAsset /\ referenced' = FALSE
    /\ deleter' = [deleter EXCEPT ![d] = IdleDeleter]
    /\ UNCHANGED << object, finalizer, inflight, cleaner, window, job, mishaps >>

\* completeWorkspaceMediaDeletionJob
CompleteJob(d) ==
    /\ deleter[d].pc = "completeJob"
    /\ job' = "none"
    /\ deleter' = [deleter EXCEPT ![d] = IdleDeleter]
    /\ UNCHANGED << row, object, finalizer, inflight, cleaner, referenced, window, workspace,
                    mishaps >>

CrashDeleter(d) ==
    /\ deleter[d].pc # "idle"
    /\ deleter' = [deleter EXCEPT ![d] = IdleDeleter]
    /\ Mishap
    /\ UNCHANGED << row, object, finalizer, inflight, cleaner, world >>

-----------------------------------------------------------------------------
(* Time *)

\* Five minutes pass: a finalization's lease or a cleanup's claim may be taken over.
Lapse ==
    /\ \/ Has("finalizing") /\ ~row.lapsed /\ row' = [row EXCEPT !.lapsed = TRUE]
       \/ /\ Has("clean") /\ row.claim # NoToken /\ ~row.claimLapsed
          /\ row' = [row EXCEPT !.claimLapsed = TRUE]
    /\ UNCHANGED << object, finalizer, inflight, cleaner, deleter, world, mishaps >>

\* The hold of a tombstone outlives the presigned URL, and every finalization that claimed
\* the asset earlier: each of its calls ends within a minute.
HoldPassed == window # "open" /\ \A f \in Finalizers : finalizer[f] # "claimed"

Mature ==
    /\ Has("deleting") /\ ~row.mature /\ HoldPassed
    /\ row' = [row EXCEPT !.mature = TRUE]
    /\ UNCHANGED << object, finalizer, inflight, cleaner, deleter, world, mishaps >>

JobDue ==
    /\ job = "waiting" /\ HoldPassed /\ job' = "due"
    /\ UNCHANGED << row, object, finalizer, inflight, cleaner, deleter, referenced, window,
                    workspace, mishaps >>

\* A cleanup comes due again: an hour after a failed one, six days after the first pass.
CleanupDue ==
    /\ Has("clean") /\ row.pass < 2 /\ ~row.due
    /\ row.pass = 1 => HoldPassed
    /\ row' = [row EXCEPT !.due = TRUE]
    /\ UNCHANGED << object, finalizer, inflight, cleaner, deleter, world, mishaps >>

Init ==
    /\ row = NoAsset /\ object = [k \in Keys |-> "none"]
    /\ finalizer = [f \in Finalizers |-> "idle"] /\ inflight = {}
    /\ cleaner = [c \in Cleaners |-> IdleCleaner] /\ deleter = [d \in Deleters |-> IdleDeleter]
    /\ referenced = FALSE /\ window = "unissued" /\ workspace = "live" /\ job = "none"
    /\ mishaps = 0

FinalizeStep(f) ==
    \/ ClaimFinalization(f) \/ Copy(f) \/ Reject(f) \/ Tag(f) \/ FinalizeFails(f)
    \/ Update(f) \/ UpdateUnknown(f) \/ \E clean \in BOOLEAN : LateUpdate(f, clean)
    \/ Reconcile(f) \/ ReconcileFails(f) \/ ReleaseUnsure(f) \/ DeleteCandidate(f) \/ Release(f)
    \/ CleanupInline(f) \/ CrashFinalizer(f)

CleanupStep(c) ==
    \/ ClaimCleanup(c) \/ RenewCleanup(c) \/ ListCleanup(c) \/ DeleteCleanup(c)
    \/ CompleteCleanup(c) \/ DeferCleanup(c) \/ CrashCleaner(c)

DeletionStep(d) ==
    \/ \E for \in {"request", "retention"} : ClaimDeletion(d, for)
    \/ ClaimWorkspaceDeletion(d) \/ BeginSweep(d) \/ ListDeletion(d) \/ DeleteObjects(d)
    \/ Purge(d) \/ DeleteAccount(d) \/ CompleteJob(d) \/ CrashDeleter(d)

Next ==
    \/ CreateMediaAsset \/ Upload \/ CloseWindow \/ Refer
    \/ Lapse \/ Mature \/ JobDue \/ CleanupDue
    \/ \E k \in Keys : Expire(k)
    \/ \E f \in Finalizers : FinalizeStep(f)
    \/ \E c \in Cleaners : CleanupStep(c)
    \/ \E d \in Deleters : DeletionStep(d)

Spec == Init /\ [][Next]_vars

-----------------------------------------------------------------------------
(* Properties *)

FinalizerPcs == {"idle", "claimed", "copied", "committing", "rejecting", "unsureClean",
                 "unsureRejected", "release", "failed", "lost", "releasing", "cleanup", "done"}

TypeOK ==
    /\ row \in Rows \cup {NoAsset}
    /\ object \in [Keys -> {"none", "temporary", "committed"}]
    /\ finalizer \in [Finalizers -> FinalizerPcs]
    /\ inflight \subseteq Finalizers \X BOOLEAN
    /\ cleaner \in [Cleaners -> [pc : {"idle", "claimed", "list", "listed", "delete",
                                       "complete", "failed"},
                                 key : Keys, pass : 0..2, keys : SUBSET Keys]]
    /\ deleter \in [Deleters -> [pc : {"idle", "list", "delete", "purge", "deleteAccount",
                                       "completeJob"},
                                 for : {"request", "retention", "account", "sweep"},
                                 mature : BOOLEAN, keys : SUBSET Keys]]
    /\ referenced \in BOOLEAN /\ window \in {"unissued", "open", "closed"}
    /\ workspace \in {"live", "deleting", "gone"} /\ job \in {"none", "waiting", "due"}
    /\ mishaps \in 0..MaxMishaps

\* A clean asset can be shown: its object is in storage, and for good, whatever finalizations
\* lost their lease or their connection, and whatever is cleaned up at the same time.
CleanIsStored == Has("clean") => object[row.key] = "committed"

\* What a draft, a version or a presentation shows is not deleted, short of the workspace.
ReferencedIsKept == referenced /\ workspace = "live" => row # NoAsset /\ row.status # "deleting"

MediaInv == TypeOK /\ CleanIsStored /\ ReferencedIsKept

\* Nothing outlives the last trace of it: once the row of an asset and its workspace's job are
\* gone, or its second cleanup is done, storage holds nothing else of it that it would keep.
NothingLeaks ==
    /\ row = NoAsset /\ job = "none" /\ window # "unissued" => Stored = {}
    /\ Has("clean") /\ row.pass = 2 =>
           \A k \in Keys \ {row.key} : object[k] # "committed"
=============================================================================
