--------------------------- MODULE ObjectLifecycle ---------------------------
(***************************************************************************)
(* Stored objects: rows in PostgreSQL, bytes in a bucket, and no way to    *)
(* change both at once.  The API reserves an object, the browser uploads   *)
(* to a staging key, completion copies the bytes to the final key, and     *)
(* storage workers remove what is no longer wanted.                        *)
(*                                                                         *)
(* A transaction that makes no call to the bucket is one action.  One that *)
(* does holds its row locks across the call; RowFree and TargetFree are    *)
(* those locks, read off the requests and workers inside a transaction.    *)
(***************************************************************************)
EXTENDS Integers, FiniteSets

CONSTANTS
    Objects,             \* identifiers of stored_objects rows
    Targets,             \* categories, challenges, pages, solutions, owners
    IconTargets,         \* the targets that are challenge categories
    Requests,            \* completions the API handles at the same time
    Workers,             \* storage workers, one per controller process
    None,                \* SQL NULL
    PresignTtl,          \* life of an upload grant
    MaxUploadDuration,   \* the proxy ends an upload after this time
    Grace,               \* UPLOAD_CLOCK_GRACE
    MaxRetained,         \* retained objects of one principal (quota)
    MaxAttempts,         \* config.max_attempts
    MaxTime,             \* bound: last instant of the clock
    MaxFaults            \* bound: storage errors, crashes, slow workers

ASSUME StorageAssumption ==
    /\ None \notin Objects \cup Targets \cup Workers
    /\ IconTargets \subseteq Targets
    /\ PresignTtl \in Nat \ {0} /\ MaxUploadDuration \in Nat /\ Grace \in Nat
    /\ MaxRetained \in Nat /\ MaxAttempts \in Nat \ {0}
    /\ MaxTime \in Nat /\ MaxFaults \in Nat

VARIABLES
    now,      \* wall clock
    obj,      \* stored_objects
    alive,    \* targets whose row exists
    icon,     \* challenge_categories.icon_object_id
    choice,   \* how often each icon was chosen or removed (for the properties)
    ops,      \* object_operations, per object and kind
    staged,   \* objects with bytes under their upload key
    final,    \* objects with bytes under their object key
    puts,     \* objects with an upload still streaming
    req,      \* completions in progress
    wk,       \* what each worker has in hand
    faults    \* faults that have happened

rowVars    == <<obj, alive, icon, choice>>
bucketVars == <<staged, final, puts>>
vars == <<now, rowVars, ops, bucketVars, req, wk, faults>>

----------------------------------------------------------------------------

Statuses == {"none", "pending", "ready", "failed", "deleting", "deleted"}
Kinds    == {"reconcile", "delete_upload", "delete"}

\* expects: expected_icon_object_id in the metadata.  seen: what choice was when
\* the upload was prepared (for the properties).  upExp: upload_expires_at.
Row == [status : Statuses, rev : Nat, target : Targets \cup {None},
        expects : Objects \cup {None}, seen : Nat, upExp : Nat]
NoRow == [status |-> "none", rev |-> 0, target |-> None, expects |-> None,
          seen |-> 0, upExp |-> 0]

\* An object has at most one open operation of a kind (uq_object_operations_open_kind).
\* Of its closed ones only this is ever asked: which revisions completed, and
\* which failed.  wait: available_at was moved by a back-off or a deferral.
Queue == [status : {"none", "pending", "claimed"}, rev : Nat,
          by : Workers \cup {None}, attempts : Nat, avail : Nat, wait : BOOLEAN,
          done : SUBSET Nat, failed : SUBSET Nat]
NoQueue == [status |-> "none", rev |-> 0, by |-> None, attempts |-> 0, avail |-> 0,
            wait |-> FALSE, done |-> {}, failed |-> {}]

Open(q) == q.status \in {"pending", "claimed"}

\* loaded: staging was verified.  failing: about to fail the upload.
\* promoting, promoted: inside the transaction, before and after the copy.
Completion == [pc : {"idle", "loaded", "failing", "promoting", "promoted"},
               obj : Objects \cup {None}, target : Targets \cup {None}]
NoCompletion == [pc |-> "idle", obj |-> None, target |-> None]

\* staging, cleared, erasing, erased: inside a transaction, before and after
\* the DELETE of the staging key and of the final key.
Job == [pc : {"idle", "claimed", "staging", "cleared", "erasing", "erased", "error"},
        obj : Objects \cup {None}, kind : Kinds \cup {None}, rev : Nat]
NoJob == [pc |-> "idle", obj |-> None, kind |-> None, rev |-> 0]

Init ==
    /\ now = 0
    /\ obj = [o \in Objects |-> NoRow]
    /\ alive = Targets
    /\ icon = [t \in IconTargets |-> None]
    /\ choice = [t \in IconTargets |-> 0]
    /\ ops = [o \in Objects |-> [k \in Kinds |-> NoQueue]]
    /\ staged = {} /\ final = {} /\ puts = {}
    /\ req = [r \in Requests |-> NoCompletion]
    /\ wk = [w \in Workers |-> NoJob]
    /\ faults = 0

IsIcon(o) == obj[o].target \in IconTargets

\* mutant: the row is not locked while the bytes are copied
RowFreeOrNot(o) == TRUE

\* FOR UPDATE on the object, held by a transaction that waits for the bucket
RowFree(o) ==
    /\ \A r \in Requests : req[r].pc \in {"promoting", "promoted"} => req[r].obj # o
    /\ \A w \in Workers :
          wk[w].pc \in {"staging", "cleared", "erasing", "erased"} => wk[w].obj # o

\* FOR UPDATE on the category, or FOR KEY SHARE on another target
TargetFree(t) ==
    \A r \in Requests : req[r].pc \in {"promoting", "promoted"} => req[r].target # t

\* staging_cleanup_at
StagingCleanupAt(o) == obj[o].upExp + Grace

\* mutant: uploads are assumed to end with their grant
TerminalAtExpiry(o) == obj[o].upExp

TerminalStagingCleanupAt(o) == obj[o].upExp + MaxUploadDuration + Grace

----------------------------------------------------------------------------
(* The queue.                                                               *)

\* enqueue_operation, ON CONFLICT DO NOTHING: an open operation of the kind stays
Enqueued(q, rev, avail) ==
    IF Open(q) THEN q
    ELSE [NoQueue EXCEPT !.status = "pending", !.rev = rev, !.avail = avail,
                         !.done = q.done, !.failed = q.failed]

\* the open operation of the kind is over
Closed(q) == [NoQueue EXCEPT !.done = q.done, !.failed = q.failed]

\* the open operations of o are cancelled and both deletions queued
Cleanup(o, rev) ==
    [k \in Kinds |->
        CASE k = "reconcile"     -> Closed(ops[o][k])
          [] k = "delete_upload" -> Enqueued(Closed(ops[o][k]), rev, StagingCleanupAt(o))
          [] k = "delete"        -> Enqueued(Closed(ops[o][k]), rev, now)]

Doomed(o) == obj[o].status \notin {"none", "deleting", "deleted"}

\* mark_object_deleting_in_transaction for a set of objects
MarkedDeleting(rows, S) ==
    [o \in Objects |-> IF o \in S /\ Doomed(o)
                       THEN [rows[o] EXCEPT !.status = "deleting", !.rev = obj[o].rev + 1]
                       ELSE rows[o]]

OpsMarkedDeleting(S) ==
    [o \in Objects |-> IF o \in S /\ Doomed(o) THEN Cleanup(o, obj[o].rev + 1) ELSE ops[o]]

----------------------------------------------------------------------------
(* The API.                                                                 *)

\* enforce_storage_quota: what the principal is taken to retain.  Icons are the
\* administrator's and have no quota; the other objects are one user's.
Retained ==
    {o \in Objects : /\ ~IsIcon(o)
                     /\ \/ obj[o].status \in {"pending", "ready", "deleting"}
                        \/ obj[o].status = "failed" /\ \E k \in Kinds : Open(ops[o][k])}

InitiateUpload(o, t) ==
    /\ obj[o].status = "none"
    /\ t \in alive
    /\ t \in IconTargets => TargetFree(t)
    /\ t \notin IconTargets => Cardinality(Retained) < MaxRetained
    /\ now + PresignTtl + MaxUploadDuration + Grace <= MaxTime   \* bound
    /\ obj' = [obj EXCEPT ![o] =
          [status |-> "pending", rev |-> 1, target |-> t,
           expects |-> IF t \in IconTargets THEN icon[t] ELSE None,
           seen |-> IF t \in IconTargets THEN choice[t] ELSE 0,
           upExp |-> now + PresignTtl]]
    /\ ops' = [ops EXCEPT ![o]["reconcile"] = Enqueued(@, 1, now + PresignTtl)]
    /\ UNCHANGED <<now, alive, icon, choice, bucketVars, req, wk, faults>>

\* complete_upload reads the row and verifies the staged bytes; the checks may
\* find them wrong (size, type, icon validation)
BeginCompletion(r, o) ==
    /\ req[r].pc = "idle"
    /\ obj[o].status = "pending"
    /\ \/ /\ obj[o].upExp < now
          /\ req' = [req EXCEPT ![r] = [pc |-> "failing", obj |-> o, target |-> obj[o].target]]
       \/ /\ now <= obj[o].upExp /\ o \in staged
          /\ \E pc \in {"loaded", "failing"} :
                req' = [req EXCEPT ![r] = [pc |-> pc, obj |-> o, target |-> obj[o].target]]
    /\ UNCHANGED <<now, rowVars, ops, bucketVars, wk, faults>>

Ends(r) == req' = [req EXCEPT ![r] = NoCompletion]
GoesOn(r, pc) == req' = [req EXCEPT ![r].pc = pc]

\* begin, lock the target, lock the object, and look again
Promotable(r) ==
    LET o == req[r].obj IN
    /\ obj[o].status = "pending" /\ now <= obj[o].upExp
    /\ IsIcon(o) => icon[obj[o].target] = obj[o].expects

OpenPromotion(r) ==
    LET o == req[r].obj IN
    /\ req[r].pc = "loaded"
    /\ req[r].target \in IconTargets => TargetFree(req[r].target)
    /\ req[r].target \in alive => RowFree(o)
    /\ IF req[r].target \notin alive THEN GoesOn(r, "failing")
       ELSE IF Promotable(r) THEN GoesOn(r, "promoting")
       ELSE IF obj[o].status # "pending" THEN Ends(r)
       ELSE GoesOn(r, "failing")
    /\ UNCHANGED <<now, rowVars, ops, bucketVars, wk, faults>>

CopyToFinalKey(r) ==
    /\ req[r].pc = "promoting"
    /\ IF req[r].obj \in staged
       THEN final' = final \cup {req[r].obj} /\ GoesOn(r, "promoted")
       ELSE Ends(r) /\ UNCHANGED final
    /\ UNCHANGED <<now, rowVars, ops, staged, puts, wk, faults>>

\* the promoted bytes do not pass the checks: rollback, then fail the upload
PromotionRefused(r) ==
    /\ req[r].pc = "promoted"
    /\ GoesOn(r, "failing")
    /\ UNCHANGED <<now, rowVars, ops, bucketVars, wk, faults>>

Drafts(t) == {o \in Objects : obj[o].target = t /\ obj[o].status = "pending"}

\* commit (the row is locked since it was read, so it is pending and at the same
\* revision): ready, and for an icon the pointer, the end of the previous icon and
\* of every older draft
CommitPromotion(r) ==
    LET o == req[r].obj
        t == obj[o].target
        ends == IF IsIcon(o) THEN ({icon[t]} \cup Drafts(t)) \ {o, None} ELSE {}
        rows == [obj EXCEPT ![o].status = "ready", ![o].rev = @ + 1] IN
    /\ req[r].pc = "promoted"
    /\ \A p \in ends : RowFree(p)
    /\ obj' = MarkedDeleting(rows, ends)
    /\ ops' = [OpsMarkedDeleting(ends) EXCEPT
          ![o]["reconcile"] = Closed(@),
          ![o]["delete_upload"] = Enqueued(@, obj[o].rev + 1, StagingCleanupAt(o))]
    /\ icon' = IF IsIcon(o) THEN [icon EXCEPT ![t] = o] ELSE icon
    /\ choice' = IF IsIcon(o) THEN [choice EXCEPT ![t] = @ + 1] ELSE choice
    /\ Ends(r)
    /\ UNCHANGED <<now, alive, bucketVars, wk, faults>>

\* fail_upload, in a transaction of its own
FailUpload(r) ==
    LET o == req[r].obj IN
    /\ req[r].pc = "failing"
    /\ RowFree(o)
    /\ IF obj[o].status = "pending"
       THEN /\ obj' = [obj EXCEPT ![o].status = "failed", ![o].rev = @ + 1]
            /\ ops' = [ops EXCEPT ![o] = Cleanup(o, obj[o].rev + 1)]
       ELSE UNCHANGED <<obj, ops>>
    /\ Ends(r)
    /\ UNCHANGED <<now, alive, icon, choice, bucketVars, wk, faults>>

DeleteCategoryIcon(t) ==
    LET ends == {icon[t]} \cup Drafts(t) IN
    /\ t \in alive /\ icon[t] # None /\ TargetFree(t)
    /\ \A p \in ends : RowFree(p)
    /\ obj' = MarkedDeleting(obj, ends)
    /\ ops' = OpsMarkedDeleting(ends)
    /\ icon' = [icon EXCEPT ![t] = None]
    /\ choice' = [choice EXCEPT ![t] = @ + 1]
    /\ UNCHANGED <<now, alive, bucketVars, req, wk, faults>>

\* mutant: any object may be deleted, the current icon too
NeverAttached(o) == FALSE

IsAttached(o) == IsIcon(o) /\ icon[obj[o].target] = o

\* schedule_delete: the current icon is refused
DeleteObject(o) ==
    /\ Doomed(o) /\ RowFree(o)
    /\ IsIcon(o) => TargetFree(obj[o].target)
    /\ ~IsAttached(o)
    /\ obj' = MarkedDeleting(obj, {o})
    /\ ops' = OpsMarkedDeleting({o})
    /\ UNCHANGED <<now, alive, icon, choice, bucketVars, req, wk, faults>>

\* the row goes, and the trigger ends every object linked to it
DeleteTarget(t) ==
    LET linked == {o \in Objects : obj[o].target = t} IN
    /\ t \in alive /\ TargetFree(t)
    /\ \A o \in linked : RowFree(o)
    /\ alive' = alive \ {t}
    /\ icon' = [c \in IconTargets |-> IF c = t THEN None ELSE icon[c]]
    /\ obj' = [o \in Objects |-> [MarkedDeleting(obj, linked)[o] EXCEPT
                                     !.target = IF o \in linked THEN None ELSE @]]
    /\ ops' = OpsMarkedDeleting(linked)
    /\ UNCHANGED <<now, choice, bucketVars, req, wk, faults>>

----------------------------------------------------------------------------
(* The storage workers.                                                     *)

\* what a maintenance pass wants done: the safety retry interval of a failed
\* operation may have passed at any time, so it is not looked at
Desired(o, k) ==
    LET q == ops[o][k] IN
    /\ ~Open(q)
    /\ CASE k = "reconcile"     -> obj[o].status = "pending" /\ obj[o].upExp <= now
         [] k = "delete_upload" -> /\ obj[o].status \in {"ready", "failed", "deleting", "deleted"}
                                   /\ q.done = {}
         [] k = "delete"        -> /\ obj[o].status \in {"failed", "deleting"}
                                   /\ obj[o].rev \notin q.done

EnqueueMissing(o, k) ==
    /\ \E w \in Workers : wk[w].pc = "idle"
    /\ Desired(o, k)
    /\ ops' = [ops EXCEPT ![o][k] = Enqueued(@, obj[o].rev,
          IF k = "delete_upload" /\ now < StagingCleanupAt(o) THEN StagingCleanupAt(o) ELSE now)]
    /\ UNCHANGED <<now, rowVars, bucketVars, req, wk, faults>>

ClaimOperation(w, o, k) ==
    LET q == ops[o][k] IN
    /\ wk[w].pc = "idle"
    /\ q.status = "pending" /\ q.avail <= now /\ ~q.wait
    /\ ops' = [ops EXCEPT ![o][k] = [@ EXCEPT !.status = "claimed", !.by = w,
                                              !.attempts = q.attempts + 1]]
    /\ wk' = [wk EXCEPT ![w] = [pc |-> "claimed", obj |-> o, kind |-> k, rev |-> q.rev]]
    /\ UNCHANGED <<now, rowVars, bucketVars, req, faults>>

Mine(w) == ops[wk[w].obj][wk[w].kind]

\* WHERE id=.. AND status='claimed' AND claimed_by=..
HoldsClaim(w) == Mine(w).status = "claimed" /\ Mine(w).by = w /\ Mine(w).rev = wk[w].rev

Idles(w) == wk' = [wk EXCEPT ![w] = NoJob]
WorksOn(w, pc) == wk' = [wk EXCEPT ![w].pc = pc]

Completed(w) == [Closed(Mine(w)) EXCEPT !.done = Mine(w).done \cup {wk[w].rev}]

\* back to the queue, not counting as an attempt
Deferred(w, avail, wait) ==
    [Mine(w) EXCEPT !.status = "pending", !.by = None, !.avail = avail, !.wait = wait,
                    !.attempts = IF Mine(w).attempts > 0 THEN Mine(w).attempts - 1 ELSE 0]

Replace(w, q) == [ops EXCEPT ![wk[w].obj][wk[w].kind] = q]

\* the first statement inside a job's transaction: FOR UPDATE
Takes(w, kind) ==
    /\ wk[w].pc = "claimed" /\ wk[w].kind = kind
    /\ RowFree(wk[w].obj)

Current(w) == obj[wk[w].obj].rev = wk[w].rev

\* the states an operation still makes sense in
Applies(w) ==
    LET status == obj[wk[w].obj].status IN
    CASE wk[w].kind = "reconcile"     -> status = "pending"
      [] wk[w].kind = "delete_upload" -> status \in {"ready", "failed", "deleting", "deleted"}
      [] wk[w].kind = "delete"        -> status \in {"failed", "deleting", "deleted"}

Outdated(w) == ~Current(w) \/ ~Applies(w)

\* cancel_operation; a job that lost its claim fails and is rolled back
CancelOutdated(w) ==
    /\ \E k \in Kinds : Takes(w, k)
    /\ Outdated(w)
    /\ IF HoldsClaim(w) THEN ops' = Replace(w, Closed(Mine(w))) /\ Idles(w)
       ELSE UNCHANGED ops /\ WorksOn(w, "error")
    /\ UNCHANGED <<now, rowVars, bucketVars, req, faults>>

ReconcileUpload(w) ==
    LET o == wk[w].obj IN
    /\ Takes(w, "reconcile") /\ ~Outdated(w)
    /\ IF now < obj[o].upExp
       THEN /\ ops' = IF HoldsClaim(w) THEN Replace(w, Deferred(w, obj[o].upExp, FALSE)) ELSE ops
            /\ Idles(w) /\ UNCHANGED obj
       ELSE IF HoldsClaim(w)
       THEN /\ obj' = [obj EXCEPT ![o].status = "failed", ![o].rev = @ + 1]
            /\ ops' = [ops EXCEPT ![o] =
                  [k \in Kinds |->
                      CASE k = "reconcile"     -> Completed(w)
                        [] k = "delete_upload" -> Enqueued(ops[o][k], obj[o].rev + 1, StagingCleanupAt(o))
                        [] k = "delete"        -> Enqueued(ops[o][k], obj[o].rev + 1, now)]]
            /\ Idles(w)
       ELSE UNCHANGED <<obj, ops>> /\ WorksOn(w, "error")
    /\ UNCHANGED <<now, alive, icon, choice, bucketVars, req, faults>>

BeginDeleteUpload(w) ==
    /\ Takes(w, "delete_upload") /\ ~Outdated(w)
    /\ WorksOn(w, "staging")
    /\ UNCHANGED <<now, rowVars, ops, bucketVars, req, faults>>

ClearStaging(w) ==
    /\ wk[w].pc = "staging"
    /\ staged' = staged \ {wk[w].obj}
    /\ WorksOn(w, "cleared")
    /\ UNCHANGED <<now, rowVars, ops, final, puts, req, faults>>

\* An upload may still be streaming: then the same operation comes back.  Its
\* completion lets a final deletion that waited for it run at once.
FinishDeleteUpload(w) ==
    LET o == wk[w].obj
        terminal == TerminalStagingCleanupAt(o)
        unblocked == [ops[o]["delete"] EXCEPT
            !.wait = @ /\ ~(ops[o]["delete"].status = "pending" /\ ops[o]["delete"].rev = obj[o].rev)]
    IN
    /\ wk[w].pc = "cleared"
    /\ IF ~HoldsClaim(w) \/ (terminal <= now /\ o \in staged)
       THEN WorksOn(w, "error") /\ UNCHANGED ops
       ELSE /\ ops' = IF now < terminal THEN Replace(w, Deferred(w, terminal, FALSE))
                      ELSE [ops EXCEPT ![o]["delete_upload"] = Completed(w),
                                       ![o]["delete"] = unblocked]
            /\ Idles(w)
    /\ UNCHANGED <<now, rowVars, bucketVars, req, faults>>

\* mutant: the final deletion does not wait for the staging key
NoGate(o) == FALSE

\* defer_final_delete_for_staging_cleanup
StagingCleanupOpen(o) ==
    LET q == ops[o]["delete_upload"] IN
    q.done = {} /\ ((Open(q) /\ q.rev = obj[o].rev) \/ obj[o].rev \in q.failed)

BeginDelete(w) ==
    LET o == wk[w].obj IN
    /\ Takes(w, "delete") /\ ~Outdated(w)
    /\ CASE obj[o].status = "deleted" ->
                IF HoldsClaim(w) THEN ops' = Replace(w, Completed(w)) /\ Idles(w)
                ELSE UNCHANGED ops /\ WorksOn(w, "error")
         [] obj[o].status = "deleting" /\ StagingCleanupOpen(o) ->
                IF HoldsClaim(w) THEN ops' = Replace(w, Deferred(w, now, TRUE)) /\ Idles(w)
                ELSE UNCHANGED ops /\ WorksOn(w, "error")
         [] OTHER -> UNCHANGED ops /\ WorksOn(w, "erasing")
    /\ UNCHANGED <<now, rowVars, bucketVars, req, faults>>

EraseFinal(w) ==
    /\ wk[w].pc = "erasing"
    /\ final' = final \ {wk[w].obj}
    /\ WorksOn(w, "erased")
    /\ UNCHANGED <<now, rowVars, ops, staged, puts, req, faults>>

FinishDelete(w) ==
    LET o == wk[w].obj IN
    /\ wk[w].pc = "erased"
    /\ IF HoldsClaim(w)
       THEN /\ obj' = IF obj[o].status = "deleting"
                      THEN [obj EXCEPT ![o].status = "deleted", ![o].rev = @ + 1] ELSE obj
            /\ ops' = Replace(w, Completed(w)) /\ Idles(w)
       ELSE UNCHANGED <<obj, ops>> /\ WorksOn(w, "error")
    /\ UNCHANGED <<now, alive, icon, choice, bucketVars, req, faults>>

\* schedule_retry: after the last attempt the operation fails
ScheduleRetry(w) ==
    /\ wk[w].pc = "error"
    /\ ops' = IF ~HoldsClaim(w) THEN ops
              ELSE IF Mine(w).attempts >= MaxAttempts
              THEN Replace(w, [Closed(Mine(w)) EXCEPT !.failed = @ \cup {wk[w].rev}])
              ELSE Replace(w, [Mine(w) EXCEPT !.status = "pending", !.by = None, !.wait = TRUE])
    /\ Idles(w)
    /\ UNCHANGED <<now, rowVars, bucketVars, req, faults>>

\* recover_stale_claims, of a claim nobody works on
Abandoned(o, k) ==
    /\ ops[o][k].status = "claimed"
    /\ \A w \in Workers : ~(wk[w].pc # "idle" /\ wk[w].obj = o /\ wk[w].kind = k /\ HoldsClaim(w))

Unclaimed(q) == [q EXCEPT !.status = "pending", !.by = None, !.avail = now, !.wait = FALSE]

RecoverStaleClaim(o, k) ==
    /\ Abandoned(o, k)
    /\ ops' = [ops EXCEPT ![o][k] = Unclaimed(@)]
    /\ UNCHANGED <<now, rowVars, bucketVars, req, wk, faults>>

----------------------------------------------------------------------------
(* Browsers, time and faults.                                               *)

\* the signed request is accepted until the grant ends, whatever the row says
StartPut(o) ==
    /\ obj[o].status # "none" /\ now < obj[o].upExp /\ o \notin puts
    /\ puts' = puts \cup {o}
    /\ UNCHANGED <<now, rowVars, ops, staged, final, req, wk, faults>>

EndPut(o) ==
    /\ o \in puts
    /\ puts' = puts \ {o}
    /\ staged' \in {staged, staged \cup {o}}
    /\ UNCHANGED <<now, rowVars, ops, final, req, wk, faults>>

\* the proxy ends every upload within its maximum duration
Tick ==
    /\ now < MaxTime
    /\ \A o \in puts : now + 1 < obj[o].upExp + MaxUploadDuration
    /\ now' = now + 1
    /\ UNCHANGED <<rowVars, ops, bucketVars, req, wk, faults>>

WaitElapses(o, k) ==
    /\ ops[o][k].wait
    /\ ops' = [ops EXCEPT ![o][k].wait = FALSE]
    /\ UNCHANGED <<now, rowVars, bucketVars, req, wk, faults>>

Fault == faults < MaxFaults /\ faults' = faults + 1

\* a request dies, or the bucket reports an error: its transaction rolls back,
\* but the copy may have been made
RequestDies(r) ==
    /\ Fault
    /\ req[r].pc # "idle"
    /\ final' \in {final} \cup
          (IF req[r].pc = "promoting" /\ req[r].obj \in staged
           THEN {final \cup {req[r].obj}} ELSE {})
    /\ Ends(r)
    /\ UNCHANGED <<now, rowVars, ops, staged, puts, wk>>

\* the bucket reports an error for a DELETE that may have been carried out
DeleteFails(w) ==
    /\ Fault
    /\ wk[w].pc \in {"staging", "erasing"}
    /\ staged' \in {staged} \cup (IF wk[w].pc = "staging" THEN {staged \ {wk[w].obj}} ELSE {})
    /\ final' \in {final} \cup (IF wk[w].pc = "erasing" THEN {final \ {wk[w].obj}} ELSE {})
    /\ WorksOn(w, "error")
    /\ UNCHANGED <<now, rowVars, ops, puts, req>>

WorkerDies(w) ==
    /\ Fault
    /\ wk[w].pc # "idle"
    /\ Idles(w)
    /\ UNCHANGED <<now, rowVars, ops, bucketVars, req>>

\* a worker is so slow that another takes its claim for abandoned
ClaimGoesStale(o, k) ==
    /\ Fault
    /\ ops[o][k].status = "claimed" /\ ~Abandoned(o, k)
    /\ ops' = [ops EXCEPT ![o][k] = Unclaimed(@)]
    /\ UNCHANGED <<now, rowVars, bucketVars, req, wk>>

----------------------------------------------------------------------------

Completing(r) ==
    \/ OpenPromotion(r) \/ CopyToFinalKey(r)
    \/ PromotionRefused(r) \/ CommitPromotion(r) \/ FailUpload(r)

Working(w) ==
    \/ CancelOutdated(w) \/ ReconcileUpload(w)
    \/ BeginDeleteUpload(w) \/ ClearStaging(w) \/ FinishDeleteUpload(w)
    \/ BeginDelete(w) \/ EraseFinal(w) \/ FinishDelete(w)
    \/ ScheduleRetry(w)

Next ==
    \/ \E o \in Objects, t \in Targets : InitiateUpload(o, t)
    \/ \E r \in Requests : \/ \E o \in Objects : BeginCompletion(r, o)
                           \/ Completing(r) \/ RequestDies(r)
    \/ \E t \in IconTargets : DeleteCategoryIcon(t)
    \/ \E t \in Targets : DeleteTarget(t)
    \/ \E o \in Objects : DeleteObject(o) \/ StartPut(o) \/ EndPut(o)
    \/ \E o \in Objects, k \in Kinds :
          \/ EnqueueMissing(o, k) \/ RecoverStaleClaim(o, k)
          \/ WaitElapses(o, k) \/ ClaimGoesStale(o, k)
          \/ \E w \in Workers : ClaimOperation(w, o, k)
    \/ \E w \in Workers : Working(w) \/ DeleteFails(w) \/ WorkerDies(w)
    \/ Tick

Spec == Init /\ [][Next]_vars

\* Requests and workers go on, the queue is served oldest first, passes and
\* lease recoveries recur, uploads end, time passes.  Nobody has to delete or
\* complete anything.
Fairness ==
    /\ \A r \in Requests : WF_vars(Completing(r))
    /\ \A w \in Workers : WF_vars(Working(w))
    /\ \A o \in Objects, k \in Kinds :
          /\ SF_vars(\E w \in Workers : ClaimOperation(w, o, k))
          /\ SF_vars(EnqueueMissing(o, k))
          /\ WF_vars(RecoverStaleClaim(o, k)) /\ WF_vars(WaitElapses(o, k))
    /\ \A o \in Objects : WF_vars(EndPut(o))
    /\ WF_vars(Tick)

FairSpec == Spec /\ Fairness

----------------------------------------------------------------------------
(* Properties.                                                              *)

\* Types of the rows, the queue and what requests and workers have in hand.
TypeOK ==
    /\ now \in Nat
    /\ obj \in [Objects -> Row]
    /\ alive \subseteq Targets
    /\ icon \in [IconTargets -> Objects \cup {None}]
    /\ choice \in [IconTargets -> Nat]
    /\ ops \in [Objects -> [Kinds -> Queue]]
    /\ staged \subseteq Objects /\ final \subseteq Objects /\ puts \subseteq Objects
    /\ req \in [Requests -> Completion]
    /\ wk \in [Workers -> Job]
    /\ faults \in Nat

\* An object offered for download has its bytes under the final key: no cleanup
\* of an earlier revision, no second worker and no failed completion of the same
\* upload removes them (complete_upload, delete_object in storage.rs).
ReadyHasBytes == \A o \in Objects : obj[o].status = "ready" => o \in final

\* The icon of a category is always a ready object of that category, so the
\* database's own trigger never has to refuse a transaction of the API.
IconIsReady ==
    \A t \in IconTargets :
        icon[t] # None => obj[icon[t]].status = "ready" /\ obj[icon[t]].target = t

\* A row says deleted only when no bytes are left and no upload can bring any
\* back (README.md: no slow PUT recreates an orphaned staging body).
DeletedIsGone ==
    \A o \in Objects : obj[o].status = "deleted" => o \notin staged \cup final \cup puts

\* An upload prepared before the icon was last chosen or removed never becomes
\* the icon, even when the pointer has gone back to what it was (complete_upload
\* retires every older draft).
NewestChoiceWins ==
    [][\A t \in IconTargets :
          icon'[t] # icon[t] /\ icon'[t] # None => obj[icon'[t]].seen = choice[t]]_vars

\* In the end every object is ready, failed or deleted, and the bucket holds
\* exactly the final keys of the ready ones: nothing is left behind by crashes,
\* lost claims or late uploads.
Settles ==
    <>[](/\ \A o \in Objects : obj[o].status \in {"none", "ready", "failed", "deleted"}
         /\ staged = {}
         /\ final = {o \in Objects : obj[o].status = "ready"})
=============================================================================
