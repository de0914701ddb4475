---------------------------- MODULE UploadReview ----------------------------
(***************************************************************************)
(* The review of validated country uploads: the uploader sends uploads to  *)
(* review (ReadyToReview), a worker of the validation queue matches them   *)
(* against the previous revision (run_comparison_boundary), reviewers      *)
(* approve or reject them one by one (ApproveRevision, RejectRevision) or  *)
(* in a batch (BatchReviewAPI, process_batch_review), and the uploader may *)
(* delete the session meanwhile (DeleteUploadSession).                     *)
(*                                                                         *)
(* No request and no task runs in a transaction, so every step below is    *)
(* one statement (or one group of statements nothing else looks between)   *)
(* against the shared database, and a Django object held across steps is   *)
(* a copy that goes stale.  A copy is written back whole by save() and     *)
(* column by column by save(update_fields=...).                            *)
(*                                                                         *)
(* An operator X_Y states the code of X with the mistake Y: no             *)
(* specification uses it, it serves to show that a property can fail.      *)
(***************************************************************************)
EXTENDS Naturals, FiniteSets

CONSTANTS
    Upload,      \* EntityUploadStatus rows
    Session,     \* LayerUploadSession rows
    Country,     \* the approved, latest level 0 entities before any review
    Visit,       \* visits of a reviewer to the review page, one click each
    Batch,       \* batch reviews
    None,        \* a NULL foreign key
    SessionOf,   \* the upload_session of an upload
    OriginalOf,  \* its original_geographical_entity when the model starts
    Validated,   \* the uploads validation has finished for
    Lenient,     \* those with allowable errors only: importable, not Valid
    Cloned,      \* those whose level 0 entity was cloned from the original
    Historical,  \* the sessions with is_historical_upload
    Withdrawable,\* the sessions whose uploader may delete them
    Mortal,      \* the reviews whose worker process may be killed
    Rematching   \* the visits whose reviewer may rematch entities

Decider == Visit \cup Batch
Tree == Upload \cup Country   \* an upload names the tree of its revision

ASSUME ReviewAssumption ==
    /\ SessionOf \in [Upload -> Session]
    /\ OriginalOf \in [Upload -> Country \cup {None}]
    /\ Validated \subseteq Upload /\ Lenient \subseteq Validated
    /\ Cloned \subseteq Validated /\ \A u \in Cloned : OriginalOf[u] # None
    /\ Historical \subseteq Session /\ Withdrawable \subseteq Session
    /\ Mortal \subseteq Decider /\ Rematching \subseteq Visit
    /\ Upload \cap Country = {} /\ Visit \cap Batch = {}
    /\ Decider \cap Session = {} /\ None \notin Upload \cup Country

VARIABLES
    rows,      \* the uploads whose database row exists
    status,    \* EntityUploadStatus.status
    ready,     \* comparison_data_ready: "unset" (NULL), "false", "true"
    revised,   \* is revised_geographical_entity set (to the upload's tree)?
    original,  \* original_geographical_entity
    session,   \* LayerUploadSession.status, "Gone" once deleted
    trees,     \* the entity trees in the database, each named by its level 0
    latest,    \* those with is_latest at level 0
    approved,  \* those with is_approved
    submit,    \* the ReadyToReview request of each session
    withdraw,  \* the DeleteUploadSession request of each session
    match,     \* the run_comparison_boundary task of each upload
    notified,  \* sessions told that boundary matching has finished
    page,      \* the review page of each visit
    batch,     \* BatchReview rows
    job,       \* the approval or rejection each visit or batch is executing
    matched,   \* history: uploads boundary matching ran to its end for
    decisions, \* history: what was decided on each upload, and by whom
    dead,      \* the jobs whose worker process was killed
    rematch,   \* the ConfirmRematchBoundary request of each visit
    overwritten \* history: uploads whose row a rematch saved back with the
               \* status it had before somebody changed it

rowVars == <<rows, status, ready, revised, original>>
entityVars == <<trees, latest, approved>>
requestVars == <<submit, withdraw>>
matchVars == <<match, notified, matched>>
reviewVars == <<page, batch, job, decisions, dead>>
rematchVars == <<rematch, overwritten>>
vars == <<rowVars, session, entityVars, requestVars, matchVars, reviewVars,
          rematchVars>>

-----------------------------------------------------------------------------
(* Values                                                                  *)

UploadStatus == {"", "Valid", "Error", "Reviewing", "Processing_Approval",
                 "Approved", "Rejected"}
SessionStatus == {"Pending", "Reviewing", "Done", "Gone"}
ReadOnly == {"Reviewing", "Done"}              \* is_read_only
Deletable == {"Pending", "Reviewing"}          \* DeleteUploadSession.STATUSES
DisabledStatus == {"Approved", "Processing_Approval"} \* DISABLED_STATUS_LIST

SubmitPc == {"idle", "checked", "marked", "dispatched", "cleanup", "done"}
WithdrawPc == {"idle", "checked", "emptied", "done"}
MatchPc == {"none", "queued", "read", "started", "versioned", "saved",
            "done", "failed"}
PagePc == {"closed", "open", "blocked", "requested", "answered"}
JobPc == {"idle", "queued", "supersede", "repoint", "publish", "save",
          "close", "finish", "reject", "rejectClose", "rejectDelete",
          "done", "failed"}

\* What a task or request keeps of the row it read
Copy == [revised : BOOLEAN, original : Tree \cup {None}]

NoRematch == [upload |-> None, status |-> "",
              copy |-> [revised |-> FALSE, original |-> None]]

UploadsOf(s) == {u \in Upload : SessionOf[u] = s}

Importable(u) == status[u] = "Valid" \/ u \in Lenient

\* PendingBatchReviewUploads: the uploads of unfinished batches
PendingUploads ==
    UNION {batch[b].items : b \in {c \in Batch :
                                     batch[c].status \in {"Pending", "Processing"}}}

-----------------------------------------------------------------------------
(* Database operations                                                     *)

RowCopy(u) == [revised |-> revised[u], original |-> original[u]]

\* save() of a copy succeeds: the row is there or can be inserted again, and
\* the foreign keys it writes point at rows that exist.
CanSave(u, copy) ==
    /\ u \in rows \/ session[SessionOf[u]] # "Gone"
    /\ copy.revised => u \in trees
    /\ copy.original # None => copy.original \in trees

\* save(): every column of the copy is written back.
SaveRow(u, copy, newStatus, newReady) ==
    /\ rows' = rows \cup {u}
    /\ status' = [status EXCEPT ![u] = newStatus]
    /\ ready' = [ready EXCEPT ![u] = newReady]
    /\ revised' = [revised EXCEPT ![u] = copy.revised]
    /\ original' = [original EXCEPT ![u] = copy.original]

\* Deleting trees: SET_NULL on revised_geographical_entity, CASCADE on
\* original_geographical_entity.
DeleteTrees_CascadeOnRevised(T) ==
    /\ trees' = trees \ T
    /\ latest' = latest \ T
    /\ approved' = approved \ T
    /\ revised' = [u \in Upload |-> revised[u] /\ u \notin T]
    /\ rows' = {u \in rows \ T : original[u] \notin T}

DeleteTrees(T) ==
    /\ trees' = trees \ T
    /\ latest' = latest \ T
    /\ approved' = approved \ T
    /\ revised' = [u \in Upload |-> revised[u] /\ u \notin T]
    /\ rows' = {u \in rows : original[u] \notin T}

-----------------------------------------------------------------------------
Init ==
    /\ rows = Upload
    /\ status = [u \in Upload |-> IF u \in Lenient THEN "Error"
                                  ELSE IF u \in Validated THEN "Valid" ELSE ""]
    /\ ready = [u \in Upload |-> "unset"]
    /\ revised = [u \in Upload |-> u \in Validated]
    /\ original = OriginalOf
    /\ session = [s \in Session |-> "Pending"]
    /\ trees = Country \cup Validated
    /\ latest = Country \cup Cloned  \* a clone keeps is_latest of its original
    /\ approved = Country
    /\ submit = [s \in Session |-> [pc |-> "idle", selected |-> {}]]
    /\ withdraw = [s \in Session |-> "idle"]
    /\ match = [u \in Upload |-> [pc |-> "none", status |-> "",
                                  copy |-> RowCopy(u)]]
    /\ notified = {}
    /\ page = [v \in Visit |-> "closed"]
    /\ batch = [b \in Batch |-> [status |-> "none", approve |-> FALSE,
                                 items |-> {}, todo |-> {}]]
    /\ job = [d \in Decider |->
                [pc |-> "idle", upload |-> None, ready |-> "unset",
                 copy |-> [revised |-> FALSE, original |-> None]]]
    /\ matched = {}
    /\ decisions = [u \in Upload |-> {}]
    /\ dead = {}
    /\ rematch = [v \in Visit |-> NoRematch]
    /\ overwritten = {}

-----------------------------------------------------------------------------
(* ReadyToReview                                                           *)

\* The session is not read only, every selected upload can be imported and
\* its country is not under review in another session.
ReviewAllowed(s, U) ==
    /\ session[s] \notin ReadOnly
    /\ \A u \in U :
         /\ Importable(u)
         /\ original[u] # None =>
              ~ \E w \in rows \ UploadsOf(s) :
                  original[w] = original[u] /\ status[w] = "Reviewing"

CheckReady(s, U) ==
    /\ submit[s].pc = "idle"
    /\ U # {} /\ U \subseteq rows \cap UploadsOf(s)
    /\ ReviewAllowed(s, U)
    /\ submit' = [submit EXCEPT ![s] = [pc |-> "checked", selected |-> U]]
    /\ UNCHANGED <<rowVars, session, entityVars, withdraw, matchVars,
                   reviewVars, rematchVars>>

MarkReviewing(s) ==
    /\ submit[s].pc = "checked"
    /\ status' = [u \in Upload |-> IF u \in submit[s].selected \cap rows
                                   THEN "Reviewing" ELSE status[u]]
    /\ submit' = [submit EXCEPT ![s].pc = "marked"]
    /\ UNCHANGED <<rows, ready, revised, original, session, entityVars,
                   withdraw, matchVars, reviewVars, rematchVars>>

DispatchMatching_RevisionsOnly(s) ==
    /\ submit[s].pc = "marked"
    /\ match' = [u \in Upload |->
                    IF u \in submit[s].selected \cap rows /\ original[u] # None
                    THEN [match[u] EXCEPT !.pc = "queued"] ELSE match[u]]
    /\ submit' = [submit EXCEPT ![s].pc = "dispatched"]
    /\ UNCHANGED <<rowVars, session, entityVars, withdraw, notified, matched,
                   reviewVars, rematchVars>>

DispatchMatching(s) ==
    /\ submit[s].pc = "marked"
    /\ match' = [u \in Upload |-> IF u \in submit[s].selected \cap rows
                                  THEN [match[u] EXCEPT !.pc = "queued"]
                                  ELSE match[u]]
    /\ submit' = [submit EXCEPT ![s].pc = "dispatched"]
    /\ UNCHANGED <<rowVars, session, entityVars, withdraw, notified, matched,
                   reviewVars, rematchVars>>

SetSessionReviewing(s) ==
    /\ submit[s].pc = "dispatched"
    /\ session' = [session EXCEPT ![s] = IF @ = "Gone" THEN @ ELSE "Reviewing"]
    /\ submit' = [submit EXCEPT ![s].pc = "cleanup"]
    /\ UNCHANGED <<rowVars, entityVars, withdraw, matchVars, reviewVars,
                   rematchVars>>

DropNonSelected_DropAll(s) ==
    /\ submit[s].pc = "cleanup"
    /\ DeleteTrees({u \in rows \cap UploadsOf(s) : revised[u]})
    /\ submit' = [submit EXCEPT ![s].pc = "done"]
    /\ UNCHANGED <<status, ready, original, session, withdraw, matchVars,
                   reviewVars, rematchVars>>

\* The revisions of the uploads that were not selected are dropped.
DropNonSelected(s) ==
    /\ submit[s].pc = "cleanup"
    /\ DeleteTrees({u \in (rows \cap UploadsOf(s)) \ submit[s].selected :
                        revised[u]})
    /\ submit' = [submit EXCEPT ![s].pc = "done"]
    /\ UNCHANGED <<status, ready, original, session, withdraw, matchVars,
                   reviewVars, rematchVars>>

-----------------------------------------------------------------------------
(* run_comparison_boundary, a worker of the validation queue               *)

\* The task goes on, or dies of an exception.
MatchGoesTo(u, ok, pc) ==
    match' = [match EXCEPT ![u].pc = IF ok THEN pc ELSE "failed"]

ReadForMatching(u) ==
    /\ match[u].pc = "queued"
    /\ match' = [match EXCEPT ![u] =
                   [pc |-> IF u \in rows THEN "read" ELSE "failed",
                    status |-> status[u], copy |-> RowCopy(u)]]
    /\ UNCHANGED <<rowVars, session, entityVars, requestVars, notified,
                   matched, reviewVars, rematchVars>>

\* A full save of the task's copy with the given readiness.
SaveMatching(u, ok, newReady, pc) ==
    /\ IF ok THEN SaveRow(u, match[u].copy, match[u].status, newReady)
             ELSE UNCHANGED rowVars
    /\ MatchGoesTo(u, ok, pc)
    /\ UNCHANGED <<session, entityVars, requestVars, notified, reviewVars,
                   rematchVars>>

StartMatching(u) ==
    /\ match[u].pc = "read"
    /\ SaveMatching(u, CanSave(u, match[u].copy), "false", "started")
    /\ UNCHANGED matched

\* check_entities needs the revised entity; it saves the copy again with the
\* code version of the upload.
SetCodeVersion(u) ==
    /\ match[u].pc = "started"
    /\ SaveMatching(u, match[u].copy.revised /\ CanSave(u, match[u].copy),
                    "false", "versioned")
    /\ UNCHANGED matched

\* The entities are compared and coded; a progress report updates one column
\* and fails when the row is gone.
FinishMatching(u) ==
    LET ok == u \in rows /\ CanSave(u, match[u].copy)
    IN  /\ match[u].pc = "versioned"
        /\ SaveMatching(u, ok, "true", "saved")
        /\ matched' = IF ok THEN matched \cup {u} ELSE matched

\* The uploader is told once no upload of the session is pending.
NotifyMatched(u) ==
    LET s == SessionOf[u]
        pending == {w \in rows \cap UploadsOf(s) :
                      status[w] = "Reviewing" /\ ready[w] = "false"}
    IN  /\ match[u].pc = "saved"
        /\ MatchGoesTo(u, TRUE, "done")
        /\ notified' = IF pending = {} THEN notified \cup {s} ELSE notified
        /\ UNCHANGED <<rowVars, session, entityVars, requestVars, matched,
                       reviewVars, rematchVars>>

-----------------------------------------------------------------------------
(* The review page and the requests sent from it                           *)

Decide(u, by, kind) ==
    decisions' = [decisions EXCEPT ![u] = @ \cup {[by |-> by, kind |-> kind]}]

\* The page is fetched with its buttons enabled; pendingReviews is not known
\* yet and starts empty.
OpenPage(v, u) ==
    /\ page[v] = "closed"
    /\ u \in rows /\ ready[u] = "true" /\ status[u] \notin DisabledStatus
    /\ page' = [page EXCEPT ![v] = "open"]
    /\ job' = [job EXCEPT ![v].upload = u]
    /\ UNCHANGED <<rowVars, session, entityVars, requestVars, matchVars, batch,
                   decisions, dead, rematchVars>>

\* fetchPendingReviews disables the buttons of an upload in a running batch.
FetchPendingReviews(v) ==
    /\ page[v] = "open"
    /\ job[v].upload \in PendingUploads
    /\ page' = [page EXCEPT ![v] = "blocked"]
    /\ UNCHANGED <<rowVars, session, entityVars, requestVars, matchVars, batch,
                   job, decisions, dead, rematchVars>>

\* ApproveRevision first hands the upload to the task queue ...
ClickApprove(v) ==
    LET u == job[v].upload
    IN  /\ page[v] = "open" /\ u \in rows
        /\ page' = [page EXCEPT ![v] = "requested"]
        /\ job' = [job EXCEPT ![v].pc = "queued"]
        /\ Decide(u, v, "approve")
        /\ UNCHANGED <<rowVars, session, entityVars, requestVars, matchVars,
                       batch, dead, rematchVars>>

\* ... and then marks it, which fails when the row is gone.
SaveProcessingApproval(v) ==
    /\ page[v] = "requested"
    /\ page' = [page EXCEPT ![v] = "answered"]
    /\ status' = [u \in Upload |-> IF u = job[v].upload /\ u \in rows
                                   THEN "Processing_Approval" ELSE status[u]]
    /\ UNCHANGED <<rows, ready, revised, original, session, entityVars,
                   requestVars, matchVars, batch, job, decisions, dead,
                   rematchVars>>

\* RejectRevision does its work in the request.
ClickReject(v) ==
    LET u == job[v].upload
    IN  /\ page[v] = "open" /\ u \in rows
        /\ page' = [page EXCEPT ![v] = "answered"]
        /\ job' = [job EXCEPT ![v] = [pc |-> "reject", upload |-> u,
                                      ready |-> ready[u],
                                      copy |-> RowCopy(u)]]
        /\ Decide(u, v, "reject")
        /\ UNCHANGED <<rowVars, session, entityVars, requestVars, matchVars,
                       batch, dead, rematchVars>>

-----------------------------------------------------------------------------
(* ConfirmRematchBoundary, sent from the page whatever batches are pending *)

\* The request reads the row of an upload whose comparisons still exist; the
\* comparison and the new summary take their time.
ReadForRematch(v) ==
    LET u == job[v].upload
    IN  /\ v \in Rematching
        /\ page[v] \in {"open", "blocked"} /\ rematch[v].upload = None
        /\ u \in rows \cap trees
        /\ rematch' = [rematch EXCEPT ![v] =
                         [upload |-> u, status |-> status[u],
                          copy |-> RowCopy(u)]]
        /\ UNCHANGED <<rowVars, session, entityVars, requestVars, matchVars,
                       reviewVars, overwritten>>

\* recalculate_summary needs the revision and the session of the copy, and
\* saves the copy whole, as ready.
SaveRematch(v) ==
    LET u == rematch[v].upload
        copy == rematch[v].copy
        ok == /\ copy.revised /\ session[SessionOf[u]] # "Gone"
              /\ CanSave(u, copy)
    IN  /\ u # None
        /\ IF ok THEN SaveRow(u, copy, rematch[v].status, "true")
                 ELSE UNCHANGED rowVars
        /\ rematch' = [rematch EXCEPT ![v] = NoRematch]
        /\ overwritten' = IF ok /\ status[u] # rematch[v].status
                          THEN overwritten \cup {u} ELSE overwritten
        /\ UNCHANGED <<session, entityVars, requestVars, matchVars,
                       reviewVars>>

-----------------------------------------------------------------------------
(* approve_revision and reject_revision, executed by a job                 *)

JobGoesTo(d, ok, pc) ==
    job' = [job EXCEPT ![d].pc = IF ok THEN pc ELSE "failed"]

JobEnd_OneUpload(d) == "done"

\* A batch goes on with its next upload, a visit is over.
JobEnd(d) == IF d \in Visit THEN "done" ELSE "idle"

\* An approval first codes the entities of the revision.
ApprovalStart(u) ==
    IF SessionOf[u] \in Historical \/ original[u] = None
    THEN "publish" ELSE "supersede"

\* review_approval reads the upload and its revised entity.
StartApproval(v) ==
    LET u == job[v].upload
    IN  /\ job[v].pc = "queued" /\ v \notin dead
        /\ job' = [job EXCEPT ![v] =
                     [pc |-> IF u \in rows /\ revised[u] THEN ApprovalStart(u)
                                                         ELSE "failed",
                      upload |-> u, ready |-> ready[u], copy |-> RowCopy(u)]]
        /\ UNCHANGED <<rowVars, session, entityVars, requestVars, matchVars,
                       page, batch, decisions, dead, rematchVars>>

Supersede_OnlyEnds(d) ==
    LET o == job[d].copy.original
    IN  /\ job[d].pc = "supersede" /\ d \notin dead
        /\ JobGoesTo(d, o \in trees, "repoint")
        /\ UNCHANGED <<rowVars, session, entityVars, requestVars, matchVars,
                       page, batch, decisions, dead, rematchVars>>

\* is_latest of the original revision is cleared.
Supersede(d) ==
    LET o == job[d].copy.original
    IN  /\ job[d].pc = "supersede" /\ d \notin dead
        /\ JobGoesTo(d, o \in trees, "repoint")
        /\ latest' = latest \ {o}
        /\ UNCHANGED <<rowVars, session, trees, approved, requestVars,
                       matchVars, page, batch, decisions, dead, rematchVars>>

\* Uploads of pending sessions that were not validated yet will revise the
\* new revision instead.
Repoint(d) ==
    LET u == job[d].upload
        waiting == {w \in rows \ {u} : /\ original[w] = job[d].copy.original
                                       /\ status[w] = ""
                                       /\ session[SessionOf[w]] = "Pending"}
        ok == waiting = {} \/ u \in trees
    IN  /\ job[d].pc = "repoint" /\ d \notin dead
        /\ JobGoesTo(d, ok, "publish")
        /\ original' = [w \in Upload |-> IF ok /\ w \in waiting THEN u
                                         ELSE original[w]]
        /\ UNCHANGED <<rows, status, ready, revised, session, entityVars,
                       requestVars, matchVars, page, batch, decisions, dead,
                       rematchVars>>

Publish_ApproveOnly(d) ==
    /\ job[d].pc = "publish" /\ d \notin dead
    /\ JobGoesTo(d, TRUE, "save")
    /\ approved' = approved \cup ({job[d].upload} \cap trees)
    /\ UNCHANGED <<rowVars, session, trees, latest, requestVars, matchVars,
                   page, batch, decisions, dead, rematchVars>>

\* The new revision is approved, and latest unless it is a historical one.
Publish(d) ==
    LET u == job[d].upload
        new == {u} \cap trees
    IN  /\ job[d].pc = "publish" /\ d \notin dead
        /\ JobGoesTo(d, TRUE, "save")
        /\ approved' = approved \cup new
        /\ latest' = IF SessionOf[u] \in Historical THEN latest
                     ELSE latest \cup new
        /\ UNCHANGED <<rowVars, session, trees, requestVars, matchVars, page,
                       batch, decisions, dead, rematchVars>>

\* The decided upload is saved whole from the copy the job read.
SaveDecision(d, from, newStatus, to) ==
    LET u == job[d].upload
        ok == CanSave(u, job[d].copy)
    IN  /\ job[d].pc = from /\ d \notin dead
        /\ IF ok THEN SaveRow(u, job[d].copy, newStatus, job[d].ready)
                 ELSE UNCHANGED rowVars
        /\ JobGoesTo(d, ok, to)
        /\ UNCHANGED <<session, entityVars, requestVars, matchVars, page,
                       batch, decisions, dead, rematchVars>>

SaveApproved(d) == SaveDecision(d, "save", "Approved", "close")
SaveRejected(d) == SaveDecision(d, "reject", "Rejected", "rejectClose")

\* The session is saved whole as Done, or inserted again if it was deleted.
CloseSession(d, from, to) ==
    /\ job[d].pc = from /\ d \notin dead
    /\ session' = [session EXCEPT ![SessionOf[job[d].upload]] = "Done"]
    /\ JobGoesTo(d, TRUE, to)
    /\ UNCHANGED <<rowVars, entityVars, requestVars, matchVars, page, batch,
                   decisions, dead, rematchVars>>

CloseApproved(d) == CloseSession(d, "close", "finish")
CloseRejected(d) == CloseSession(d, "rejectClose", "rejectDelete")

\* The entities of a rejected revision are deleted.  A request fetches the
\* revised entity only now, a batch has held it since it read the upload.
DeleteRejected(d) ==
    LET u == job[d].upload
        ok == job[d].copy.revised /\ (d \in Batch \/ u \in trees)
    IN  /\ job[d].pc = "rejectDelete" /\ d \notin dead
        /\ DeleteTrees(IF ok THEN {u} ELSE {})
        /\ JobGoesTo(d, ok, IF d \in Visit THEN "done" ELSE "finish")
        /\ UNCHANGED <<status, ready, original, session, requestVars,
                       matchVars, page, batch, decisions, dead, rematchVars>>

\* The row is read again to clear its task id.
FinishDecision(d) ==
    /\ job[d].pc = "finish" /\ d \notin dead
    /\ JobGoesTo(d, job[d].upload \in rows, JobEnd(d))
    /\ UNCHANGED <<rowVars, session, entityVars, requestVars, matchVars, page,
                   batch, decisions, dead, rematchVars>>

-----------------------------------------------------------------------------
(* BatchReviewAPI and process_batch_review                                 *)

\* The reviewer ticks uploads in the list of those under review or approved.
SubmitBatch(b, U, approve) ==
    /\ batch[b].status = "none" /\ U # {}
    /\ U \subseteq {u \in rows : status[u] \in {"Reviewing", "Approved"}}
    /\ batch' = [batch EXCEPT ![b] = [status |-> "Pending",
                                      approve |-> approve,
                                      items |-> U, todo |-> U]]
    /\ UNCHANGED <<rowVars, session, entityVars, requestVars, matchVars, page,
                   job, decisions, dead, rematchVars>>

StartBatch(b) ==
    /\ batch[b].status = "Pending" /\ b \notin dead
    /\ batch' = [batch EXCEPT ![b].status = "Processing"]
    /\ UNCHANGED <<rowVars, session, entityVars, requestVars, matchVars, page,
                   job, decisions, dead, rematchVars>>

Reviewable_Unmatched(u) == u \in rows /\ status[u] = "Reviewing"

\* An upload the batch may decide: under review and matched.
Reviewable(u) == u \in rows /\ status[u] = "Reviewing" /\ ready[u] = "true"

BatchItem(b, u) ==
    /\ batch[b].status = "Processing" /\ b \notin dead
    /\ job[b].pc = "idle" /\ u \in batch[b].todo
    /\ batch' = [batch EXCEPT ![b].todo = @ \ {u}]
    /\ IF Reviewable(u)
       THEN /\ job' = [job EXCEPT ![b] =
                 [pc |-> IF ~ batch[b].approve THEN "reject"
                         ELSE IF revised[u] THEN ApprovalStart(u)
                                            ELSE "failed",
                  upload |-> u, ready |-> ready[u], copy |-> RowCopy(u)]]
            /\ Decide(u, b, IF batch[b].approve THEN "approve" ELSE "reject")
       ELSE UNCHANGED <<job, decisions>>
    /\ UNCHANGED <<rowVars, session, entityVars, requestVars, matchVars, page,
                   dead, rematchVars>>

FinishBatch(b) ==
    /\ batch[b].status = "Processing" /\ b \notin dead
    /\ job[b].pc = "idle" /\ batch[b].todo = {}
    /\ batch' = [batch EXCEPT ![b].status = "Done"]
    /\ UNCHANGED <<rowVars, session, entityVars, requestVars, matchVars, page,
                   job, decisions, dead, rematchVars>>

-----------------------------------------------------------------------------
(* DeleteUploadSession, and the death of a worker                          *)

CheckDeletable(s) ==
    /\ s \in Withdrawable
    /\ withdraw[s] = "idle" /\ session[s] \in Deletable
    /\ withdraw' = [withdraw EXCEPT ![s] = "checked"]
    /\ decisions' = [u \in Upload |->
                       IF u \in UploadsOf(s)
                       THEN decisions[u] \cup {[by |-> s, kind |-> "withdraw"]}
                       ELSE decisions[u]]
    /\ UNCHANGED <<rowVars, session, entityVars, submit, matchVars, page,
                   batch, job, dead, rematchVars>>

\* Revised entities and the entities of the layer files are deleted ...
DeleteEntities(s) ==
    /\ withdraw[s] = "checked"
    /\ withdraw' = [withdraw EXCEPT ![s] = "emptied"]
    /\ DeleteTrees(UploadsOf(s))
    /\ UNCHANGED <<status, ready, original, session, submit, matchVars,
                   reviewVars, rematchVars>>

\* ... then the session, and its uploads by CASCADE.
DeleteSession(s) ==
    /\ withdraw[s] = "emptied"
    /\ withdraw' = [withdraw EXCEPT ![s] = "done"]
    /\ session' = [session EXCEPT ![s] = "Gone"]
    /\ rows' = rows \ UploadsOf(s)
    /\ UNCHANGED <<status, ready, revised, original, entityVars, submit,
                   matchVars, reviewVars, rematchVars>>

\* Tasks are acknowledged before they run, so a killed one is not run again.
WorkerDies(d) ==
    /\ d \in Mortal \ dead
    /\ job[d].pc \notin {"idle", "queued", "done", "failed"}
    /\ dead' = dead \cup {d}
    /\ UNCHANGED <<rowVars, session, entityVars, requestVars, matchVars, page,
                   batch, job, decisions, rematchVars>>

-----------------------------------------------------------------------------
(* Specification                                                           *)

SubmitStep(s) ==
    \/ MarkReviewing(s) \/ DispatchMatching(s)
    \/ SetSessionReviewing(s) \/ DropNonSelected(s)

MatchStep(u) ==
    \/ ReadForMatching(u) \/ StartMatching(u) \/ SetCodeVersion(u)
    \/ FinishMatching(u) \/ NotifyMatched(u)

JobStep(d) ==
    \/ Supersede(d) \/ Repoint(d) \/ Publish(d)
    \/ SaveApproved(d) \/ CloseApproved(d) \/ FinishDecision(d)
    \/ SaveRejected(d) \/ CloseRejected(d) \/ DeleteRejected(d)

BatchStep(b) ==
    StartBatch(b) \/ (\E u \in Upload : BatchItem(b, u)) \/ FinishBatch(b)

WithdrawStep(s) == DeleteEntities(s) \/ DeleteSession(s)

Next ==
    \/ \E s \in Session :
         \/ \E U \in SUBSET Upload : CheckReady(s, U)
         \/ SubmitStep(s)
         \/ CheckDeletable(s)
         \/ WithdrawStep(s)
    \/ \E u \in Upload : MatchStep(u)
    \/ \E v \in Visit :
         \/ \E u \in Upload : OpenPage(v, u)
         \/ FetchPendingReviews(v)
         \/ ClickApprove(v) \/ SaveProcessingApproval(v) \/ ClickReject(v)
         \/ StartApproval(v)
         \/ ReadForRematch(v) \/ SaveRematch(v)
    \/ \E b \in Batch :
         \/ \E U \in SUBSET Upload, approve \in BOOLEAN :
              SubmitBatch(b, U, approve)
         \/ BatchStep(b)
    \/ \E d \in Decider : JobStep(d) \/ WorkerDies(d)

Spec == Init /\ [][Next]_vars

\* Requests that were received and tasks that were queued are carried on;
\* nothing obliges a user to send, open or click anything.
Fairness ==
    /\ \A s \in Session : WF_vars(SubmitStep(s)) /\ WF_vars(WithdrawStep(s))
    /\ \A u \in Upload : WF_vars(MatchStep(u))
    /\ \A v \in Visit : /\ WF_vars(SaveProcessingApproval(v))
                        /\ WF_vars(StartApproval(v))
    /\ \A b \in Batch : WF_vars(BatchStep(b))
    /\ \A d \in Decider : WF_vars(JobStep(d))

FairSpec == Spec /\ Fairness

-----------------------------------------------------------------------------
(* Properties                                                              *)

JobState == [pc : JobPc, upload : Upload \cup {None},
             ready : {"unset", "false", "true"}, copy : Copy]

BatchState == [status : {"none", "Pending", "Processing", "Done"},
               approve : BOOLEAN, items : SUBSET Upload, todo : SUBSET Upload]

Rematch == [upload : Upload \cup {None}, status : UploadStatus, copy : Copy]

Decision == [by : Decider \cup Session, kind : {"approve", "reject", "withdraw"}]

RowTypes ==
    /\ rows \subseteq Upload
    /\ status \in [Upload -> UploadStatus]
    /\ ready \in [Upload -> {"unset", "false", "true"}]
    /\ revised \in [Upload -> BOOLEAN]
    /\ original \in [Upload -> Tree \cup {None}]

EntityTypes == trees \subseteq Tree /\ latest \subseteq trees /\ approved \subseteq trees

RequestTypes ==
    /\ submit \in [Session -> [pc : SubmitPc, selected : SUBSET Upload]]
    /\ withdraw \in [Session -> WithdrawPc]

MatchTypes ==
    /\ match \in [Upload -> [pc : MatchPc, status : UploadStatus, copy : Copy]]
    /\ notified \subseteq Session
    /\ matched \subseteq Upload

ReviewTypes ==
    /\ page \in [Visit -> PagePc]
    /\ batch \in [Batch -> BatchState]
    /\ job \in [Decider -> JobState]
    /\ decisions \in [Upload -> SUBSET Decision]
    /\ dead \subseteq Decider
    /\ \A v \in Visit : page[v] # "closed" => job[v].upload \in Upload
    /\ \A d \in Decider : job[d].pc # "idle" => job[d].upload \in Upload

RematchTypes == rematch \in [Visit -> Rematch] /\ overwritten \subseteq Upload

\* The foreign keys of the rows point at entity trees that exist.
References ==
    /\ \A u \in Upload : revised[u] => u \in trees
    /\ \A u \in rows : original[u] # None => original[u] \in trees

\* Every variable keeps its type, and the foreign keys and flags in the
\* database belong to entity trees that exist.
TypeOK ==
    /\ RowTypes /\ session \in [Session -> SessionStatus] /\ EntityTypes
    /\ RequestTypes /\ MatchTypes /\ ReviewTypes /\ RematchTypes
    /\ References

\* At most one decision was ever taken on the upload.
Sole(u) == \A x, y \in decisions[u] : x = y

\* A job is still executing a decision on the upload (or was killed in it).
InFlight(u) ==
    \E d \in Decider : /\ job[d].upload = u
                       /\ job[d].pc \notin {"idle", "done", "failed"}

\* What users of the data see as the current revision.
Published(t) == t \in latest \cap approved

Current(u) == SessionOf[u] \notin Historical

\* A decision nobody contradicts takes full effect once its job is over, and
\* such a job never fails: an approved revision is in the database, approved,
\* latest, and its row says so (or still says Processing_Approval); a rejected
\* revision is gone and its row says Rejected.  No stale copy written back by
\* the matching task, by a batch, by the session's other uploads or by a
\* rematch undoes it, with one exception: the status in the row is lost, and
\* nothing else, to a rematch that read the row before that status was set
\* and is saved after it.
DecisionStands ==
    \A u \in Upload : Sole(u) /\ ~ InFlight(u) =>
      \A x \in decisions[u] :
        /\ x.kind = "approve" =>
             /\ u \in rows \cap trees \cap approved
             /\ Current(u) => u \in latest
             /\ u \in overwritten
                  \/ status[u] \in {"Approved", "Processing_Approval"}
        /\ x.kind = "reject" =>
             /\ u \in rows /\ u \notin trees \cup approved
             /\ ~ revised[u]
             /\ u \in overwritten \/ status[u] = "Rejected"

\* No revision is approved before boundary matching ran to its end for it
\* (it gives the entities their codes): ApproveRevision itself does not check,
\* so this rests on the review page, on the batch and on every save() of a
\* stale comparison_data_ready.
ApprovedOnlyMatched == approved \cap Upload \subseteq matched

\* A revision is current only after the one it revises was retired, whatever
\* requests and tasks overlap: the two are never both current.
RetiredBeforeReplaced ==
    \A u \in Upload :
      Current(u) /\ Published(u) /\ OriginalOf[u] # None =>
        OriginalOf[u] \notin latest

\* The revision was left out when its session was sent to review.
LeftOut(u) ==
    submit[SessionOf[u]].pc # "idle" /\ u \notin submit[SessionOf[u]].selected

\* What was asked for a revision, and what became of it
Kinds(u) == {x.kind : x \in decisions[u]}
Asked(u) == Kinds(u) \cup (IF LeftOut(u) THEN {"leave out"} ELSE {})

LifeOf(t) ==
    CASE t \notin trees -> "gone"
      [] t \in trees \ approved -> "proposed"
      [] t \in trees \cap approved \cap latest -> "current"
      [] t \in (trees \cap approved) \ latest -> "retired"

Reviewed == {u \in Upload : Current(u)}

Promise == INSTANCE Publication WITH
    First <- Country, Later <- Reviewed, Present <- Reviewed \cap Validated,
    Revises <- [u \in Reviewed |-> OriginalOf[u]],
    asked <- [u \in Reviewed |-> Asked(u)],
    life <- [t \in Country \cup Reviewed |-> LifeOf(t)]

\* For readers of the data the review is as simple as Publication: whatever
\* requests, tasks and deaths overlap, every step retires a revision for one
\* that is to be approved, lets one appear whose place is free, removes what
\* was rejected, withdrawn or left out, or changes nothing they see.
Publishes == Promise!Spec

\* A country is without a current revision only between the two updates of
\* an approval that is executing (or was killed there), or when one revision
\* was decided on twice.
GapOnlyInApproval ==
    \A c \in Country : c \notin latest =>
      \E u \in Upload :
        /\ OriginalOf[u] = c /\ Current(u)
        /\ \/ Published(u)
           \/ ~ Sole(u)
           \/ \E d \in Decider : job[d].upload = u
                                 /\ job[d].pc \in {"repoint", "publish"}

\* A row disappears only with its session, or because its upload was
\* repointed to a revision that was decided on twice.
RowLossExplained ==
    [][\A u \in rows \ rows' :
         \/ \E x \in decisions[u] : x.kind = "withdraw"
         \/ original[u] \in Upload /\ ~ Sole(original[u])]_rows

\* Entities of an upload are deleted only by a rejection or withdrawal of
\* that upload, or because it was left out of the review.
DeletionExplained ==
    [][\A u \in trees \ trees' :
         /\ u \in Upload
         /\ \/ \E x \in decisions[u] : x.kind \in {"reject", "withdraw"}
            \/ /\ submit[SessionOf[u]].pc = "cleanup"
               /\ u \notin submit[SessionOf[u]].selected]_trees

\* An upload sent to review becomes ready for the reviewer, unless somebody
\* decides on it before.
EventuallyPrepared ==
    \A u \in Upload :
      submit[SessionOf[u]].pc = "marked" /\ u \in submit[SessionOf[u]].selected
        ~> (ready[u] = "true" \/ decisions[u] # {})

\* A batch that was submitted is finished, unless its worker is killed or
\* one of its uploads is decided on by somebody else as well.
BatchFinishes ==
    \A b \in Batch :
      batch[b].status = "Pending"
        ~> \/ batch[b].status = "Done" \/ b \in dead
           \/ \E u \in batch[b].items : ~ Sole(u)

-----------------------------------------------------------------------------
(* Why the safety properties hold: their inductive strengthenings          *)

\* An upload that is shown as ready, that a reviewer has before them or
\* rematches or that a job decides on was matched to the end, and so was every
\* approved one: no stale comparison_data_ready gets into a row, a page or a
\* job.
ReadinessInv ==
    /\ \A u \in Upload : ready[u] = "true" => u \in matched
    /\ \A v \in Visit : page[v] # "closed" => job[v].upload \in matched
    /\ \A d \in Decider : job[d].pc # "idle" => job[d].upload \in matched
    /\ \A v \in Visit : rematch[v].upload \in matched \cup {None}
    /\ ApprovedOnlyMatched

\* No save of a stale copy and no repointing changes what a validated upload
\* revises, in its row, in its matching task or in a job; and no other upload
\* gets anywhere.
OriginalKept ==
    /\ \A u \in Validated :
         /\ original[u] = OriginalOf[u] /\ status[u] # ""
         /\ match[u].copy.original = OriginalOf[u]
         /\ match[u].pc \notin {"none", "queued"} => match[u].status # ""
    /\ \A u \in Upload \ Validated :
         status[u] = "" /\ match[u].pc = "none" /\ u \notin matched
    /\ \A s \in Session : submit[s].selected \subseteq Validated
    /\ \A d \in Decider :
         job[d].pc \notin {"idle", "queued"} =>
           job[d].copy.original = OriginalOf[job[d].upload]
    /\ \A v \in Visit : page[v] = "closed" => job[v].pc = "idle"

\* Nor does the copy a rematch holds, of an upload that is validated.
RematchKept ==
    \A v \in Visit : LET u == rematch[v].upload IN
      u # None => /\ u \in Validated /\ rematch[v].status # ""
                  /\ rematch[v].copy.original = OriginalOf[u]

\* From the moment an approval has retired the revised revision, the retired
\* one is not current again.
RetirementInv ==
    /\ OriginalKept
    /\ \A d \in Decider : LET u == job[d].upload IN
         job[d].pc \in {"repoint", "publish"} /\ Current(u) /\ OriginalOf[u] # None
           => OriginalOf[u] \notin latest
    /\ \A u \in approved \cap Upload :
         Current(u) /\ OriginalOf[u] # None => OriginalOf[u] \notin latest

-----------------------------------------------------------------------------
(* What comments and documents of the code say, and the code does not do   *)

\* modules/admin_boundaries/review.py:61 "change status to APPROVED": an
\* approval nobody contradicts ends, for good, with the status the reviewer's
\* page polls for.
ApprovalShown ==
    \A v \in Visit, u \in Upload :
      page[v] = "requested" /\ job[v].upload = u
        ~> [](status[u] = "Approved" \/ ~ Sole(u))

\* modules/admin_boundaries/review.py:76 "Set is_latest to false for all old
\* entities": one revision of a country is latest after an approval.
OneLatestPerCountry ==
    \A u, w \in Upload :
      /\ u # w /\ OriginalOf[u] = OriginalOf[w] /\ OriginalOf[u] # None
      /\ Current(u) /\ Current(w)
      => ~ (Published(u) /\ Published(w))
=============================================================================
