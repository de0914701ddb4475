---------------------------- MODULE UploadSession ----------------------------
(***************************************************************************)
(* One upload session before its review: the uploader has it preprocessed  *)
(* (one upload is created for each country of the files), validated,       *)
(* reset, canceled, validated again, and at last sent to review.  Requests *)
(* run in web workers, preprocessing and validation in task workers; a     *)
(* request stops a task by revoking the id it finds in the database.       *)
(*                                                                         *)
(* Every step is one statement, or a group of statements nothing else      *)
(* looks between; a copy kept across steps goes stale, as in UploadReview. *)
(*                                                                         *)
(* An operator X_Y states the code of X with the mistake Y: no             *)
(* specification uses it, it serves to show that a property can fail.      *)
(***************************************************************************)
EXTENDS Naturals, FiniteSets

CONSTANTS
    Country,     \* countries
    LastRequest, \* bound: ids of requests are 1 .. LastRequest
    LastRow,     \* bound: ids of EntityUploadStatus rows are 1 .. LastRow
    LastTask,    \* bound: ids of tasks are 1 .. LastTask
    None,        \* NULL, or an empty task id
    Setting      \* the circumstances a behaviour may have

Request == 1 .. LastRequest
RowId == 1 .. LastRow
TaskId == 1 .. LastTask

\* The revision of a country that a validation makes: a clone of the published
\* country, or what it reads from a file of level 0
Clone(t) == <<t, "clone">>
Filed(t) == <<t, "file">>
Revision == TaskId \X {"clone", "file"}

UnluckyTiming == {"concurrent", "askTwice", "earlyPickup", "lateKill"}

Circumstances ==
    [timing : SUBSET UnluckyTiming,  \* what may happen, see below
     mortal : BOOLEAN,               \* or a worker die
     requests : Request,             \* bound: how many are sent
     files : SUBSET Country \ {{}},  \* the countries the files match
     level0 : BOOLEAN,               \* a file has their level 0,
     new : SUBSET Country,           \* of some that were never published,
     degenerate : SUBSET Country,    \* or with a geometry that is not stored
     unreadable : BOOLEAN]           \* a geometry that stops preprocessing

ASSUME SessionAssumption ==
    /\ LastRequest \in Nat /\ LastRow \in Nat /\ LastTask \in Nat
    /\ None \notin Nat \cup Country \cup Revision
    /\ Setting \subseteq Circumstances
    /\ \A s \in Setting : ~ s.level0 => s.new = {} /\ s.degenerate = {}

VARIABLES
    setting,   \* the circumstances of this behaviour
    session,   \* LayerUploadSession: status, auto_matched_parent_ready, task_id
    rows,      \* the EntityUploadStatus rows that exist
    upload,    \* their columns: status, revised_geographical_entity, task_id
    country,   \* the original_geographical_entity of a row id, None if unused
    trees,     \* the revisions in the database
    published, \* those that are is_approved, as the entity they were cloned from
    task,      \* the tasks that were queued
    revoked,   \* the ids that were revoked
    request,   \* the requests of the browser
    met        \* history: the unlucky timings this behaviour has met

rowVars == <<rows, upload, country>>
treeVars == <<trees, published>>
vars == <<session, rowVars, treeVars, task, revoked, request>>

\* Four timings that the code does not exclude:
Concurrent == "concurrent" \in setting.timing   \* a request before the last answer
AskTwice == "askTwice" \in setting.timing       \* preprocessing, while it is queued
EarlyPickup == "earlyPickup" \in setting.timing \* a task starts before its id is saved
LateKill == "lateKill" \in setting.timing       \* a revoked task takes further steps

-----------------------------------------------------------------------------
(* Values                                                                  *)

SessionStatus == {"Pending", "PreProcessing", "Reviewing", "Canceled"}
ReadOnly == {"Reviewing", "Canceled"}          \* is_read_only
UploadStatus == {"", "Started", "Processing", "Valid", "Error", "Reviewing"}

\* The columns of a row after a reset, and of a new one
Blank == [status |-> "", revised |-> None, task |-> None]
NoCopies == [r \in RowId |-> Blank]

NoTask == [kind |-> "none", pc |-> "none", row |-> None, todo |-> {},
           seen |-> {}, copy |-> NoCopies]
Unsent == [pc |-> "unsent", todo |-> {}, kept |-> {}, copy |-> NoCopies,
           row |-> None, task |-> None, back |-> FALSE, cancel |-> FALSE]
Answered == [Unsent EXCEPT !.pc = "done"]

RowsOf(c) == {r \in rows : country[r] = c}

\* is_in_progress, and the uploads with a result that Reset and Validate test
InProgress ==
    \/ session.status = "PreProcessing"
    \/ \E r \in rows : upload[r].status \in {"Started", "Processing"}
HasResult == \E r \in rows : upload[r].status # ""

\* "broken": preprocessing raised, or its worker died
Ended == {"none", "done", "failed", "broken"}

Waiting(q) == request[q].pc \notin {"unsent", "done"}

\* The id of the task is not saved yet.
IdUnsaved(t) ==
    \E q \in Request :
      request[q].pc \in {"savePreprocess", "saveValidate"} /\ request[q].task = t

\* The task can take a step: a worker has it and did not kill it.
Runnable(t) ==
    /\ task[t].pc \notin Ended
    /\ t \in revoked => LateKill
    /\ IdUnsaved(t) => EarlyPickup

PreprocessingAsked == \E t \in TaskId : Runnable(t) /\ task[t].kind = "preprocess"

\* The upload is a country that has no published entity.
IsNew(r) == country[r] \in setting.new

\* Ids are given out in order.
FreshTask(t) == task[t].kind = "none" /\ \A i \in 1 .. (t - 1) : task[i].kind # "none"
FreshRow(r) == country[r] = None /\ \A i \in 1 .. (r - 1) : country[i] # None

-----------------------------------------------------------------------------
(* Database operations                                                     *)

\* save() of a copy: every column is written, a deleted row comes back.
SaveRow(r, columns) ==
    /\ rows' = rows \cup {r}
    /\ upload' = [upload EXCEPT ![r] = columns]

\* The reference is left alone when its revision is deleted.
Unrevised_Dangling(T) == upload

\* Deleting entities sets revised_geographical_entity to NULL.
Unrevised(T) ==
    [r \in RowId |-> IF upload[r].revised \in T
                     THEN [upload[r] EXCEPT !.revised = None] ELSE upload[r]]

DeleteTrees(T) ==
    /\ trees' = trees \ T
    /\ published' = published \ T
    /\ upload' = Unrevised(T)

\* The entity a copy refers to can be fetched.
Fetchable(columns) == columns.revised = None \/ columns.revised \in trees

Queue(t, kind, r) ==
    task' = [task EXCEPT ![t] = [NoTask EXCEPT !.kind = kind, !.pc = "queued",
                                               !.row = r]]

Revoke(i) == revoked' = revoked \cup ({i} \ {None})

-----------------------------------------------------------------------------
(* The browser                                                             *)

\* A page waits for the answer before it offers the next request.
MaySend(q) ==
    /\ q <= setting.requests /\ request[q].pc = "unsent"
    /\ \A p \in 1 .. (q - 1) : request[p].pc # "unsent"
    /\ (\E p \in Request : Waiting(p)) => Concurrent
    /\ session.status \notin ReadOnly

\* LayerUploadPreprocess reads the session and its task id.
SendPreprocess(q) ==
    /\ MaySend(q)
    /\ ~ session.ready /\ ~ InProgress
    /\ PreprocessingAsked => AskTwice
    /\ request' = [request EXCEPT ![q].pc = "queue", ![q].task = session.task]
    /\ UNCHANGED <<session, rowVars, treeVars, task, revoked>>

\* ValidateUploadSession for the countries selected on the page, which lists
\* them once preprocessing is over.
SendValidate(q, C) ==
    /\ MaySend(q)
    /\ session.ready /\ ~ HasResult
    /\ C # {}
    /\ request' = [request EXCEPT ![q].pc = "start", ![q].todo = C]
    /\ UNCHANGED <<session, rowVars, treeVars, task, revoked>>

\* ResetUploadSession reads the session and its uploads; "back" is a step
\* before 3, "cancel" the Cancel Upload button.
SendReset(q, back, cancel) ==
    /\ MaySend(q)
    /\ request' = [request EXCEPT ![q] =
         [Unsent EXCEPT !.pc = IF HasResult THEN "reset" ELSE "stop",
                        !.todo = IF HasResult THEN rows ELSE {},
                        !.copy = IF HasResult THEN upload ELSE NoCopies,
                        !.task = session.task,
                        !.back = back \/ ~ HasResult, !.cancel = cancel]]
    /\ UNCHANGED <<session, rowVars, treeVars, task, revoked>>

\* is_validation_result_importable: without an error, or with errors that may
\* be imported, by anybody or by a superuser; that a new country is not in the
\* file is no such error.
Importable(r) ==
    \/ upload[r].status = "Valid"
    \/ upload[r].status = "Error" /\ ~ (IsNew(r) /\ upload[r].revised = None)

\* ReadyToReview for importable uploads, selected when none is in progress; the
\* entities of the other uploads are deleted.  UploadReview has it in detail.
SendToReview(q, U) ==
    /\ MaySend(q)
    /\ U # {} /\ U \subseteq {r \in rows : Importable(r)}
    /\ \A r \in rows : upload[r].status \notin {"Started", "Processing"}
    /\ request' = [request EXCEPT ![q] = Answered]
    /\ session' = [session EXCEPT !.status = "Reviewing"]
    /\ LET T == {upload[r].revised : r \in rows \ U} \ {None}
       IN  /\ trees' = trees \ T
           /\ published' = published \ T
           /\ upload' = [r \in RowId |-> IF r \in U
                                         THEN [upload[r] EXCEPT !.status = "Reviewing"]
                                         ELSE Unrevised(T)[r]]
    /\ UNCHANGED <<rows, country, task, revoked>>

-----------------------------------------------------------------------------
(* LayerUploadPreprocess                                                   *)

\* The task of the session is revoked and a new one queued ...
QueuePreprocess(q, t) ==
    /\ request[q].pc = "queue" /\ FreshTask(t)
    /\ Revoke(request[q].task)
    /\ Queue(t, "preprocess", None)
    /\ request' = [request EXCEPT ![q].pc = "savePreprocess", ![q].task = t]
    /\ UNCHANGED <<session, rowVars, treeVars>>

\* ... then its id is saved.
SavePreprocessTask(q) ==
    /\ request[q].pc = "savePreprocess"
    /\ session' = [session EXCEPT !.task = request[q].task]
    /\ request' = [request EXCEPT ![q] = Answered]
    /\ UNCHANGED <<rowVars, treeVars, task, revoked>>

-----------------------------------------------------------------------------
(* ValidateUploadSession                                                   *)

\* A selected country: its upload is updated or created, the task it had is
\* revoked and a new one queued.
StartValidation(q, c, r, t) ==
    /\ request[q].pc = "start" /\ c \in request[q].todo
    /\ FreshTask(t)
    /\ RowsOf(c) = {r} \/ (RowsOf(c) = {} /\ FreshRow(r))
    /\ rows' = rows \cup {r}
    /\ country' = [country EXCEPT ![r] = c]
    /\ upload' = [upload EXCEPT ![r].status = "Started"]
    /\ Revoke(upload[r].task)
    /\ Queue(t, "validate", r)
    /\ request' = [request EXCEPT ![q].pc = "saveValidate", ![q].todo = @ \ {c},
                                  ![q].kept = @ \cup {r}, ![q].row = r,
                                  ![q].task = t]
    /\ UNCHANGED <<session, treeVars>>

\* update_or_create refuses a country with two uploads.
StartFails(q, c) ==
    /\ request[q].pc = "start" /\ c \in request[q].todo
    /\ Cardinality(RowsOf(c)) > 1
    /\ request' = [request EXCEPT ![q] = Answered]
    /\ UNCHANGED <<session, rowVars, treeVars, task, revoked>>

\* save(update_fields=['task_id']) fails when the row is gone.
SaveValidateTask(q) ==
    LET r == request[q].row
    IN  /\ request[q].pc = "saveValidate"
        /\ IF r \in rows
           THEN /\ upload' = [upload EXCEPT ![r].task = request[q].task]
                /\ request' = [request EXCEPT
                     ![q].pc = IF request[q].todo = {} THEN "others" ELSE "start",
                     ![q].row = None, ![q].task = None]
           ELSE request' = [request EXCEPT ![q] = Answered] /\ UNCHANGED upload
        /\ UNCHANGED <<session, rows, country, treeVars, task, revoked>>

\* The uploads of the countries left out are read, ...
ReadOthers(q) ==
    LET others == rows \ request[q].kept
    IN  /\ request[q].pc = "others"
        /\ request' = [request EXCEPT ![q] =
             IF others = {} THEN Answered
             ELSE [Unsent EXCEPT !.pc = "clear", !.todo = others, !.copy = upload]]
        /\ UNCHANGED <<session, rowVars, treeVars, task, revoked>>

\* The loop over the copies goes on, or ends in the given state.
NextUpload(q, r, after) ==
    [request EXCEPT ![q] =
       IF request[q].todo # {r} THEN [request[q] EXCEPT !.todo = @ \ {r}] ELSE after]

\* The task of the upload goes on.
ClearUpload_NoRevoke(q, r, after) ==
    LET copy == request[q].copy[r]
    IN  /\ r \in request[q].todo /\ Fetchable(copy)
        /\ SaveRow(r, Blank)
        /\ trees' = trees \ {copy.revised} /\ published' = published \ {copy.revised}
        /\ request' = NextUpload(q, r, after)
        /\ UNCHANGED <<session, country, task, revoked>>

\* The revision is deleted, the verdict on it stays.
ClearUpload_KeepVerdict(q, r, after) ==
    LET copy == request[q].copy[r]
    IN  /\ r \in request[q].todo /\ Fetchable(copy)
        /\ Revoke(copy.task)
        /\ SaveRow(r, [Blank EXCEPT !.status = copy.status])
        /\ trees' = trees \ {copy.revised} /\ published' = published \ {copy.revised}
        /\ request' = NextUpload(q, r, after)
        /\ UNCHANGED <<session, country, task>>

\* One turn of the loop that clears uploads: the task of the copy is revoked,
\* its revision deleted, and the row saved whole.
ClearUpload(q, r, after) ==
    LET copy == request[q].copy[r]
    IN  /\ r \in request[q].todo
        /\ Fetchable(copy)
        /\ Revoke(copy.task)
        /\ rows' = rows \cup {r}
        /\ trees' = trees \ {copy.revised}
        /\ published' = published \ {copy.revised}
        /\ upload' = [Unrevised({copy.revised} \ {None}) EXCEPT ![r] = Blank]
        /\ request' = NextUpload(q, r, after)
        /\ UNCHANGED <<session, country, task>>

\* ... and cleared.
ClearOther(q, r) == request[q].pc = "clear" /\ ClearUpload(q, r, Answered)

-----------------------------------------------------------------------------
(* ResetUploadSession                                                      *)

\* What follows the reset of the uploads, and of the preprocessing
AfterReset(q) ==
    IF request[q].back THEN [request[q] EXCEPT !.pc = "stop", !.copy = NoCopies,
                                              !.todo = {}]
    ELSE IF request[q].cancel THEN [Unsent EXCEPT !.pc = "cancel"]
    ELSE Answered

\* reset_qc_validation
ResetUpload(q, r) == request[q].pc = "reset" /\ ClearUpload(q, r, AfterReset(q))

\* A revision that is gone already ends either loop with an error.
LoopFails(q, r) ==
    /\ request[q].pc \in {"clear", "reset"} /\ r \in request[q].todo
    /\ ~ Fetchable(request[q].copy[r])
    /\ request' = [request EXCEPT ![q] = Answered]
    /\ UNCHANGED <<session, rowVars, treeVars, task, revoked>>

\* Preprocessing goes on.
StopPreprocessing_NoRevoke(q) ==
    /\ request[q].pc = "stop"
    /\ DeleteTrees({upload[r].revised : r \in rows} \ {None})
    /\ request' = [request EXCEPT ![q].pc = "delete", ![q].task = None]
    /\ UNCHANGED <<session, rows, country, task, revoked>>

\* reset_preprocessing: the task of the session is revoked and the revisions
\* of its uploads are deleted, ...
StopPreprocessing(q) ==
    /\ request[q].pc = "stop"
    /\ Revoke(request[q].task)
    /\ DeleteTrees({upload[r].revised : r \in rows} \ {None})
    /\ request' = [request EXCEPT ![q].pc = "delete", ![q].task = None]
    /\ UNCHANGED <<session, rows, country, task>>

\* ... then the uploads.
DeleteUploads(q) ==
    /\ request[q].pc = "delete"
    /\ rows' = {} /\ upload' = NoCopies
    /\ request' = [request EXCEPT ![q].pc = "pending"]
    /\ UNCHANGED <<session, country, treeVars, task, revoked>>

\* The status is not among the columns that are saved either.
SavePending_NotStatus(q) ==
    /\ request[q].pc = "pending"
    /\ session' = [session EXCEPT !.ready = FALSE]
    /\ request' = [request EXCEPT ![q] =
         IF request[q].cancel THEN [Unsent EXCEPT !.pc = "cancel"] ELSE Answered]
    /\ UNCHANGED <<rowVars, treeVars, task, revoked>>

\* task_id is cleared but not among the columns that are saved.
SavePending(q) ==
    /\ request[q].pc = "pending"
    /\ session' = [session EXCEPT !.status = "Pending", !.ready = FALSE]
    /\ request' = [request EXCEPT ![q] =
         IF request[q].cancel THEN [Unsent EXCEPT !.pc = "cancel"] ELSE Answered]
    /\ UNCHANGED <<rowVars, treeVars, task, revoked>>

SaveCanceled(q) ==
    /\ request[q].pc = "cancel"
    /\ session' = [session EXCEPT !.status = "Canceled"]
    /\ request' = [request EXCEPT ![q] = Answered]
    /\ UNCHANGED <<rowVars, treeVars, task, revoked>>

-----------------------------------------------------------------------------
(* layer_upload_preprocessing: prepare_validation                          *)

TaskGoesTo(t, pc) == task' = [task EXCEPT ![t].pc = pc]

TaskEnds(t, pc) ==
    task' = [task EXCEPT ![t] = [NoTask EXCEPT !.kind = task[t].kind, !.pc = pc,
                                               !.row = task[t].row]]

\* The revisions of the uploads are deleted, ...
StartPreprocessing(t) ==
    /\ Runnable(t) /\ task[t].kind = "preprocess" /\ task[t].pc = "queued"
    /\ DeleteTrees({upload[r].revised : r \in rows} \ {None})
    /\ TaskGoesTo(t, "delete")
    /\ UNCHANGED <<session, rows, country, revoked, request>>

\* ... then the uploads, ...
RemoveUploads(t) ==
    /\ Runnable(t) /\ task[t].pc = "delete"
    /\ rows' = {} /\ upload' = NoCopies
    /\ TaskGoesTo(t, "mark")
    /\ UNCHANGED <<session, country, treeVars, revoked, request>>

\* ... and only then the session says so.
MarkPreProcessing(t) ==
    /\ Runnable(t) /\ task[t].kind = "preprocess" /\ task[t].pc = "mark"
    /\ session' = [session EXCEPT !.status = "PreProcessing", !.ready = FALSE]
    /\ task' = [task EXCEPT ![t].pc = "match", ![t].todo = setting.files]
    /\ UNCHANGED <<rowVars, treeVars, revoked, request>>

\* An upload is found or created for a country of the files; the last one
\* ends the loop, unless a geometry cannot be read.
MatchCountry(t, c, r) ==
    /\ Runnable(t) /\ task[t].pc = "match" /\ c \in task[t].todo
    /\ RowsOf(c) = {r} \/ (RowsOf(c) = {} /\ FreshRow(r))
    /\ rows' = rows \cup {r}
    /\ country' = [country EXCEPT ![r] = c]
    /\ task' = [task EXCEPT ![t].todo = @ \ {c}, ![t].seen = @ \cup {r},
                            ![t].copy[r] = upload[r],
                            ![t].pc = IF task[t].todo = {c} /\ ~ setting.unreadable
                                      THEN "names" ELSE "match"]
    /\ UNCHANGED <<session, upload, treeVars, revoked, request>>

\* update_or_create refuses a country with two uploads.
MatchFails(t, c) ==
    /\ Runnable(t) /\ task[t].pc = "match" /\ c \in task[t].todo
    /\ Cardinality(RowsOf(c)) > 1
    /\ TaskEnds(t, "failed")
    /\ UNCHANGED <<session, rowVars, treeVars, revoked, request>>

\* GEOSGeometry raises, or the worker dies: the session stays as it is.  (A
\* validation whose worker dies is one that takes no further step.)
PreprocessingBreaks(t) ==
    /\ Runnable(t) /\ task[t].kind = "preprocess"
    /\ \/ setting.unreadable /\ task[t].pc = "match"
       \/ setting.mortal /\ task[t].pc # "queued"
    /\ TaskEnds(t, "broken")
    /\ UNCHANGED <<session, rowVars, treeVars, revoked, request>>

\* The names of the levels are saved with all the other columns.
SaveLevelNames(t) ==
    /\ Runnable(t) /\ task[t].pc = "names"
    /\ IF \A r \in task[t].seen : Fetchable(task[t].copy[r])
       THEN /\ rows' = rows \cup task[t].seen
            /\ upload' = [r \in RowId |-> IF r \in task[t].seen
                                          THEN task[t].copy[r] ELSE upload[r]]
            /\ task' = [task EXCEPT ![t].pc = "finish", ![t].seen = {},
                                    ![t].copy = NoCopies]
       ELSE TaskEnds(t, "failed") /\ UNCHANGED <<rows, upload>>
    /\ UNCHANGED <<session, country, treeVars, revoked, request>>

FinishPreprocessing(t) ==
    /\ Runnable(t) /\ task[t].kind = "preprocess" /\ task[t].pc = "finish"
    /\ session' = [session EXCEPT !.status = "Pending", !.ready = TRUE]
    /\ TaskEnds(t, "done")
    /\ UNCHANGED <<rowVars, treeVars, revoked, request>>

-----------------------------------------------------------------------------
(* validate_ready_uploads: run_validation                                  *)

\* The upload is read and must be Started.
ReadUpload(t) ==
    LET r == task[t].row
    IN  /\ Runnable(t) /\ task[t].kind = "validate" /\ task[t].pc = "queued"
        /\ IF r \in rows /\ upload[r].status = "Started"
           THEN task' = [task EXCEPT ![t].pc = "mark", ![t].copy[r] = upload[r]]
           ELSE TaskEnds(t, IF r \in rows THEN "done" ELSE "failed")
        /\ UNCHANGED <<session, rowVars, treeVars, revoked, request>>

\* A revision is followed by the checks, which begin with its replacement if
\* the files have level 0.
WithRevision == IF setting.level0 THEN "detach" ELSE "check"

\* save(update_fields=['status']) fails when the row is gone.
MarkProcessing(t) ==
    LET r == task[t].row
    IN  /\ Runnable(t) /\ task[t].kind = "validate" /\ task[t].pc = "mark"
        /\ IF r \in rows
           THEN /\ upload' = [upload EXCEPT ![r].status = "Processing"]
                /\ TaskGoesTo(t, IF task[t].copy[r].revised # None THEN WithRevision
                                 ELSE IF IsNew(r) THEN "store" ELSE "clone")
           ELSE TaskEnds(t, "failed") /\ UNCHANGED upload
        /\ UNCHANGED <<session, rows, country, treeVars, revoked, request>>

\* The country is saved under a new key, with every flag of the original, ...
CloneCountry(t) ==
    /\ Runnable(t) /\ task[t].pc = "clone"
    /\ trees' = trees \cup {Clone(t)} /\ published' = published \cup {Clone(t)}
    /\ TaskGoesTo(t, "correct")
    /\ UNCHANGED <<session, rowVars, revoked, request>>

\* is_approved is not reset.
CorrectClone_StillApproved(t) ==
    /\ Runnable(t) /\ task[t].pc = "correct"
    /\ trees' = trees \cup {Clone(t)}
    /\ TaskGoesTo(t, "attach")
    /\ UNCHANGED <<session, rowVars, published, revoked, request>>

\* ... saved again as a revision to be validated, ...
CorrectClone(t) ==
    /\ Runnable(t) /\ task[t].pc = "correct"
    /\ trees' = trees \cup {Clone(t)} /\ published' = published \ {Clone(t)}
    /\ TaskGoesTo(t, "attach")
    /\ UNCHANGED <<session, rowVars, revoked, request>>

\* A revision is made the upload's, with all the columns of the copy.
Attach(t, revision, pc) ==
    LET r == task[t].row
        columns == [task[t].copy[r] EXCEPT !.status = "Processing", !.revised = revision]
    IN  /\ SaveRow(r, columns)
        /\ task' = [task EXCEPT ![t].pc = pc, ![t].copy[r] = columns]
        /\ UNCHANGED <<session, country, treeVars, revoked, request>>

\* ... and made the upload's revision.
AttachClone(t) ==
    Runnable(t) /\ task[t].pc = "attach" /\ Attach(t, Clone(t), WithRevision)

\* With a file of level 0 the upload is saved without its revision, ...
Detach(t) ==
    LET r == task[t].row
        columns == [task[t].copy[r] EXCEPT !.status = "Processing", !.revised = None]
    IN  /\ Runnable(t) /\ task[t].pc = "detach"
        /\ IF Fetchable(task[t].copy[r]) \/ task[t].copy[r].revised = Clone(t)
           THEN SaveRow(r, columns) /\ TaskGoesTo(t, "drop")
           ELSE TaskEnds(t, "failed") /\ UNCHANGED <<rows, upload>>
        /\ UNCHANGED <<session, country, treeVars, revoked, request>>

\* ... which is then deleted, ...
DropRevision(t) ==
    LET r == task[t].row
    IN  /\ Runnable(t) /\ task[t].pc = "drop"
        /\ DeleteTrees({task[t].copy[r].revised})
        /\ task' = [task EXCEPT ![t].pc = "store", ![t].copy[r].revised = None]
        /\ UNCHANGED <<session, rows, country, revoked, request>>

\* ... the feature of the country stored, if it can be, ...
StoreCountry(t) ==
    LET stored == country[task[t].row] \notin setting.degenerate
    IN  /\ Runnable(t) /\ task[t].pc = "store"
        /\ IF task[t].row \in rows
           THEN TaskGoesTo(t, IF stored THEN "attachFile" ELSE "verdict")
           ELSE TaskEnds(t, "failed")
        /\ trees' = IF stored /\ task[t].row \in rows THEN trees \cup {Filed(t)} ELSE trees
        /\ UNCHANGED <<session, rowVars, published, revoked, request>>

\* ... and made the revision of the upload.
AttachFile(t) ==
    Runnable(t) /\ task[t].pc = "attachFile" /\ Attach(t, Filed(t), "check")

\* The other features are checked and saved below the revision, the progress is
\* saved now and then: all that fails when the row or the revision is gone.
\* There may be none beside a file of level 0.
CheckFeatures(t) ==
    LET r == task[t].row
        there == r \in rows /\ task[t].copy[r].revised \in trees
    IN  /\ Runnable(t) /\ task[t].pc = "check"
        /\ \/ (there \/ setting.level0) /\ TaskGoesTo(t, "verdict")
           \/ ~ there /\ TaskEnds(t, "failed")
        /\ UNCHANGED <<session, rowVars, treeVars, revoked, request>>

\* The verdict is saved with all the other columns; it is an error that the
\* country was not stored.
FinishValidation(t, verdict) ==
    LET r == task[t].row
        columns == [task[t].copy[r] EXCEPT !.status = verdict]
    IN  /\ Runnable(t) /\ task[t].pc = "verdict"
        /\ columns.revised = None => verdict = "Error"
        /\ IF Fetchable(columns)
           THEN /\ SaveRow(r, columns)
                /\ TaskEnds(t, "done")
           ELSE TaskEnds(t, "failed") /\ UNCHANGED <<rows, upload>>
        /\ UNCHANGED <<session, country, treeVars, revoked, request>>

-----------------------------------------------------------------------------
(* Specification                                                           *)

Init ==
    /\ setting \in Setting
    /\ session = [status |-> "Pending", ready |-> FALSE, task |-> None]
    /\ rows = {} /\ upload = NoCopies /\ country = [r \in RowId |-> None]
    /\ trees = {} /\ published = {}
    /\ task = [t \in TaskId |-> NoTask] /\ revoked = {}
    /\ request = [q \in Request |-> Unsent]
    /\ met = {}

Send(q) ==
    \/ SendPreprocess(q)
    \/ \E C \in SUBSET setting.files : SendValidate(q, C)
    \/ \E back, cancel \in BOOLEAN : SendReset(q, back, cancel)
    \/ \E U \in SUBSET RowId : SendToReview(q, U)

RequestStep(q) ==
    \/ \E t \in TaskId : QueuePreprocess(q, t)
    \/ SavePreprocessTask(q)
    \/ \E c \in Country : \/ StartFails(q, c)
                          \/ \E r \in RowId, t \in TaskId : StartValidation(q, c, r, t)
    \/ SaveValidateTask(q)
    \/ ReadOthers(q)
    \/ \E r \in RowId : ClearOther(q, r) \/ ResetUpload(q, r) \/ LoopFails(q, r)
    \/ StopPreprocessing(q) \/ DeleteUploads(q)
    \/ SavePending(q) \/ SaveCanceled(q)

TaskStep(t) ==
    \/ StartPreprocessing(t) \/ RemoveUploads(t) \/ MarkPreProcessing(t)
    \/ \E c \in Country : MatchFails(t, c) \/ \E r \in RowId : MatchCountry(t, c, r)
    \/ PreprocessingBreaks(t) \/ SaveLevelNames(t) \/ FinishPreprocessing(t)
    \/ ReadUpload(t) \/ MarkProcessing(t)
    \/ CloneCountry(t) \/ CorrectClone(t) \/ AttachClone(t)
    \/ Detach(t) \/ DropRevision(t) \/ StoreCountry(t) \/ AttachFile(t)
    \/ CheckFeatures(t)
    \/ \E verdict \in {"Valid", "Error"} : FinishValidation(t, verdict)

(* Four things the code relies on not to happen: a request is sent before  *)
(* the last was answered, preprocessing asked for while a task of it waits *)
(* or runs, a task goes on after it was revoked, and, in a session with a  *)
(* file of level 0, a validation takes a step before its id is saved.      *)

\* When a request is sent, for preprocessing or not
SendMeets(preprocess) ==
    {k \in {"overlap", "askedTwice"} :
       \/ k = "overlap" /\ \E p \in Request : Waiting(p)
       \/ k = "askedTwice" /\ preprocess /\ PreprocessingAsked}

TaskMeets(t) ==
    {k \in {"lateKill", "lostId"} :
       \/ k = "lateKill" /\ t \in revoked
       \/ k = "lostId" /\ setting.level0 /\ task[t].kind = "validate" /\ IdUnsaved(t)}

Next ==
    /\ \/ \E q \in Request : /\ Send(q)
                             /\ met' = met \cup SendMeets(request'[q].pc = "queue")
       \/ \E q \in Request : RequestStep(q) /\ UNCHANGED met
       \/ \E t \in TaskId : TaskStep(t) /\ met' = met \cup TaskMeets(t)
    /\ UNCHANGED setting

Spec == Init /\ [][Next]_<<vars, setting, met>>

\* Requests that were received and tasks that were queued and not revoked are
\* carried on: as long as one of them has a step to take, one of them takes one.
Working ==
    \/ \E q \in Request : RequestStep(q)
    \/ \E t \in TaskId \ revoked : TaskStep(t)

FairSpec == Spec /\ WF_vars(Working)

-----------------------------------------------------------------------------
(* Properties                                                              *)

Columns == [status : UploadStatus, revised : Revision \cup {None},
            task : TaskId \cup {None}]

\* Every variable keeps its type; the revision of an upload exists.
TypeOK ==
    /\ setting \in Setting
    /\ session \in [status : SessionStatus, ready : BOOLEAN, task : TaskId \cup {None}]
    /\ rows \subseteq RowId /\ upload \in [RowId -> Columns]
    /\ country \in [RowId -> Country \cup {None}]
    /\ \A r \in rows : country[r] # None
    /\ trees \subseteq Revision /\ published \subseteq trees
    /\ \A r \in RowId : upload[r].revised \in trees \cup {None}
    /\ revoked \subseteq TaskId

\* Nothing reaches a session that was canceled or sent to review: no task
\* that was queued before still writes to it or to its uploads, as long as the
\* behaviour has met nothing unlucky.
ReadOnlyFrozen ==
    [][met' = {} /\ session.status \in ReadOnly =>
         UNCHANGED <<session, rows, upload, trees>>]_vars

\* An upload that was reset gets no result until it is validated again.
ResetStands ==
    [][met' = {} => \A r \in RowId : upload[r].status = "" =>
         upload'[r].status \in {"", "Started"}]_upload

\* update_or_create finds at most one upload of a country.
OneUploadPerCountry == met = {} => \A c \in Country : Cardinality(RowsOf(c)) <= 1

\* "# delete revised entity level 0" (reset_qc_validation) and "editing this
\* page will reset the progress" (UploadWizard.tsx): no revision is left once
\* its upload was reset.  A revision belongs to an upload, or to a validation
\* that is making it, or was killed while it did.
NoOrphans ==
    \A v \in trees :
      \/ \E r \in rows : upload[r].revised = v
      \/ \E t \in TaskId :
           \/ v = Clone(t) /\ task[t].pc \in {"correct", "attach"}
           \/ v = Filed(t) /\ task[t].pc = "attachFile"
           \/ task[t].pc = "drop" /\ v = task[t].copy[task[t].row].revised

\* Before its review a revision is published at most while its validation is
\* making it, or if that was killed; no upload refers to it then.
HiddenBeforeReview ==
    \A v \in published :
      /\ \E t \in TaskId : v = Clone(t) /\ task[t].pc = "correct"
      /\ \A r \in RowId : upload[r].revised # v

\* What is offered for review has a revision to review.  A verdict without one
\* is seen on a country whose feature of level 0 was not stored, and then it is
\* an error, which a superuser may import if the country is not new; while
\* somebody who deletes the uploads is at work (or was killed); and once the
\* session is in review, on the uploads not sent there.
VerdictHasRevision ==
    met = {} => \A r \in rows :
      \/ upload[r].revised # None
      \/ upload[r].status \in {"", "Started", "Processing"}
      \/ /\ country[r] \in setting.degenerate
         /\ upload[r].status = "Error" \/ (upload[r].status = "Reviewing" /\ ~ IsNew(r))
      \/ session.status = "Reviewing" /\ upload[r].status # "Reviewing"
      \/ \E q \in Request : request[q].pc = "delete"
      \/ \E t \in TaskId : task[t].pc = "delete"

\* The wizard's spinner stops, unless preprocessing raised or its worker died:
\* a session is not in preprocessing for ever.
PreprocessingEnds ==
    session.status = "PreProcessing" ~>
      \/ session.status # "PreProcessing"
      \/ met # {}
      \/ \E t \in TaskId : session.task = t /\ task[t].pc = "broken"
=============================================================================
