# GeoRepo: a TLA+ model of how boundaries are uploaded, checked, reviewed and published

GeoRepo is a repository of administrative boundaries.  A *dataset* holds trees of
*geographical entities*: a country (level 0) and the units below it.  Users upload layer
files; what is uploaded becomes a new *revision* of a country's tree, which is validated,
matched against the previous revision, reviewed, and then published (`is_approved`,
`is_latest`); vector tiles and downloads are generated from what *views* select of it,
for the users it is *shared* with.  This directory models the parts of
`src/django_project` where that can go wrong, checks the models with TLC and proves the
properties that matter most with TLAPS.  Paths below are relative to
`src/django_project`.

## 1. The system

One Postgres database, a Redis broker and cache, web workers and three kinds of Celery
workers (`worker_entrypoint.sh:24-27`): default, `validate` (queue `validation`,
concurrency 3) and `tile` (queue `tegola`, concurrency 1).  Three facts shape every
model here:

* neither a request nor a task runs in a database transaction (there is no
  `ATOMIC_REQUESTS`; one helper uses `transaction.atomic`): each ORM statement commits
  alone;
* a Django object is a copy of its row.  `save()` writes *every* column of the copy back
  and inserts the row again when it is gone; `save(update_fields=...)` writes the named
  columns and fails when the row is gone;
* tasks are acknowledged when received and are not retried: a killed task is lost.

| Component | State | Operations | Interacts with |
|---|---|---|---|
| Review of uploads | `EntityUploadStatus` rows (status, `comparison_data_ready`, revised/original entity), `BatchReview`, entity flags | ready-to-review, matching task, approve, reject, batch review, notification | session, entities, tiles |
| Upload session lifecycle | `LayerUploadSession` (status, `auto_matched_parent_ready`, `task_id`), its uploads | create, preprocess, validate, reset, cancel, delete | task queue (delay, revoke), validation, review |
| Quality checks | units stored below a revision, `status`, `summaries`, `EntityUploadChildLv1`, `max_level_in_layer` | matching of parents, offered level, `run_validation`, verdict, import test | session, review |
| Boundary matching | `BoundaryComparison` rows, `uuid`/`is_latest` of units | compare with approved units, swap, rematch | review, codes |
| Unique codes and versions | `unique_code`, `unique_code_version`, concept codes, validity dates | number, count, date, insert into the history | review, matching, public API |
| Dataset views | `DatasetView`, its SQL view, its range of privacy levels | create, refresh after an approval | tiles, permissions |
| Vector tiles and exports | resources (`status`, task id, counts), directories of tiles and files | trigger, revoke, generate, swap directories | views, review, tiling configuration |
| Permissions | object permissions, cached answers of tile requests | grant, replace, revoke, create a view, answer | datasets, views |
| Public API, authentication, front end | none of their own | read-only queries, login, display | all |

### Hard behaviours

* **Queue before save.**  `ApproveRevision` queues the approval, then saves
  `Processing_Approval` (`dashboard/api_views/reviews.py:331-334`); validation,
  preprocessing and tile generation save `task_id` after queuing, so a `revoke` in between
  misses the task.
* **Stale copies.**  The matching task, the batch, the approval, the validation and the
  tile worker each save whole rows they read before (`admin_boundary_matching.py:689`,
  `tasks/review.py:74`, `qc_validation.py:1003`, `vector_tile.py:484`).
* **Unlocked checks.**  Country under review elsewhere, an existing upload, a running task,
  a code or a geometry already stored: read in one statement, acted on in a later one.
* **Several statements, one meaning.**  Retiring a revision and publishing the next;
  cloning a country and clearing its `is_approved`; removing a live directory and moving
  the new one in its place; taking the permissions of a role away and assigning others.
* **Cascades.**  Deleting a tree deletes the uploads that wait to revise it
  (`entity_upload.py:38-44`).
* **Order of data.**  Matching, numbering and validation are greedy loops: what an earlier
  unit took, or was stored as, decides on the later ones.
* **Death of a worker** between any two of these.

What makes each component correct:

* review: a decision nobody contradicts takes full effect; nothing unmatched is published;
  a revision is never current beside the one it revises; nothing is deleted without a
  reason; uploads in review become ready and batches finish;
* session: a reset or canceled session stays so; an upload has a verdict only with a
  revision; never a second published country from a clone; preprocessing ends;
* quality checks: what may be imported is what the files say of the country, once, and as
  deep as offered; one country's faults do not count against another; a verdict comes;
* matching and codes: one unit continues a concept at most, the better match wins, flag,
  concept and code agree, codes name one unit of a version;
* history: one version at any date, no gap, the past untouched;
* views and tiles: at rest, tiles, downloads and status show what the view selects;
* permissions: at rest, a user has the last role and nothing else, on all views, and
  cached answers are right or expire.

## 2. Modules

| Module | Models |
|---|---|
| `UploadReview`, `MCUploadReview` | the review of validated uploads against the shared database |
| `UploadReview_proofs` | its type invariant, its safety properties (what is published, what decisions achieve, why anything is deleted), and that it implements `Publication` |
| `Publication`, `Publication_proofs` | abstract specification: what readers see of revisions while they are reviewed |
| `UploadSession`, `MCUploadSession` | one session before its review: requests against tasks |
| `UploadSession_proofs` | its type invariant and five safety theorems |
| `LayerValidation`, `MCLayerValidation` | what preprocessing and validation make of layer files |
| `LayerValidation_proofs` | nothing is offered twice, what is offered is what the files say, flawless countries are valid |
| `ConceptMatching`, `MCConceptMatching` | matching of units and concepts, the reviewer's changes, codes and versions |
| `ConceptMatching_proofs` | concepts are one to one, matches are the best, versions follow dates, concept numbers and codes are right |
| `VersionHistory`, `MCVersionHistory` | the dates of the versions of a country, new and historical |
| `VersionHistory_proofs` | its four theorems |
| `ViewTiles`, `MCViewTiles` | tiles and exports of a view |
| `ViewTiles_proofs` | its type invariant and four safety theorems |
| `Sharing`, `MCSharing` | permissions on a dataset and its views, and their cached answers |
| `Sharing_proofs` | its type invariant and four safety theorems |

How they compose.  `UploadSession` ends where a session is sent to review and
`UploadReview` begins with validated uploads; `LayerValidation` opens the step
`CheckFeatures`/`FinishValidation` of the former, `ConceptMatching` the matching task and the page of
the latter, `VersionHistory` the dates an approval writes.  `Publication` is what all other
readers rely on: `ViewTiles` starts from its approvals (`Retire`, `Publish`).  The modules
share no variables: each takes what the others do as inputs, named in its header.

In every module an operator `X_Y` states the code of `X` with the mistake `Y`; no
specification uses it, and putting it in the place of `X` makes TLC find the property
violated that PROJECT.json names for it.

### UploadReview

An upload, a session, a country, a visit of a reviewer to the review page and a batch are
elements of constant sets; a revision tree is named by its upload, the tree published
before by its country.  Rows are `rows`, `status`, `ready`, `revised`, `original`; the
entity flags are the sets `trees`, `latest`, `approved`.  Every process has a program
counter and, where the code holds a Django object across statements, a `copy`:

| Code | Actions |
|---|---|
| `ReadyToReview.post` (`reviews.py:40-136`) | `CheckReady`, `MarkReviewing`, `DispatchMatching`, `SetSessionReviewing`, `DropNonSelected` |
| `run_comparison_boundary`, `prepare_review`, `run_boundary_matching` | `ReadForMatching`, `StartMatching`, `SetCodeVersion`, `FinishMatching`, `NotifyMatched` |
| review page (`DetailStatus.tsx`) | `OpenPage`, `FetchPendingReviews`, `ClickApprove`, `ClickReject` |
| `ApproveRevision`, `review_approval` | `SaveProcessingApproval`, `StartApproval` |
| `approve_revision`, `approve_historical_upload` | `Supersede`, `Repoint`, `Publish`, `SaveApproved`, `CloseApproved`, `FinishDecision` |
| `reject_revision` | `SaveRejected`, `CloseRejected`, `DeleteRejected` |
| `BatchReviewAPI`, `process_batch_review` | `SubmitBatch`, `StartBatch`, `BatchItem`, `FinishBatch` |
| `DeleteUploadSession` | `CheckDeletable`, `DeleteEntities`, `DeleteSession` |
| `ConfirmRematchBoundary`, `recalculate_summary` (`admin_boundary_matching.py:885`), of the row only | `ReadForRematch`, `SaveRematch` |
| `SIGKILL` of a worker | `WorkerDies` |

`SaveRow` is `save()`, `CanSave` is when it succeeds (foreign keys, the row or its session
is there), `DeleteTrees` is the cascade.  The entities of a tree share their flags
(`approve_revision` updates them with one query each).  `matched`, `decisions` and
`overwritten` are history variables: they record what happened and no action reads them.
A rematch reads the row, works on the units (that is `ConceptMatching`) and saves the whole
row at the end, after any decision taken meanwhile: `overwritten` has the uploads whose status it
put back.  `DecisionStands` excepts the status of those, and nothing else of them.  `Lenient`
uploads have allowable errors only, so they are importable without being Valid;
`Cloned` ones got their level 0 from the original, and keep `is_latest` of it
(`qc_validation.py:343-367`).  The signal `delete_entity_upload` deletes the lower levels
of an unapproved revision whose row is deleted; the model has the roots of the trees only.

### Publication

What an observer of the data sees of one upload after another: it is *asked* to be
published (`Ask`), the revision it revises is retired (`Retire`), the new one appears
(`Appear`), or the tree is removed (`Remove`).  The mapping (`Promise` in `UploadReview`) takes
`asked` from the history of decisions and `life` from `trees`, `latest` and `approved`.
`Publication_proofs` shows that from this specification alone no revision is current
beside the one it revises.

### UploadSession

A request of the browser and a task have a program counter each; ids of rows and tasks are
numbers, given out in order.  A revision is named by the validation task that made it, as a clone of
the published country (`Clone(t)`) or from a feature of level 0 (`Filed(t)`);
`published` holds those that are `is_approved`, as a clone is until it is saved a second
time.  `setting` fixes the circumstances of a behaviour: the countries of the files, whether
they have level 0, which countries are new, which have a feature that is not stored, whether a
geometry cannot be read, whether workers die, and which timings occur.

| Code | Actions |
|---|---|
| the wizard (`MaySend`: one request at a time, none on a read-only session) | `SendPreprocess`, `SendValidate`, `SendReset`, `SendToReview` |
| `LayerUploadPreprocess.post` (`validate.py:176`) | `QueuePreprocess`, `SavePreprocessTask` |
| `ValidateUploadSession.post` (`validate.py:53`) | `StartValidation`, `StartFails`, `SaveValidateTask`, `ReadOthers`, `ClearOther` |
| `ResetUploadSession.post`, `reset_qc_validation`, `reset_preprocessing` | `ResetUpload`, `LoopFails`, `StopPreprocessing`, `DeleteUploads`, `SavePending`, `SaveCanceled` |
| `prepare_validation` | `StartPreprocessing`, `RemoveUploads`, `MarkPreProcessing`, `MatchCountry`, `MatchFails`, `PreprocessingBreaks`, `SaveLevelNames`, `FinishPreprocessing` |
| `validate_ready_uploads`, `run_validation` | `ReadUpload`, `MarkProcessing`, `CloneCountry`, `CorrectClone`, `AttachClone`, `CheckFeatures`, `FinishValidation` |
| ... with a file of level 0 (384-390, 833-906) | `Detach`, `DropRevision`, `StoreCountry`, `AttachFile` |

`revoke(terminate=True, signal='SIGKILL')` puts an id into `revoked`; a revoked task takes
no step, unless the kill is late (`Runnable`).  Nothing in the code excludes the following
four events.  The history variable `met` records which have happened, and
`OneUploadPerCountry`, `VerdictHasRevision`, `ReadOnlyFrozen`, `ResetStands` and
`PreprocessingEnds` say what holds until the first of them; `TypeOK` and
`HiddenBeforeReview` hold throughout.

| Event | When | If it is left out of `met`, TLC finds violated |
|---|---|---|
| `overlap` | a request is sent before the last one was answered: a double submit, a second tab (the wizard waits for the answer) | `OneUploadPerCountry`, `ReadOnlyFrozen`, `ResetStands`, `PreprocessingEnds` |
| `askedTwice` | preprocessing is asked for while a task of it waits or runs (the session is not marked before the task runs, and `is_in_progress` looks at that mark) | the same |
| `lateKill` | a revoked task takes a step: celery sends the signal asynchronously and nothing waits for it | the same |
| `lostId` | with a file of level 0, a validation takes a step before the request has saved its id | `OneUploadPerCountry`, `VerdictHasRevision`, `ReadOnlyFrozen`, `ResetStands` |

A worker may start
a task before its id is saved (`earlyPickup`) in every session; without a file of level 0 that does no
harm: the task's next full save empties `task_id`, but the reset that misses the task has
read, and deletes, the revision which the task needs to finish.  With one, the validation detaches its
revision (`qc_validation.py:384-390`), so that the reset finds neither an id nor a revision.
This is a weakness of the code and not of the model.

A verdict without a revision is possible with no event at all: the feature of level 0 of a
country is missing or degenerate, the revision was detached, and the upload ends as Error
(`qc_validation.py:960-1003`).  If the country is not new a superuser can send it to review.
`VerdictHasRevision` names this case.

### LayerValidation

The world has one dimension: a geometry is a set of cells, its bounding box an interval.
A layer file is a sequence of features (code, parent's code, cells, flaws of its own); a
stored unit is named by its upload and its place in the files, and index 0 is the clone of a
published country.

| Code | Definitions and actions |
|---|---|
| `validate_layer_file_0`, `preprocess_layer_file_0`, `create_temp_admin_level_0` | `Preprocess`, `Uploaded`, `Ground` |
| `do_search_parent_entity_by_geometry`(`_for_level0`), `do_process_layer_files_for_parent_matching`(`_level0`) | `Near`, `MatchedParent`, `Children` |
| `find_country_max_level`, `validate_level_country`, `validate_level_admin_1` | `OfferedLevel`, `Reaches`, `Below` |
| `prepare_validation` | `PrepareValidation`, `Parseable` |
| `ValidateUploadSession.post` | `Validate` |
| `run_validation`: mark and clone (308-399) | `Begin` |
| ... choice of features (452-539) | `Included`, `Left`, `Parents`, `Newest` |
| ... checks of a feature (559-815), `geometry_checker/*` | `AttributeErrors`, `GeometryErrors` (`Overlapping`, `Parts`, `Counts`), `HierarchyErrors`, `CheckUnit` |
| ... the type of the unit (818-832, `EntityType.get_by_label`) | `HasType`, `TypeFails` |
| ... the feature is stored (833-906) | `StoreUnit` |
| ... end of a file (907-958) | `WithinOthers`, `CloseLevel` |
| ... verdict (960-1003) | `Finish` |
| `is_validation_result_importable`, the lists of `error_type.py` | `Importable`, `Allowable`, `SuperadminBypass` |
| `reset_qc_validation` | `Reset` (while no task waits or runs: the rest is in `UploadSession`) |

Tasks of different countries interleave between the check of a feature and its storage,
and between features; `setting.inTurn` makes them follow each other.  `compared` is a history
variable: the pairs of a unit and a stored one that it was checked against.  An overlap counts
part by part, as in `overlap.py:40-51`: a part is reported if it is above the (root of the) tolerance and below the
threshold, or the threshold is zero.  `HierarchyErrors` takes containment to be exact where the
code accepts 99 %: a hundredth of a unit is less than a cell.  A geometry that is invalid for
another reason than a self-intersection is in the files too (`Invalid`): it is never reported and never
compared.  A unit without the value of its type's field makes `get_by_label(None)` raise, and
the upload stays Processing until a reset.  Gaps are counted by
the code but never make an upload invalid or block it; duplicate nodes behave as other
allowable errors, a missing parent field only occurs beside a missing parent; the check of
self contacts is disabled in the code.

### ConceptMatching

One country; a unit is `<<upload, n>>`, a geometry a *place*, and `Similar` says of two
places whether their overlap is below, at, or above the thresholds or none.  A uuid
stands for a concept.  A code is a sequence of numbers, one per level.

| Code | Actions |
|---|---|
| `run_validation` (units of a revision) | `Validate` |
| `run_boundary_matching`, first and second pass (`admin_boundary_matching.py`) | `StartMatching`, `MatchUnit`, `StartRest`, `MatchRest` (`Tiers`, `Choices`, `IsSame`, `Allocated`) |
| `generate_unique_code_*`, `unique_code_version` (`unique_code.py`) | `StartCoding`, `CodeChildren`, `FinishMatching`, `VersionFor`, `CountConcepts` |
| `CompareBoundary`, `SwapEntityConcept`, `ConfirmRematchBoundary` (`boundary_comparison.py`) | `Compare`, `SwapConcept`, `ConfirmRematch` (`NewCode`, `FreshUuid`) |
| `approve_revision`, `generate_concept_ucode` | `NumberConcepts`, `Approve` |
| `reject_revision` | `Reject` |

`EditLimit` bounds the changes of each upload, `Dialogs` how many rematch dialogs are open at once.
`ConfirmRematchBoundary` does not ask again whether the concept is taken: `clashed` records the
units that were given one that another unit took after the list was shown (`Taken`), and `OneToOne`
excepts exactly these.  `together` records that two uploads of the country met in review.  `NothingBetterLeft`, `ConceptNumbers`
and `VersionsFollowDates` speak of a country whose uploads do not;
the last also needs a single first revision (`Regular`) and different dates.  `MatchedCodes` needs that the
codes of approved revisions are right, the country's own empty one included (`CleanHistory`): a reviewer's swap
can spoil them (run `DocCodes`).  A version is a float that the code halves the distance of two others for;
the model counts in parts of one (`Part`), with as many halvings as there are uploads, and
leaves out the rounding of the code's text to four decimals.  `SwapEntityConcept` and
`ConfirmRematchBoundary` do not check the status of the upload; the model takes the page
as read only after the decision.

### VersionHistory

Uploads of one country with a start date, historical ones with an end; the database rows
are `trees`, `approved`, `latest`, `start`, `end`, `number`, the original of an
upload is `original`.  Actions: `Preprocess`, `Validate` (the clone), `SendToReview`,
`Approve`, `Supersede`, `Repoint` (new revisions), `CutPrevious`, `MoveNext` (historical ones),
`Publish`, `Reject`.  Nothing in the code makes an approved upload fit the history; `misfits`
collects those that do not, in the ways `Fits` and `NoteOverlap` list: a new
upload fits if its original is the published open version and all versions start before
it; a historical one if it is not empty, no version starts on its day, and the version it
is inserted before was approved and outlasts it; historical approvals do not overlap.
Dropping any of these conditions makes TLC find a violation of `OneVersionAt` or
`OpenIsListed`.

### ViewTiles

A *change* is an approval or a new tiling configuration.  The content of the view is a
set of entities; a resource (privacy level) has a row, a directory of tiles and one of
files, each live and temporary; the queue holds generations.

| Code | Actions |
|---|---|
| approval, `refresh` of dynamic views, `calculate_view_privacy_levels` (`dataset_view.py:433`) | `Retire`, `Publish`, `ReadRange`, `SaveRange` |
| tiling configuration (`tiling_config.py`) | `DropConfig`, `CreateConfig` |
| `trigger_generate_vector_tile_for_view` (`dataset_view.py`) | `ReadResources`, `Restart`, `QueueTask`, `SaveTaskId`, `ChangeDies` |
| `generate_view_vector_tiles_task`, `generate_view_vector_tiles` (`vector_tile.py`) | `Discard`, `Pick`, `MarkProcessing`, `Configure`, `ClearTiles`, `SeedTile`, `RemoveTiles`, `MoveTiles`, `SaveSuccess`, `SeedFails` |
| exporters (`exporter_base.py`) | `ReadLevels`, `WriteFile`, `RemoveFiles`, `MoveFiles` |
| `SIGKILL`, an orphaned tegola | `Kill`, `WorkerDies`, `StraySeed` |

The model does not tell a temporary directory that is absent, for which the move raises
(`vector_tile.py:626-630`), from an empty one: with one tile worker it is absent only if tegola
wrote nothing, and then there is nothing to move.  `lost`, `unexported`, `cut` and `strayed` record the generations that died, were replaced by one
without an export, were cut off, or left a tegola behind; the properties except
exactly these, and without any one of the exceptions TLC finds a violation.

### Sharing

The permissions of one user on one dataset, its views, and the cached answers of tile
requests; every permission is a statement.  A role is none, viewer of a level, writer,
manager or owner.

| Code | Actions |
|---|---|
| `grant_dataset_viewer`, `_manager`, ..., `grant_datasetview_*` (`permission.py`) | `Grant`, `Step`, `ListViews`, `NextView`, `End` |
| `revoke_dataset_access`, `revoke_datasetview_access` | `Revoke` and the same steps |
| change of a viewer's level; external viewers | `Downgrade`, `GrantExternal` |
| `view_post_create` (`georepo/models/dataset_view.py`) | `CreateView`, `FindUsers`, `GrantOnCreation` |
| `IsDatasetAllowedAPI` (`protected_api.py`), Redis TTL 3600 s | `ReadPerms`, `Store`, `Expire` |
| view saved with a new level of resources | `SaveView` |

## 3. What is checked

| Run | Scenario | Shows |
|---|---|---|
| `ReviewProgress` | fair; one session, which may be deleted, with a revised country and a new one with allowable errors; a batch | uploads in review become ready, batches finish (unless the worker is killed), nothing is deleted unasked |
| `ReviewRivals` | two validated uploads of one country in two sessions and a third that waits for its validation; a reviewer, who may rematch, and a batch | `UploadReview` implements `Publication`; only matched revisions are published; a gap only inside an approval; decisions stand; no unexplained loss of rows |
| `DocApprovalShown` | fair; one reviewer | **violated**: Approved is overwritten by Processing_Approval |
| `DocOneLatest` | two reviewers, two validated rivals | **violated**: two revisions of a country are latest |
| `Session` | fair; eleven circumstances: one or two countries, with and without level 0, new or not stored; each of the timings; deaths and unreadable geometries | canceled and reviewed sessions are left alone, resets stand, one upload per country, verdicts have a revision, clones are hidden, preprocessing ends |
| `DocResetDeletes` | one country, three requests | **violated**: a reset leaves a revision without an upload |
| `Validation` | fair; 1050 sets of layer files, under several tolerances and thresholds, validated interleaved or in turn, and reset | what is offered repeats nothing it was compared with, the tree is what the files say, as deep as offered, faults stay with their country, verdicts come |
| `Concepts` | three uploads, one historical, up to four units, two changes by the reviewer, two rematch dialogs | flag, concept, numbers, codes and versions agree, greedy matching leaves nothing better |
| `DocCodes` | two uploads, four changes | **violated**: two units of a version have one ucode |
| `History` | three uploads of any kind and dates, in any order | one version at each date, no gap, the listing is right, the past is kept |
| `Tiles` | an approval overlapping a change of configuration; two approvals in a row; deaths | at rest tiles, downloads, status and what users are shown are those of the view |
| `Sharing` | fair; two changes and a tile request from every role, two levels, two views | the last role and only it, on all views; cached answers are right or expire |

Bounds.  *Review*: two validated uploads, a visit and a batch; every hazard relates at
most two decisions on one upload or two uploads of one country, and nothing is
counted; the cascade needs a third upload, which is not validated and therefore repointed
(`Repoint`) to a revision that may be rejected later.  `ReviewRivals` has no `Mortal` process: a worker that is
killed is one that takes no further step, so its safety properties see the same states (the row
of a batch apart), and `ReviewProgress`, where it matters, lets the batch die.
*Session*: three to five requests reach preprocess, validate, reset, preprocess
again and a fifth on top; `LastRow` and `LastTask` end a behaviour that needs more ids, and are
large enough for one per request.  *Validation*: two or three features per file suffice
because every check relates a unit to one other unit and to its parents; the places are
inside, across the border, around and equal, three levels in all (0 and 1; 1; 1 and 2);
where two countries claim the same ground, common parts have one cell or two, and a tolerance of one with a
threshold of two leaves nothing in between, as the defaults do.
*Concepts*: `MaxUnits` = 4 and five places, chosen to have a match at, above and below the
thresholds and two candidates for one unit; two changes of one upload are a swap there and back, or two
dialogs.  *History*: dates 0 to 4 around the first
version (`BaseStart` = 1, `Horizon` = 4) give every order of three uploads.  *Tiles*: two privacy
levels, four entities, two places, pairs of changes.  *Sharing*: two requests, one check.
Symmetry is used in `History` only, a safety run.  Deadlock is not checked: users may
simply stop.

Fairness.  `FairSpec` of `UploadReview` gives weak fairness to each step of a request that was
received and of a task that was queued; the code justifies it by its workers, which run until
a task ends or raises; `Mortal` ones may die and are owed nothing then.  In
`UploadSession` and `LayerValidation` the steps of all requests and tasks are fair as a whole: some step of
some of them is taken as long as there is one.  In `Sharing` the steps of a change and of a
tile request are fair, and so is the expiry of cached answers, which Redis does after
3600 s.  Nothing obliges a user to do anything.  `Tiles` checks at rest instead of
liveness: its five and a half million states leave no time for it.

### Disagreements between the code and what it says

* `ApprovalShown`: "change status to APPROVED" (`modules/admin_boundaries/review.py:61`); the
  page waits for it (`DetailStatus.tsx:134`).  The request saves Processing_Approval after
  queuing; when the worker is faster, Approved is lost for good.  The entities are
  nevertheless published: `DecisionStands` holds with either status.
* `OneLatestPerCountry`: "Set is_latest to false for all old entities"
  (`modules/admin_boundaries/review.py:76`).  Only the entities of the upload's own original
  are retired, and a rival that was already validated is not repointed.
* `NoOrphans`: "delete revised entity level 0" (`qc_validation.py:1070`), "editing this page will
  reset the progress" (`dashboard/src/views/Dataset/UploadWizard.tsx:245`).  The reset loop
  works on copies; a validation that attaches its clone after they were read, and is
  revoked after that, leaves the clone in the database.
* `UcodesUnique`: "The Ucode is a unique identifier that represents a specific version"
  (`docs/src/user/api/guide/index.md:75` of the repository).  The next number is the count
  of concepts below the parent plus one, whether or not it is taken.

Seen while modelling, visible in the definitions, not stated as runs:

* *Quality checks.*  With the default parameters (tolerance 0.0001, threshold 0.01,
  `core/models/preferences.py:37-45`) an overlap must be above the root of the one and below the
  other, both 0.01, to be reported: none is, although the documentation promises a
  report of overlaps.  Every upload of level 0 is flagged as not within its parent (there
  is none: the exception is caught as an error), so only a superuser can import one.  A unit of level 1
  that lies in another country than it names always lacks a parent by code, which blocks
  even superusers: the level `validate_level_admin_1` finds for such countries is never
  reached.  Invalid geometries are allowable and pass all checks against others; those that are invalid for
  another reason than a self-intersection are not even reported (`self_intersects.py:71`).  A unit without the
  value of its type's field ends the validation with an exception (`qc_validation.py:824`,
  `get_by_label(None)`), and the upload stays Processing.  Three
  validations at once miss each other's duplicates and overlaps; a unit enclosed by one
  that another country stores later is not reported.  A unit whose parent's code is not
  stored is skipped without an error.  A geometry that cannot be read ends preprocessing
  and leaves the session in it.
* *Session.*  `reset_preprocessing` empties `task_id` but does not save it
  (`upload_preprocessing.py:126-127`); a double submit of validation passes the test for existing uploads
  (`validate.py:69`); nothing waits for the SIGKILL of a
  revoked task, which may still save its verdict over the reset; with a file of level 0, a validation that started
  before its id was saved overwrites it and detaches its revision, so that a reset finds neither;
  `country_entity_id` is taken from the client (`validate.py:80`); the revision
  number is "for given level 0 entity" (`qc_validation.py:331`) but computed over the dataset.
* *Review.*  The notification after matching (`dashboard/tasks/upload.py:79`) does not count
  uploads whose task has not started; two sessions that pass the test for reviews elsewhere
  (`reviews.py:101`) together are both in review; a page open before a batch was submitted
  still decides while the batch runs; a rematch that ends after a decision writes Reviewing over it
  (`admin_boundary_matching.py:901`), and the page offers the decision again.
* *Matching.*  Two rematch dialogs give two units one concept (`clashed`); the
  search takes overlaps above the thresholds, `check_is_same_entity` those at them too;
  approvals that execute while a version is computed are not seen.
* *Tiles.*  A change of configuration revokes the generation of an approval and replaces it by
  one that does not export; the temporary directory is not emptied at the start, and a killed
  generation's tegola goes on writing to it; of two approvals the one that read the range of levels
  first may save last; the exporter skips resources that became empty.
* *Permissions.*  Grants of manager, writer and owner delete no cached answer; a revocation deletes
  those of views the user can see, but the dataset's permissions alone let him read tiles of one he
  cannot, as after overlapping changes: that answer lives on (found by a proof, three changes); overlapping
  changes may leave a mixture; a view created during a revocation keeps the user; owners are only
  managers of views created later.
* *Public API.*  `api_cache.py:20-35` writes answers it never reads; the fuzzy search
  (`entity.py:1211`) pages by similarity alone.

## 4. What is proved

All theorems hold for every value of the constants that the module's named assumption
allows; those say how constants relate (an upload has one session, levels are numbers,
places are finite sets) and nothing about behaviour.

* `UploadReview_proofs`.  `TypeCorrect`: `TypeOK` with `References` (no dangling foreign key).
  `OnlyMatchedApproved`: nothing unmatched is published, for any number of sessions,
  reviewers and batches, any of them mortal.  `ApproveRevision` checks nothing, so this rests on
  the page and the batch; `ReadinessInv` strengthens it: whatever is shown as ready, is
  before a reviewer, or is being decided on, was matched.  `RetiredFirst`: a revision is never
  current beside the one it revises (`RetiredBeforeReplaced`); `RetirementInv` adds that from
  `Repoint` on the revised tree is not latest, and that no stale save, a rematch's included (`RematchKept`), changes what a validated
  upload revises.  `Refinement`: `Spec => Promise!Spec`, by initial states and one step per action;
  the strengthening `MandateInv` says that every job works on an upload that was asked for.
  `DecisionsStand`, `GapsExplained`, `DeletionsExplained` and `RowLossesExplained`
  (`DecisionStands`, `GapOnlyInApproval`, `DeletionExplained`, `RowLossExplained`): with those before,
  every safety property of the passing review runs.  The invariant has four layers, each
  inductive with those below: what was matched stays matched (`MatchedOnce`); each decision was
  taken by the job it names, and a job that carries it out has read the row since (`AuthorsInv`);
  the entities of an upload are there unless a recorded deletion took them, and the row
  and its copies name the same revision (`KeptInv`); how far the decision has taken effect at each
  step of its job (`StandsInv`).  The last is needed because `DecisionStands` looks at the job's end only.
* `UploadSession_proofs`.  For every timing: `TypeCorrect`, and `ClonesHidden` (`HiddenBeforeReview`) from `BaseInv`:
  whatever an upload or a copy of one refers to was made by a validation of that
  upload which is done with it, however stale the copy.  Until the first of the four events of
  section 2 (`met`), each of which the code allows: `OnePerCountry`,
  `VerdictsHaveRevision`, `ReadOnlyStays` (`ReadOnlyFrozen`) and `ResetsStand` (`ResetStands`) from `TurnsInv`: requests,
  preprocessing and validations take turns; each task at work agrees with the row of its
  upload, which has the task's id or, from then on, its revision; so the copies that a reset
  works on name, for each validation still at work, the id to revoke or the revision whose
  deletion makes it fail (`ResetSound`).  The id alone would not do: with `earlyPickup` the row may never
  have had it.  With a file of level 0 the revision would not do, since it is detached and replaced: there the
  row and the task's copy must have the id, which is why `lostId` is one of the events.
* `Publication_proofs`.  `NeverBeside`, from the abstract specification.
* `ConceptMatching_proofs`.  `ConceptsAgree` (`FlagMeansConcept`) and `ConceptsOneToOne` (`OneToOne`, for
  any number of dialogs), from `ConceptInv`: units that own a uuid, what is compared is approved, and that both
  loops have left allocated concepts out; whatever a dialog gives away that was taken meanwhile is in `clashed`.  For any uploads, layer
  files, overlaps and dates: `GreedyIsBest` (`NothingBetterLeft`), from `BestInv`: a unit the loop has passed prefers
  its match to all that no unit before it took, and the history it was chosen from stays what
  it was while no two uploads are in review.  `VersionsOrdered` (`VersionsFollowDates`), from `VersionInv`: after k approvals
  two versions are at least `Part[k]` apart, so there is room half way between them.  `ConceptsNumbered`
  (`ConceptNumbers`), from `NumberInv`: the numbers in use are those up to the count of concepts, which is what
  approval continues.  `CodesMatched` (`MatchedCodes`), from `CodeInv`: at every round of the three loops the codes given
  so far follow the parents' and differ, those of comparisons because no two comparisons are one concept, those
  of the numbering because the numbers left free are enough for all units without one (`EnoughNumbers`).
* `VersionHistory_proofs`.  `TypeCorrect`, `OneVersion`, `OpenListed`, `PastUntouched`, from an invariant that
  says, while nothing misfits, that versions form a chain by dates, that one new and
  one historical approval at most are executing, and how far each has got.
* `LayerValidation_proofs`.  For any files, countries, parameters and number of tasks.  `ImportedOnce`
  (`NothingTwice`): the code compares a unit with what is stored when it reads it, stores it later, and
  looks for units that enclose each other at the end of a file.  The invariant follows what is
  known in between: what a comparison leaves in the errors of the later unit (`Pairs`, `Covered`, and
  `Pending` while that unit is not stored yet), which files are still to be closed (`Enclosed`), and, for uploads
  and validations in turn, that of two stored units one was compared with the other (`Marked`, `Turn`).
  `OfferedTreeIsFile` (`TreeIsFile`), from `TreesInv`: as long as no error was
  found that nobody can bypass, what the task is past was stored if it belongs to the country, below
  one parent (`Built`), no code is stored twice (`OneOfACode`, so `CheckUnit` deletes no row), and nothing
  is stored that was not read.  That ends with the first missing code, missing parent or
  duplicated code, and none of these can be bypassed.  `OfferedLevelReached` (`OfferedReached`): in a tree without the
  errors that only a superuser bypasses every unit of level 1 names the country as its parent, so
  preprocessing searched the same files along the same codes.  `FlawlessIsValid` (`FlawlessValid`), from
  `FlawlessInv`: what is stored, or about to be, is of the flawless country if and only if it is in its
  tree, so no unit of another tree is near it.  `Below` and `Own` are recursive functions on levels, defined
  by `CHOOSE`; that their equations have a solution is proved (`SequenceExists`), and what holds of every level
  by the least level that would be an exception (`AllNumbers`).
* `Sharing_proofs`.  `TypeCorrect`, `RolesWhole` (`RoleWhole`), `ViewsFollowRoles` (`ViewsFollow`), `NobodyIsLeftOut`
  (`NobodyLeftOut`) and `CachedAnswersRight` (`CacheAgrees`), for any number of levels, views, changes and tile
  requests.  A change is a plan, a sequence of statements; every plan of the code removes first,
  assigns then and deletes cached answers last (`Ordered`), so what is left of a plan says what becomes
  of a set of permissions that nobody else changes (`Outcome`) and whether it is sure to give a
  permission or to delete answers (`Returns`, `Cleans`).  `TypesInv` carries that through every step.  On it rest
  four invariants: the permissions on the dataset are those of the intended role once the change
  under way is through (`DatasetInv`); each view has what follows from the role or a request comes to
  it, and what is at it is right (`ViewsInv`); a user who was given access has it or a request will
  give it (`SharedInv`); an answer held to be right is right or will be deleted (`CacheInv`).
  `NobodyLeftOut` is where the order of the code matters: the views are listed after the
  dataset's permissions are assigned, and a view looks for users after it is created.
* `ViewTiles_proofs`.  `TypeCorrect`, `TilesComeRight` (`TilesSettle`), `StatusComesRight` (`NothingLeftPending`),
  `ExportsComeRight` (`ExportsSettle`) and `ServedComeRight` (`ServedSettles`), for any number of privacy levels,
  entities and changes, which overlap as they like and of which, like the worker, any may die.
  The properties speak of rest; the invariants say what holds before.  `TasksInv`: a task is
  in one place (waiting, executed or ended), and whatever a row or a copy of it names as its
  task was queued.  `FollowedInv`: a revoked task is followed, that is, another task for its
  resource waits behind it, or the change that revoked it still has to queue one, or the
  resource is recorded as lost.  `CutInv`: a temporary directory that holds tiles while nobody seeds or moves
  it is recorded as cut off or strayed.  `TilesInv` and `FilesInv`: a resource for which nothing is owed is right as far as the
  generation at work on it has got, and only a worker that takes up a task discharges what is
  owed, since from then on it reads content and configuration anew.
  At rest nothing waits, so nothing is owed.  `ServedSettles` needs more: that the resource
  served, the highest that has anything at or below the user's level, holds all that is visible, which
  needs a greatest element of a set of levels (from the well-founded order of the library).
  The assumption says that there is a highest privacy level (`MAX_PRIVACY_LEVEL`) and that entities
  are finitely many.

TLC checked each inductive invariant on the constants of a run before it was proved (those of
`UploadReview_proofs` on `ReviewRivals` and `ReviewProgress`, those of `UploadSession_proofs` on `Session`, those of
`ConceptMatching_proofs` on `Concepts`, those of `Sharing_proofs` on `Sharing` and with three changes, `TreesInv` and `FlawlessInv` on `Validation`, those of `ViewTiles_proofs` on `Tiles`, completely, and on
the first millions of states of two larger instances whose overlapping changes may die).

Attempts to prove `VersionsFollowDates` and `MatchedCodes` showed premises that the small instance did not: uploads with one
and the same date, a country's own row with a code, and more uploads than versions can be halved for.  They are now stated.
`ConceptNumbers`, on the other hand, does not need a single first revision, which its premise used to ask for.

Only model-checked: every liveness property (`EventuallyPrepared`, `BatchFinishes`, `PreprocessingEnds`,
`VerdictComes`, `CacheSettles`): liveness under fairness and `ENABLED` are outside TLAPS's
reach, and so is induction over data.

## 5. Plan

Done: the review, its abstract specification and refinement; the session; the checks of
layer files; matching and codes; the version history; tiles and exports; sharing.  What
would add most next:

1. a composition of `UploadSession` and `LayerValidation`, so that a validation is killed between two
   units;
2. the paged lists and privacy filters of the public API while approvals run: what a client that reads
   page after page may miss or see twice.

## 6. Not modelled, and why

* `modules/boundary_lines`: the same entry points as `admin_boundaries`, but its approval cannot succeed:
  nothing in it sets `revised_geographical_entity`, so `approve_revision`
  (`boundary_lines/review.py:47-52`) passes None to `generate_concept_ucode`, which raises (`unique_code.py:377`);
* how GEOS and PostGIS compute areas, validity and simplification, and the text of SQL
  views: data;
* file formats, exporters' output, map styles, the wizard's upload of files: I/O without shared state;
* groups, superusers and access requests: one flag or one status each, changed by one
  statement; authentication: delegated to Azure AD and the framework;
* the lists, filters, searches and serializers of the dashboard and the public API (most of
  the lines of `georepo/api_views` and `dashboard/api_views`): they read what the modules
  here write and keep no state; translating their queries would restate the code line by
  line.  This is why the map covers a tenth of the implementation and not a third;
* data migrations and one-off patch tasks: not part of the running system.
