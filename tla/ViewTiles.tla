------------------------------ MODULE ViewTiles ------------------------------
(***************************************************************************)
(* The vector tiles and the exported files of a dataset view.  A view has  *)
(* one DatasetViewResource per privacy level, each with a directory of     *)
(* tiles and one of exported files.  An approval changes what the view     *)
(* selects, an administrator the tiling configuration; both then trigger a *)
(* generation of every resource (trigger_generate_vector_tile_for_view): a *)
(* generation that has not finished is revoked, a new one is queued, and   *)
(* its id is saved.  One worker with one process executes the generations  *)
(* in the order of the queue (generate_view_vector_tiles_task).            *)
(*                                                                         *)
(* Nothing is in a transaction: a step is one statement, or a group of     *)
(* statements nothing else looks between.  A generation and a trigger each *)
(* hold copies of resources and save them whole.                           *)
(*                                                                         *)
(* A tile is named by its place, an exported file by its admin level; a    *)
(* directory is the set of what its tiles (with the configuration they     *)
(* were drawn with) or its files contain, empty when it does not exist.    *)
(*                                                                         *)
(* An operator X_Y states the code of X with the mistake Y.                *)
(***************************************************************************)
EXTENDS Naturals, Sequences, FiniteSets

CONSTANTS
    Level,      \* privacy levels, MIN_PRIVACY_LEVEL .. MAX_PRIVACY_LEVEL
    Entity,     \* geographical entities the view may select
    PrivacyOf,  \* privacy_level of an entity
    PlaceOf,    \* the tile an entity is drawn in
    AdminOf,    \* its admin level
    First,      \* the entities of the view before any change
    Change,     \* approvals and changes of the tiling configuration
    Approval,   \* those that are approvals
    Retires,    \* the entities an approval takes out of the view
    Adds,       \* the entities it brings
    Setting,    \* what may happen: see setting
    None        \* no task id

Worker == "worker"

ASSUME TilesAssumption ==
    /\ \E top \in Level : Level \subseteq 1 .. top
    /\ IsFiniteSet(Entity) /\ PrivacyOf \in [Entity -> Level]
    /\ DOMAIN PlaceOf = Entity /\ DOMAIN AdminOf = Entity
    /\ First \subseteq Entity
    /\ Approval \subseteq Change
    /\ Retires \in [Approval -> SUBSET Entity]
    /\ Adds \in [Approval -> SUBSET Entity]
    /\ Setting \subseteq [changes : SUBSET Change, overlap : BOOLEAN,
                  mortal : SUBSET (Change \cup {Worker})]
    /\ None \notin Change \cup (Change \X Level)

VARIABLES
    setting,    \* bounds: the changes that are made, whether they overlap,
                \* and the processes of which one may be killed
    content,    \* the approved entities the SQL view selects
    config,     \* the tiling configuration: the change that made it, or none
    range,      \* min_privacy_level and max_privacy_level of the view
    row,        \* the DatasetViewResource rows
    live, temp, \* directories of tiles: <resource uuid>, temp_<resource uuid>
    files, tempFiles, \* directories of exported files
    queue,      \* the tasks that wait for the worker
    revoked,    \* the tasks that were revoked and have not ended
    ended,      \* the tasks whose result is ready
    worker,     \* the generation being executed
    change,     \* the changes
    killed,     \* whether a process was killed
    seeds,      \* tegola processes that outlived their generation
    lost,       \* history: resources whose refresh died with its process
    unexported, \* history: resources whose export was dropped
    cut,        \* history: resources that were left a temporary directory
    strayed     \* history: resources an outliving tegola wrote to

data == <<content, config>>
dirs == <<live, temp, files, tempFiles>>
tasks == <<queue, revoked, ended>>
faults == <<seeds, killed>>
history == <<lost, unexported, cut, strayed>>
vars == <<setting, data, range, row, dirs, tasks, worker, change, faults, history>>

-----------------------------------------------------------------------------
(* Values                                                                  *)

Original == "original"       \* the configuration before any change
NoConfig == "none"           \* no DatasetTilingConfig rows
Config == Change \cup {Original, NoConfig}

Task == Change \X Level      \* a change queues one task per resource
Exports(t) == t[1] \in Approval                  \* export_data

Status == {"Pending", "Processing", "Done", "Error"}
Row == [status : Status, task : Task \cup {None}, count : Nat]

Tile == Entity \X Config

\* What a resource may show, and what is counted for it.
Visible(r) == {e \in content : PrivacyOf[e] <= r}
Exact(r) == {e \in content : PrivacyOf[e] = r}

Places(r) == {PlaceOf[e] : e \in Visible(r)}
Admins(r) == {AdminOf[e] : e \in Visible(r)}

\* The tile of a place, drawn now: the query of a layer filters by level.
Drawn_AllLevels(r, p, c) == {<<e, c>> : e \in {x \in content : PlaceOf[x] = p}}

Drawn(r, p, c) == {<<e, c>> : e \in {x \in Visible(r) : PlaceOf[x] = p}}

\* The tiles of a directory at a place.
TileAt(T, p) == {x \in T : PlaceOf[x[1]] = p}

FileAt(F, l) == {e \in F : AdminOf[e] = l}

SetMax(S) == CHOOSE x \in S : \A y \in S : y <= x
SetMin(S) == CHOOSE x \in S : \A y \in S : x <= y

Idle == [pc |-> "idle", task |-> None, copy |-> None, config |-> NoConfig,
         count |-> 0, todo |-> {}]
Asleep == [pc |-> "idle", todo |-> {}, at |-> None, copy |-> None,
           range |-> None]
Finished == [Asleep EXCEPT !.pc = "done"]

Init ==
    /\ setting \in Setting
    /\ content = First /\ config = Original
    /\ range = [min |-> SetMin({PrivacyOf[e] : e \in First} \cup {SetMax(Level)}),
                max |-> SetMax({PrivacyOf[e] : e \in First} \cup {SetMin(Level)})]
    /\ row = [r \in Level |-> [status |-> "Done", task |-> None,
                               count |-> Cardinality(Exact(r))]]
    /\ live = [r \in Level |-> IF Exact(r) = {} THEN {}
                               ELSE Visible(r) \X {Original}]
    /\ files = [r \in Level |-> Visible(r)]
    /\ temp = [r \in Level |-> {}] /\ tempFiles = [r \in Level |-> {}]
    /\ queue = <<>> /\ revoked = {} /\ ended = {}
    /\ worker = Idle
    /\ change = [c \in Change |-> Asleep]
    /\ seeds = {} /\ killed = FALSE /\ lost = {} /\ unexported = {} /\ cut = {} /\ strayed = {}

-----------------------------------------------------------------------------
(* Changes of what is shown                                                *)

Begins(c) ==
    /\ c \in setting.changes
    /\ setting.overlap \/ \A d \in Change : change[d].pc \in {"idle", "done"}

Goes(c, from, to) ==
    change[c].pc = from /\ change' = [change EXCEPT ![c].pc = to]

\* approve_new_revision_upload: the old revision is no longer latest ...
Retire(c) ==
    /\ c \in Approval /\ Begins(c) /\ Goes(c, "idle", "begun")
    /\ content' = content \ Retires[c]
    /\ UNCHANGED <<config, range, row, dirs, tasks, worker, faults, history>>

\* ... and the new one is approved and latest.
Publish(c) ==
    /\ c \in Approval /\ Goes(c, "begun", "aggregate")
    /\ content' = content \cup Adds[c]
    /\ UNCHANGED <<config, range, row, dirs, tasks, worker, faults, history>>

\* init_view_privacy_level reads the levels of the view ...
ReadRange(c) ==
    /\ change[c].pc = "aggregate"
    /\ LET levels == {PrivacyOf[e] : e \in content}
       IN  change' = [change EXCEPT
             ![c].pc = IF content = {} THEN "resources" ELSE "range",
             ![c].range = IF content = {} THEN None
                          ELSE [min |-> SetMin(levels), max |-> SetMax(levels)]]
    /\ UNCHANGED <<data, range, row, dirs, tasks, worker, faults, history>>

\* ... and saves them, unless the view is empty.
SaveRange(c) ==
    /\ change[c].pc = "range"
    /\ range' = change[c].range
    /\ change' = [change EXCEPT ![c].pc = "resources", ![c].range = None]
    /\ UNCHANGED <<data, row, dirs, tasks, worker, faults, history>>

\* apply_to_dataset deletes the tiling configuration ...
DropConfig(c) ==
    /\ c \notin Approval /\ Begins(c) /\ Goes(c, "idle", "begun")
    /\ config' = NoConfig
    /\ UNCHANGED <<content, range, row, dirs, tasks, worker, faults, history>>

\* ... and creates the new one.
CreateConfig(c) ==
    /\ c \notin Approval /\ Goes(c, "begun", "resources")
    /\ config' = c
    /\ UNCHANGED <<content, range, row, dirs, tasks, worker, faults, history>>

-----------------------------------------------------------------------------
(* trigger_generate_vector_tile_for_view                                   *)

\* The loop goes over copies read at its start, to be saved as Pending.
ReadResources(c) ==
    /\ change[c].pc = "resources"
    /\ change' = [change EXCEPT ![c].pc = "loop", ![c].todo = Level,
             ![c].copy = [r \in Level |-> [row[r] EXCEPT !.status = "Pending"]]]
    /\ UNCHANGED <<data, range, row, dirs, tasks, worker, faults, history>>

\* A task that was revoked before it exported, by one that will not export.
Dropped(c, stopped) ==
    {t[2] : t \in {x \in stopped : Exports(x) /\ c \notin Approval}}

\* The generation named in the copy is stopped unless its result is ready;
\* the copy is saved as Pending.
Restart(c, r) ==
    LET copy == change[c].copy[r]
        stopped == {copy.task} \ ({None} \cup ended)
    IN  /\ change[c].pc = "loop" /\ r \in change[c].todo
        /\ change' = [change EXCEPT ![c].pc = "queue", ![c].at = r]
        /\ revoked' = revoked \cup stopped
        /\ row' = [row EXCEPT ![r] = copy]
        /\ unexported' = unexported \cup Dropped(c, stopped)
        /\ UNCHANGED <<data, range, dirs, queue, ended, worker, faults,
                       lost, cut, strayed>>

\* A generation that is under way is left alone, as it will do the same.
QueueTask_UnlessRunning(c) ==
    LET r == change[c].at
        t == <<c, r>>
        old == change[c].copy[r].task
    IN  /\ Goes(c, "queue", "name")
        /\ queue' = IF old # None /\ old \notin ended THEN queue
                    ELSE Append(queue, t)
        /\ lost' = lost \ {r}
        /\ unexported' = IF Exports(t) THEN unexported \ {r} ELSE unexported
        /\ UNCHANGED <<data, range, row, dirs, revoked, ended, worker, faults,
                       cut, strayed>>

QueueTask(c) ==
    LET r == change[c].at
        t == <<c, r>>
    IN  /\ Goes(c, "queue", "name")
        /\ queue' = Append(queue, t)
        /\ lost' = lost \ {r}
        /\ unexported' = IF Exports(t) THEN unexported \ {r} ELSE unexported
        /\ UNCHANGED <<data, range, row, dirs, revoked, ended, worker, faults,
                       cut, strayed>>

\* save(update_fields=['vector_tiles_task_id']), and the next resource
NextResource(c) ==
    LET r == change[c].at
        rest == change[c].todo \ {r}
    IN  change' = [change EXCEPT
          ![c] = IF rest = {} THEN Finished
                 ELSE [@ EXCEPT !.pc = "loop", !.todo = rest, !.at = None,
                                !.copy[r] = None]]

SaveTaskId_Whole(c) ==
    LET r == change[c].at
    IN  /\ change[c].pc = "name"
        /\ row' = [row EXCEPT ![r] = [change[c].copy[r] EXCEPT !.task = <<c, r>>]]
        /\ NextResource(c)
        /\ UNCHANGED <<data, range, dirs, tasks, worker, faults, history>>

SaveTaskId(c) ==
    LET r == change[c].at
    IN  /\ change[c].pc = "name"
        /\ row' = [row EXCEPT ![r].task = <<c, r>>]
        /\ NextResource(c)
        /\ UNCHANGED <<data, range, dirs, tasks, worker, faults, history>>

\* The resources a change has not queued a generation for
Unqueued(c) ==
    CASE change[c].pc \in {"idle", "done"} -> {}
      [] change[c].pc \in {"loop", "queue"} -> change[c].todo
      [] change[c].pc = "name" -> change[c].todo \ {change[c].at}
      [] OTHER -> Level

\* The process of a change is killed.
ChangeDies(c) ==
    /\ ~killed /\ c \in setting.mortal /\ change[c].pc \notin {"idle", "done"}
    /\ change' = [change EXCEPT ![c] = Finished]
    /\ lost' = lost \cup Unqueued(c)
    /\ unexported' = unexported \cup Unqueued(c)
    /\ killed' = TRUE
    /\ UNCHANGED <<data, range, row, dirs, tasks, worker, seeds, cut, strayed>>

-----------------------------------------------------------------------------
(* The worker: generate_view_vector_tiles                                  *)

Res == worker.task[2]

Ends(t) == ended' = ended \cup {t} /\ revoked' = revoked \ {t}

\* A task that was revoked while it waited is discarded.
Discard ==
    /\ worker = Idle /\ queue # <<>> /\ Head(queue) \in revoked
    /\ queue' = Tail(queue)
    /\ Ends(Head(queue))
    /\ UNCHANGED <<data, range, row, dirs, worker, change, faults, history>>

Pick ==
    /\ worker = Idle /\ queue # <<>> /\ Head(queue) \notin revoked
    /\ queue' = Tail(queue)
    /\ worker' = [Idle EXCEPT !.pc = "begin", !.task = Head(queue),
                              !.copy = [row[Head(queue)[2]] EXCEPT
                                          !.status = "Processing"]]
    /\ UNCHANGED <<data, range, row, dirs, revoked, ended, change, faults, history>>

At(from) == worker.pc = from

Save(status, count) ==
    row' = [row EXCEPT ![Res] = [worker.copy EXCEPT !.status = status,
                                                    !.count = count]]

\* The copy is saved; get_entities_count_in_view counts the entities of
\* exactly this level.
MarkProcessing ==
    /\ At("begin")
    /\ Save("Processing", worker.copy.count)
    /\ worker' = [worker EXCEPT !.pc = IF Exact(Res) = {} THEN "clear" ELSE "configure",
                                !.count = Cardinality(Exact(Res))]
    /\ UNCHANGED <<data, range, dirs, tasks, change, faults, history>>

\* create_view_configuration_files, and the bounds of what is visible
Configure ==
    /\ At("configure")
    /\ worker' = [worker EXCEPT
         !.pc = IF config = NoConfig \/ Visible(Res) = {} THEN "clear" ELSE "seed",
         !.config = config, !.todo = Places(Res)]
    /\ UNCHANGED <<data, range, row, dirs, tasks, change, faults, history>>

\* No entities or no configuration: the tiles are removed.
ClearTiles ==
    /\ At("clear")
    /\ live' = [live EXCEPT ![Res] = {}]
    /\ worker' = [worker EXCEPT !.pc = "save"]
    /\ UNCHANGED <<data, range, row, temp, files, tempFiles, tasks, change,
                   faults, history>>

\* tegola writes the tile of a place, over one that is there.
SeedTile(p) ==
    /\ At("seed") /\ p \in worker.todo
    /\ temp' = [temp EXCEPT ![Res] = (@ \ TileAt(@, p))
                                       \cup Drawn(Res, p, worker.config)]
    /\ worker' = [worker EXCEPT !.todo = @ \ {p}]
    /\ UNCHANGED <<data, range, row, live, files, tempFiles, tasks, change,
                   faults, history>>

\* tegola has finished: the progress is saved with all columns, and
\* post_process_vector_tiles removes the live directory ...
RemoveTiles ==
    /\ At("seed") /\ worker.todo = {}
    /\ Save("Processing", worker.copy.count)
    /\ live' = [live EXCEPT ![Res] = {}]
    /\ worker' = [worker EXCEPT !.pc = "move"]
    /\ UNCHANGED <<data, range, temp, files, tempFiles, tasks, change,
                   faults, history>>

\* ... and the temporary one moved to its place.
MoveTiles ==
    /\ At("move")
    /\ live' = [live EXCEPT ![Res] = temp[Res]]
    /\ temp' = [temp EXCEPT ![Res] = {}]
    /\ worker' = [worker EXCEPT !.pc = "save"]
    /\ UNCHANGED <<data, range, row, files, tempFiles, tasks, change, faults,
                   history>>

SaveSuccess_KeepCount ==
    /\ At("save")
    /\ Save("Done", worker.copy.count)
    /\ IF Exports(worker.task)
       THEN /\ worker' = [Idle EXCEPT !.pc = "levels", !.task = worker.task]
            /\ UNCHANGED <<ended, revoked>>
       ELSE worker' = Idle /\ Ends(worker.task)
    /\ UNCHANGED <<data, range, dirs, queue, change, faults, history>>

\* save_view_resource_on_success; a task without export_data ends here.
SaveSuccess ==
    /\ At("save")
    /\ Save("Done", worker.count)
    /\ IF Exports(worker.task)
       THEN /\ worker' = [Idle EXCEPT !.pc = "levels", !.task = worker.task]
            /\ UNCHANGED <<ended, revoked>>
       ELSE worker' = Idle /\ Ends(worker.task)
    /\ UNCHANGED <<data, range, dirs, queue, change, faults, history>>

-----------------------------------------------------------------------------
(* The worker: exports                                                     *)

\* init_exporter reads the admin levels that are visible now; a resource
\* that shows nothing is left out, with the files it has.
WritesFiles(levels) ==
    IF levels = {}
    THEN worker' = Idle /\ Ends(worker.task)
    ELSE /\ worker' = [worker EXCEPT !.pc = "write", !.todo = levels]
         /\ UNCHANGED <<ended, revoked>>

ReadLevels_Exact ==
    /\ At("levels") /\ WritesFiles({AdminOf[e] : e \in Exact(Res)})
    /\ UNCHANGED <<data, range, row, dirs, queue, change, faults, history>>

ReadLevels ==
    /\ At("levels") /\ WritesFiles(Admins(Res))
    /\ UNCHANGED <<data, range, row, dirs, queue, change, faults, history>>

\* do_export writes the file of a level, unless nothing is left of it.
WriteFile(l) ==
    LET now == FileAt(Visible(Res), l)
    IN  /\ At("write") /\ l \in worker.todo
        /\ tempFiles' = IF now = {} THEN tempFiles
                        ELSE [tempFiles EXCEPT ![Res] = (@ \ FileAt(@, l)) \cup now]
        /\ worker' = [worker EXCEPT !.todo = @ \ {l}]
        /\ UNCHANGED <<data, range, row, live, temp, files, tasks, change,
                       faults, history>>

RemoveFiles ==
    /\ At("write") /\ worker.todo = {}
    /\ files' = [files EXCEPT ![Res] = {}]
    /\ worker' = [worker EXCEPT !.pc = "moveFiles"]
    /\ UNCHANGED <<data, range, row, live, temp, tempFiles, tasks, change,
                   faults, history>>

MoveFiles ==
    /\ At("moveFiles")
    /\ files' = [files EXCEPT ![Res] = tempFiles[Res]]
    /\ tempFiles' = [tempFiles EXCEPT ![Res] = {}]
    /\ worker' = Idle /\ Ends(worker.task)
    /\ UNCHANGED <<data, range, row, live, temp, queue, change, faults, history>>

-----------------------------------------------------------------------------
(* The worker: a generation that does not reach its end                    *)

\* What the directories keep of it
Abandoned ==
    /\ worker' = Idle
    /\ Ends(worker.task)
    /\ cut' = IF temp[Res] # {} THEN cut \cup {Res} ELSE cut

\* tegola fails: the resource is saved with an error and the task raises.
SeedFails ==
    /\ At("seed")
    /\ Save("Error", worker.copy.count)
    /\ Abandoned
    /\ unexported' = IF Exports(worker.task) THEN unexported \cup {Res} ELSE unexported
    /\ UNCHANGED <<data, range, dirs, queue, change, faults, lost, strayed>>

\* tegola is a process of its own, which nobody tells to stop.
Outlives == seeds' = IF At("seed") THEN seeds \cup {<<Res, worker.config>>} ELSE seeds

\* The signal of a revocation reaches the process sooner or later.
Kill ==
    /\ worker # Idle /\ worker.task \in revoked
    /\ Abandoned /\ Outlives
    /\ UNCHANGED <<data, range, row, dirs, queue, change, killed,
                   lost, unexported, strayed>>

WorkerDies ==
    /\ ~killed /\ Worker \in setting.mortal /\ worker # Idle
    /\ killed' = TRUE
    /\ Abandoned /\ Outlives
    /\ lost' = lost \cup {Res}
    /\ unexported' = IF Exports(worker.task) THEN unexported \cup {Res} ELSE unexported
    /\ UNCHANGED <<data, range, row, dirs, queue, change, strayed>>

\* A tegola that outlived its generation writes into the directory the next
\* one fills.
StraySeed(s, p) ==
    /\ s \in seeds
    /\ temp' = [temp EXCEPT ![s[1]] = (@ \ TileAt(@, p)) \cup Drawn(s[1], p, s[2])]
    /\ seeds' = seeds \ {s}
    /\ strayed' = strayed \cup {s[1]}
    /\ UNCHANGED <<data, range, row, live, files, tempFiles, tasks, worker, change,
                   killed, lost, unexported, cut>>

-----------------------------------------------------------------------------
(* Specification                                                           *)

ChangeStep(c) ==
    \/ Publish(c) \/ ReadRange(c) \/ SaveRange(c) \/ CreateConfig(c)
    \/ ReadResources(c) \/ \E r \in Level : Restart(c, r)
    \/ QueueTask(c) \/ SaveTaskId(c)

WorkerStep ==
    \/ Discard \/ Pick
    \/ MarkProcessing \/ Configure \/ ClearTiles
    \/ \E p \in worker.todo : SeedTile(p)
    \/ RemoveTiles \/ MoveTiles \/ SaveSuccess
    \/ ReadLevels \/ \E l \in worker.todo : WriteFile(l)
    \/ RemoveFiles \/ MoveFiles

Next ==
    \/ \E c \in Change : Retire(c) \/ DropConfig(c) \/ ChangeStep(c) \/ ChangeDies(c)
    \/ WorkerStep \/ SeedFails \/ Kill \/ WorkerDies
    \/ \E s \in seeds : \E p \in Places(s[1]) : StraySeed(s, p)

Spec == Init /\ [][Next /\ UNCHANGED setting]_vars

-----------------------------------------------------------------------------
(* Properties                                                              *)

\* Every variable keeps its type; the directories of a resource have nothing
\* above its level, whatever was left in them or written by whom.
TypeOK ==
    /\ content \subseteq Entity /\ config \in Config
    /\ range \in [min : Level, max : Level]
    /\ row \in [Level -> Row]
    /\ \A r \in Level :
         /\ live[r] \cup temp[r] \subseteq Tile
         /\ \A x \in live[r] \cup temp[r] : PrivacyOf[x[1]] <= r
         /\ \A e \in files[r] \cup tempFiles[r] : e \in Entity /\ PrivacyOf[e] <= r
    /\ queue \in Seq(Task) /\ revoked \cup ended \subseteq Task
    /\ seeds \subseteq Level \X Config
    /\ lost \cup unexported \cup cut \cup strayed \subseteq Level

\* No change is being made, and nothing is queued or under way for r.
Settled(r) ==
    /\ \A c \in Change : change[c].pc \in {"idle", "done"}
    /\ \A i \in DOMAIN queue : queue[i][2] # r
    /\ worker # Idle => Res # r

\* When everything has come to rest, a resource that is Done shows what the
\* view selects with the configuration that is set: revoking and queueing
\* again never loses the last generation, however triggers, revocations and
\* the worker interleave.  Excepted are resources whose refresh died, until
\* the next one, and what an outliving tegola wrote to.
TilesSettle ==
    \A r \in Level :
      Settled(r) /\ row[r].status = "Done" /\ r \notin lost \cup strayed =>
        IF Exact(r) = {} \/ config = NoConfig
        THEN live[r] = {}
        ELSE /\ \A p \in Places(r) : TileAt(live[r], p) = Drawn(r, p, config)
             /\ r \notin cut => live[r] \subseteq Visible(r) \X {config}

\* get_resource_level_for_user, get_view_resource_from_view: the tiles a user
\* of privacy level u is shown
ServedResources(u) ==
    LET top == IF range.max <= u THEN range.max ELSE u
    IN  {r \in Level : r <= top /\ row[r].count > 0}

\* A user of any level is then shown all that is visible at the level, although
\* tiles are only made for levels that entities have, and the highest level
\* the view has limits the user's.
ServedSettles ==
    \A u \in Level :
      /\ config # NoConfig /\ Visible(u) # {}
      /\ range.max = SetMax({PrivacyOf[e] : e \in content})
      /\ \A r \in Level : Settled(r) /\ row[r].status = "Done" /\ r \notin lost
      => /\ ServedResources(u) # {}
         /\ Visible(SetMax(ServedResources(u))) = Visible(u)

\* When everything has come to rest, the files a user downloads, one for each
\* admin level of what the view selects, are those of the current content;
\* unless the generation that was to write them was dropped for one that only
\* renews the tiles, or died or failed, and none with an export followed.
ExportsSettle ==
    \A r \in Level :
      Settled(r) /\ r \notin unexported =>
        \A l \in Admins(r) : FileAt(files[r], l) = FileAt(Visible(r), l)

\* When everything has come to rest, no resource is left Pending or Processing,
\* although triggers and the worker save whole rows over each other: its last
\* generation was Done or failed, or died.
NothingLeftPending ==
    \A r \in Level :
      Settled(r) /\ r \notin lost => row[r].status \in {"Done", "Error"}
=============================================================================
