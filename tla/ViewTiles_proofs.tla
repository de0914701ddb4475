-------------------------- MODULE ViewTiles_proofs --------------------------
(***************************************************************************)
(* Tiles and exported files for any number of privacy levels, entities,    *)
(* approvals and changes of the configuration, overlapping as they like,   *)
(* and whichever process is killed: at rest they are those of the view.    *)
(***************************************************************************)
EXTENDS ViewTiles, FiniteSetTheorems, SequenceTheorems, WellFoundedInduction, TLAPS

-----------------------------------------------------------------------------
(* The invariants                                                          *)

Bounds == [min : Level, max : Level]
Spot == {PlaceOf[e] : e \in Entity} \cup {AdminOf[e] : e \in Entity}
Generating == {"begin", "configure", "clear", "seed", "move", "save"}
Exporting == {"levels", "write", "moveFiles"}
Triggering == {"loop", "queue", "name"}
Aside == {"idle", "done"}

ViewTypes == content \subseteq Entity /\ config \in Config /\ range \in Bounds

\* The directories of a resource hold nothing above its level.
TileDir(dir) ==
    dir \in [Level -> SUBSET Tile] /\ \A r \in Level : \A x \in dir[r] : PrivacyOf[x[1]] <= r

FileDir(dir) ==
    dir \in [Level -> SUBSET Entity] /\ \A r \in Level : \A e \in dir[r] : PrivacyOf[e] <= r

DirTypes == TileDir(live) /\ TileDir(temp) /\ FileDir(files) /\ FileDir(tempFiles)

TaskTypes ==
    /\ queue \in Seq(Task) /\ revoked \subseteq Task /\ ended \subseteq Task
    /\ seeds \subseteq Level \X Config
    /\ lost \cup unexported \cup cut \cup strayed \subseteq Level

ChangeState ==
    [pc : {"begun", "aggregate", "range", "resources"} \cup Aside \cup Triggering,
     todo : SUBSET Level, at : Level \cup {None},
     copy : {None} \cup [Level -> Row \cup {None}], range : {None} \cup Bounds]

ChangeSound(v) ==
    /\ v \in ChangeState
    /\ v.pc = "range" => v.range \in Bounds
    /\ v.pc \in Triggering =>
         v.copy \in [Level -> Row \cup {None}] /\ \A r \in v.todo : v.copy[r] \in Row
    /\ v.pc \in {"queue", "name"} => v.at \in v.todo

ChangeTypes == DOMAIN change = Change /\ \A c \in Change : ChangeSound(change[c])

WorkerState ==
    [pc : {"idle"} \cup Generating \cup Exporting, task : Task \cup {None},
     copy : Row \cup {None}, config : Config, count : Nat, todo : SUBSET Spot]

WorkerSound(w) ==
    /\ w \in WorkerState
    /\ w.pc = "idle" => w = Idle
    /\ w.pc # "idle" => w.task \in Task
    /\ w.pc \in Generating => w.copy \in Row

TypesInv ==
    /\ ViewTypes /\ DirTypes /\ TaskTypes
    /\ ChangeTypes /\ WorkerSound(worker)
    /\ row \in [Level -> Row]

\* The row of r, or a copy of it that is to be saved, says that t generates r.
CopyNames(c, r, t) ==
    \/ change[c].pc \in Triggering /\ r \in change[c].todo /\ change[c].copy[r].task = t
    \/ change[c].pc = "name" /\ r = change[c].at /\ t = <<c, r>>

WorkNames(r, t) == worker.pc \in Generating /\ Res = r /\ worker.copy.task = t

Names(r, t) == row[r].task = t \/ WorkNames(r, t) \/ \E c \in Change : CopyNames(c, r, t)

\* A task that was queued waits, is executed, or has ended.
Located(t) ==
    \/ t \in ended \/ worker.task = t
    \/ \E i \in DOMAIN queue : queue[i] = t

\* c has not queued its task for r yet.
Unborn(c, r) == change[c].pc = "idle" \/ r \in Unqueued(c)

\* A task is in one place; those that are named or revoked were queued.
TasksInv ==
    /\ \A r \in Level : \A t \in Task : Names(r, t) => Located(t) /\ t[2] = r
    /\ \A c \in Change : \A r \in Level : Unborn(c, r) => ~ Located(<<c, r>>)
    /\ \A i, j \in DOMAIN queue : queue[i] = queue[j] => i = j
    /\ \A i \in DOMAIN queue : queue[i] # worker.task /\ queue[i] \notin ended
    /\ worker.task \notin ended
    /\ \A t \in revoked : t \notin ended /\ Located(t)

Kind == {"tiles", "files"}
Makers(k) == IF k = "tiles" THEN Change ELSE Approval
Missing(k) == IF k = "tiles" THEN lost ELSE unexported

Pending(k, r) == \E c \in Makers(k) : r \in Unqueued(c)
Coming(k, r) ==
    \E i \in DOMAIN queue :
      queue[i][1] \in Makers(k) /\ queue[i][2] = r /\ queue[i] \notin revoked

\* The tiles or files of r will be made again, or are known to be missing.
Owed(k, r) == Pending(k, r) \/ Coming(k, r) \/ r \in Missing(k)

\* Another task for the same resource waits behind t.
Followed(k, t) ==
    \E j \in DOMAIN queue :
      /\ queue[j][1] \in Makers(k) /\ queue[j][2] = t[2] /\ queue[j] \notin revoked
      /\ \A i \in DOMAIN queue : queue[i] = t => i < j

FollowedInv ==
    \A k \in Kind, t \in revoked : t[1] \in Makers(k) =>
      Pending(k, t[2]) \/ t[2] \in Missing(k) \/ Followed(k, t)

Empty(r) == Exact(r) = {} \/ config = NoConfig

Shown(r) ==
    IF Empty(r) THEN live[r] = {}
    ELSE /\ \A p \in Places(r) : TileAt(live[r], p) = Drawn(r, p, config)
         /\ r \notin cut => live[r] \subseteq Visible(r) \X {config}

CutInv ==
    \A r \in Level :
      \/ temp[r] = {} \/ r \in cut \cup strayed
      \/ worker.pc \in {"seed", "move"} /\ Res = r

Works(r) == worker.pc \in Generating /\ Res = r

\* How far the generation of r has got, and that it is right so far
Seeded(r) ==
    /\ ~ Empty(r) /\ worker.config = config
    /\ r \notin strayed =>
         /\ \A p \in Places(r) \ worker.todo : TileAt(temp[r], p) = Drawn(r, p, config)
         /\ r \notin cut => temp[r] \subseteq Visible(r) \X {config}

Progress(r) ==
    /\ worker.pc # "begin" => worker.count = Cardinality(Exact(r))
    /\ worker.pc = "configure" => Exact(r) # {}
    /\ worker.pc = "clear" => Empty(r)
    /\ worker.pc = "seed" => Seeded(r)
    /\ worker.pc = "move" => Seeded(r) /\ worker.todo = {}
    /\ worker.pc = "save" => r \in strayed \/ Shown(r)

Made(r) ==
    /\ row[r].status = "Done" /\ row[r].count = Cardinality(Exact(r))
    /\ r \in strayed \/ Shown(r)

TilesRight(r) ==
    \/ Works(r) /\ Progress(r)
    \/ ~ Works(r) /\ (row[r].status = "Error" \/ Made(r))

\* A resource nothing more is owed to is right, as far as it has got.
TilesInv == \A r \in Level : Owed("tiles", r) \/ TilesRight(r)

FilesAre(F, r) == \A l \in Admins(r) : FileAt(F[r], l) = FileAt(Visible(r), l)

WillExport(r) == worker.pc # "idle" /\ Res = r /\ Exports(worker.task)

Exported(r) ==
    /\ worker.pc \in {"write", "moveFiles"} =>
         \A l \in Admins(r) \ worker.todo : FileAt(tempFiles[r], l) = FileAt(Visible(r), l)
    /\ worker.pc = "moveFiles" => worker.todo = {}

FilesRight(r) ==
    \/ WillExport(r) /\ Exported(r)
    \/ ~ WillExport(r) /\ FilesAre(files, r)

FilesInv ==
    /\ worker.pc \in Exporting => Exports(worker.task)
    /\ \A r \in Level : Owed("files", r) \/ FilesRight(r)

-----------------------------------------------------------------------------
(* The highest and the lowest of some levels                               *)

\* Some natural numbers have a least one.
LEMMA LeastExists ==
    ASSUME NEW S, S \subseteq Nat, S # {}
    PROVE  \E m \in S : \A y \in S : m <= y
<1>1. PICK m \in S : \A y \in S : ~ (<<y, m>> \in OpToRel(<, Nat))
    BY NatLessThanWellFounded, WFMin
<1>2. \A y \in S : ~ (y < m)
    BY <1>1 DEF OpToRel
<1> QED BY <1>2

\* Some levels have a highest and a lowest one.
LEMMA ExtremesExist ==
    ASSUME NEW S, S \subseteq Level, S # {}
    PROVE  /\ SetMax(S) \in S /\ \A y \in S : y <= SetMax(S)
           /\ SetMin(S) \in S /\ \A y \in S : SetMin(S) <= y
<1>1. PICK top \in Level : Level \subseteq 1 .. top
    BY TilesAssumption
<1>2. S \subseteq Nat /\ top \in Nat /\ \A y \in S : y <= top
    BY <1>1, TilesAssumption
<1>3. \E m \in S : \A y \in S : m <= y
    BY <1>2, LeastExists
<1> DEFINE D == {top - y : y \in S}
<1>4. D \subseteq Nat /\ D # {}
  <2>1. ASSUME NEW y \in S PROVE top - y \in Nat
      BY <1>2
  <2> QED BY <2>1
<1>5. PICK d \in D : \A e \in D : d <= e
    BY <1>4, LeastExists
<1>6. \E m \in S : \A y \in S : y <= m
  <2>1. PICK m \in S : d = top - m
      BY <1>5
  <2>2. \A y \in S : top - m <= top - y
      BY <1>5, <2>1
  <2> QED BY <2>1, <2>2, <1>2
<1>7. SetMax(S) \in S /\ \A y \in S : y <= SetMax(S)
    BY <1>6 DEF SetMax
<1>8. SetMin(S) \in S /\ \A y \in S : SetMin(S) <= y
    BY <1>3 DEF SetMin
<1> QED BY <1>7, <1>8

-----------------------------------------------------------------------------
(* What the operators of the model return                                  *)

\* What is visible at a level, and the entities of exactly that level
LEMMA ViewFacts ==
    ASSUME ViewTypes, NEW r \in Level
    PROVE  /\ Visible(r) \subseteq Entity /\ Exact(r) \subseteq Visible(r)
           /\ \A e \in Visible(r) : PrivacyOf[e] \in Level /\ PrivacyOf[e] <= r
           /\ Cardinality(Exact(r)) \in Nat
           /\ Cardinality(Exact(r)) > 0 <=> Exact(r) # {}
           /\ Places(r) \subseteq Spot /\ Admins(r) \subseteq Spot
<1>1. r \in Nat
    BY TilesAssumption
<1>2. Visible(r) \subseteq Entity /\ Exact(r) \subseteq Visible(r)
    BY <1>1, TilesAssumption DEF ViewTypes, Visible, Exact
<1>3. \A e \in Visible(r) : PrivacyOf[e] \in Level /\ PrivacyOf[e] <= r
    BY <1>2, TilesAssumption DEF Visible
<1>4. IsFiniteSet(Exact(r))
    BY <1>2, FS_Subset, TilesAssumption
<1>5. Cardinality(Exact(r)) \in Nat /\ (Cardinality(Exact(r)) = 0 <=> Exact(r) = {})
    BY <1>4, FS_CardinalityType, FS_EmptySet
<1>6. Places(r) \subseteq Spot /\ Admins(r) \subseteq Spot
    BY <1>2 DEF Places, Admins, Spot
<1> QED BY <1>2, <1>3, <1>5, <1>6

\* The tiles of a place that is drawn, and of the other places
LEMMA DrawnFacts ==
    ASSUME ViewTypes, NEW r \in Level, NEW c \in Config, NEW p, NEW T
    PROVE  LET new == (T \ TileAt(T, p)) \cup Drawn(r, p, c)
           IN  /\ Drawn(r, p, c) \subseteq Visible(r) \X {c}
               /\ TileAt(new, p) = Drawn(r, p, c)
               /\ \A q : q # p => TileAt(new, q) = TileAt(T, q)
<1> DEFINE new == (T \ TileAt(T, p)) \cup Drawn(r, p, c)
<1>1. Drawn(r, p, c) \subseteq Visible(r) \X {c}
    BY DEF Drawn
<1>2. \A x \in Drawn(r, p, c) : PlaceOf[x[1]] = p
    BY DEF Drawn
<1>3. TileAt(new, p) = Drawn(r, p, c)
    BY <1>2 DEF TileAt
<1>4. \A q : q # p => TileAt(new, q) = TileAt(T, q)
    BY <1>2 DEF TileAt
<1> QED BY <1>1, <1>3, <1>4

\* Saving a directory of tiles that are not above the level of its resource
LEMMA TileDirExcept ==
    ASSUME NEW dir, TileDir(dir), NEW r \in Level, NEW T \in SUBSET Tile,
           \A x \in T : PrivacyOf[x[1]] <= r
    PROVE  TileDir([dir EXCEPT ![r] = T])
BY DEF TileDir

LEMMA FileDirExcept ==
    ASSUME NEW dir, FileDir(dir), NEW r \in Level, NEW F \in SUBSET Entity,
           \A e \in F : PrivacyOf[e] <= r
    PROVE  FileDir([dir EXCEPT ![r] = F])
BY DEF FileDir

\* What is drawn is of its level, whatever was left in the directory.
LEMMA DrawnKept ==
    ASSUME ViewTypes, NEW dir, TileDir(dir), NEW r \in Level, NEW c \in Config, NEW p
    PROVE  TileDir([dir EXCEPT ![r] = (@ \ TileAt(@, p)) \cup Drawn(r, p, c)])
<1> DEFINE T == (dir[r] \ TileAt(dir[r], p)) \cup Drawn(r, p, c)
<1>1. Drawn(r, p, c) \subseteq Visible(r) \X {c}
    BY DrawnFacts
<1>2. Drawn(r, p, c) \subseteq Tile /\ \A x \in Drawn(r, p, c) : PrivacyOf[x[1]] <= r
    BY <1>1, ViewFacts DEF Tile
<1>3. T \subseteq Tile /\ \A x \in T : PrivacyOf[x[1]] <= r
    BY <1>2 DEF TileDir
<1>4. TileDir([dir EXCEPT ![r] = T])
    BY <1>3, TileDirExcept
<1> QED BY <1>4

\* Saving one change, and what it becomes when it has finished
LEMMA ChangeExcept ==
    ASSUME ChangeTypes, NEW c \in Change, NEW v, ChangeSound(v),
           change' = [change EXCEPT ![c] = v]
    PROVE  ChangeTypes' /\ change'[c] = v /\ \A d \in Change \ {c} : change'[d] = change[d]
<1>1. DOMAIN change' = Change /\ change'[c] = v /\ \A d \in Change \ {c} : change'[d] = change[d]
    BY DEF ChangeTypes
<1>2. \A d \in Change : ChangeSound(change'[d])
    BY <1>1 DEF ChangeTypes
<1> QED BY <1>1, <1>2 DEF ChangeTypes, ChangeSound, ChangeState, Row, Bounds, Task

LEMMA FinishedSound == ChangeSound(Finished) /\ ChangeSound(Asleep) /\ Finished.pc = "done"
BY DEF ChangeSound, ChangeState, Finished, Asleep, Aside, Triggering

LEMMA IdleSound == WorkerSound(Idle)
BY DEF WorkerSound, WorkerState, Idle, Generating, Exporting, Config

-----------------------------------------------------------------------------
(* The types: the first states, and the steps of a change                  *)

LEMMA TypesInit == Init => TypesInv
<1> SUFFICES ASSUME Init PROVE TypesInv
    OBVIOUS
<1>1. Level # {} /\ SetMin(Level) \in Level /\ SetMax(Level) \in Level
    BY ExtremesExist, TilesAssumption
<1>2. ViewTypes
  <2>1. {PrivacyOf[e] : e \in First} \subseteq Level
      BY TilesAssumption
  <2>2. /\ SetMin({PrivacyOf[e] : e \in First} \cup {SetMax(Level)}) \in Level
        /\ SetMax({PrivacyOf[e] : e \in First} \cup {SetMin(Level)}) \in Level
      BY <1>1, <2>1, ExtremesExist
  <2>3. range \in Bounds
      BY <2>2 DEF Init, Bounds
  <2> QED BY <2>3, TilesAssumption DEF Init, ViewTypes, Config
<1>3. row \in [Level -> Row]
  <2>1. \A r \in Level : Cardinality(Exact(r)) \in Nat
      BY <1>2, ViewFacts
  <2>2. \A r \in Level : [status |-> "Done", task |-> None, count |-> Cardinality(Exact(r))] \in Row
      BY <2>1 DEF Row, Status
  <2> QED BY <2>2 DEF Init
<1>4. DirTypes
  <2>1. \A r \in Level : Visible(r) \subseteq Entity /\ \A e \in Visible(r) : PrivacyOf[e] <= r
      BY <1>2, ViewFacts
  <2>2. TileDir(live)
    <3>1. \A r \in Level : live[r] \subseteq Visible(r) \X {Original}
        BY DEF Init
    <3>2. live \in [Level -> SUBSET Tile]
        BY <2>1, <3>1 DEF Init, Tile, Config
    <3> QED BY <2>1, <3>1, <3>2 DEF TileDir
  <2>3. FileDir(files)
      BY <2>1 DEF Init, FileDir
  <2>4. TileDir(temp) /\ FileDir(tempFiles)
      BY DEF Init, TileDir, FileDir
  <2> QED BY <2>2, <2>3, <2>4 DEF DirTypes
<1>5. TaskTypes
    BY DEF Init, TaskTypes
<1>6. ChangeTypes
    BY FinishedSound DEF Init, ChangeTypes
<1>7. WorkerSound(worker)
    BY IdleSound DEF Init
<1> QED BY <1>2, <1>3, <1>4, <1>5, <1>6, <1>7 DEF TypesInv

\* A change of the view whose trigger has not begun keeps its record sound.
LEMMA PcSound ==
    ASSUME NEW v, ChangeSound(v), NEW pc \in {"begun", "aggregate", "resources"}
    PROVE  ChangeSound([v EXCEPT !.pc = pc])
BY DEF ChangeSound, ChangeState, Triggering, Aside

\* A step to the next position of a change, all else of it the same
LEMMA GoesTypes ==
    ASSUME ChangeTypes, NEW c \in Change, NEW from, NEW to \in {"begun", "aggregate", "resources"},
           Goes(c, from, to)
    PROVE  ChangeTypes' /\ change'[c].pc = to /\ \A d \in Change \ {c} : change'[d] = change[d]
<1> DEFINE v == [change[c] EXCEPT !.pc = to]
<1>1. ChangeSound(change[c])
    BY DEF ChangeTypes
<1>2. ChangeSound(v) /\ v.pc = to
    BY <1>1, PcSound DEF ChangeSound, ChangeState
<1>3. change' = [change EXCEPT ![c] = v]
    BY DEF Goes
<1> HIDE DEF v
<1> QED BY <1>2, <1>3, ChangeExcept

\* What the steps leave alone keeps its type.
LEMMA ViewKept ==
    ASSUME ViewTypes, UNCHANGED <<data, range>> PROVE ViewTypes'
BY DEF ViewTypes, data

LEMMA DirKept ==
    ASSUME DirTypes, UNCHANGED dirs PROVE DirTypes'
BY DEF DirTypes, TileDir, FileDir, dirs, Tile

LEMMA TaskKept ==
    ASSUME TaskTypes, UNCHANGED <<tasks, seeds, history>> PROVE TaskTypes'
BY DEF TaskTypes, tasks, history, Task

LEMMA ChangeKept ==
    ASSUME ChangeTypes, UNCHANGED change PROVE ChangeTypes'
BY DEF ChangeTypes, ChangeSound, ChangeState, Row, Bounds, Task

LEMMA WorkerKept ==
    ASSUME WorkerSound(worker), UNCHANGED worker PROVE WorkerSound(worker)'
BY DEF WorkerSound

\* The steps that change what the view selects, or its configuration
LEMMA RetireTypes ==
    ASSUME TypesInv, NEW c \in Change, Retire(c) PROVE TypesInv'
<1>1. ViewTypes'
    BY DEF TypesInv, ViewTypes, Retire
<1>2. ChangeTypes'
    BY GoesTypes DEF TypesInv, Retire
<1>3. DirTypes' /\ TaskTypes' /\ WorkerSound(worker)' /\ (row \in [Level -> Row])'
    BY DirKept, TaskKept, WorkerKept DEF TypesInv, Retire, faults
<1> QED BY <1>1, <1>2, <1>3 DEF TypesInv

LEMMA PublishTypes ==
    ASSUME TypesInv, NEW c \in Change, Publish(c) PROVE TypesInv'
<1>1. ViewTypes'
    BY TilesAssumption DEF TypesInv, ViewTypes, Publish
<1>2. ChangeTypes'
    BY GoesTypes DEF TypesInv, Publish
<1>3. DirTypes' /\ TaskTypes' /\ WorkerSound(worker)' /\ (row \in [Level -> Row])'
    BY DirKept, TaskKept, WorkerKept DEF TypesInv, Publish, faults
<1> QED BY <1>1, <1>2, <1>3 DEF TypesInv

LEMMA DropConfigTypes ==
    ASSUME TypesInv, NEW c \in Change, DropConfig(c) PROVE TypesInv'
<1>1. ViewTypes'
    BY DEF TypesInv, ViewTypes, DropConfig, Config
<1>2. ChangeTypes'
    BY GoesTypes DEF TypesInv, DropConfig
<1>3. DirTypes' /\ TaskTypes' /\ WorkerSound(worker)' /\ (row \in [Level -> Row])'
    BY DirKept, TaskKept, WorkerKept DEF TypesInv, DropConfig, faults
<1> QED BY <1>1, <1>2, <1>3 DEF TypesInv

LEMMA CreateConfigTypes ==
    ASSUME TypesInv, NEW c \in Change, CreateConfig(c) PROVE TypesInv'
<1>1. ViewTypes'
    BY DEF TypesInv, ViewTypes, CreateConfig, Config
<1>2. ChangeTypes'
    BY GoesTypes DEF TypesInv, CreateConfig
<1>3. DirTypes' /\ TaskTypes' /\ WorkerSound(worker)' /\ (row \in [Level -> Row])'
    BY DirKept, TaskKept, WorkerKept DEF TypesInv, CreateConfig, faults
<1> QED BY <1>1, <1>2, <1>3 DEF TypesInv

LEMMA ReadRangeTypes ==
    ASSUME TypesInv, NEW c \in Change, ReadRange(c) PROVE TypesInv'
<1> DEFINE levels == {PrivacyOf[e] : e \in content}
           bounds == [min |-> SetMin(levels), max |-> SetMax(levels)]
           v == [change[c] EXCEPT !.pc = IF content = {} THEN "resources" ELSE "range",
                                  !.range = IF content = {} THEN None ELSE bounds]
<1>1. ChangeSound(change[c])
    BY DEF TypesInv, ChangeTypes
<1>2. content # {} => bounds \in Bounds
  <2>1. levels \subseteq Level /\ (content # {} => levels # {})
      BY TilesAssumption DEF TypesInv, ViewTypes
  <2>2. content # {} => SetMin(levels) \in Level /\ SetMax(levels) \in Level
      BY <2>1, ExtremesExist
  <2> QED BY <2>2 DEF Bounds
<1>3. ChangeSound(v)
  <2> HIDE DEF bounds
  <2> QED BY <1>1, <1>2 DEF ChangeSound, ChangeState, Triggering, Aside
<1>4. change' = [change EXCEPT ![c] = v]
    BY DEF ReadRange
<1>5. ChangeTypes'
  <2> HIDE DEF v
  <2> QED BY <1>3, <1>4, ChangeExcept DEF TypesInv
<1>6. /\ ViewTypes' /\ DirTypes' /\ TaskTypes' /\ WorkerSound(worker)'
      /\ (row \in [Level -> Row])'
    BY ViewKept, DirKept, TaskKept, WorkerKept DEF TypesInv, ReadRange, faults
<1> QED BY <1>5, <1>6 DEF TypesInv

LEMMA SaveRangeTypes ==
    ASSUME TypesInv, NEW c \in Change, SaveRange(c) PROVE TypesInv'
<1> DEFINE v == [change[c] EXCEPT !.pc = "resources", !.range = None]
<1>1. ChangeSound(change[c])
    BY DEF TypesInv, ChangeTypes
<1>2. ChangeSound(v)
    BY <1>1 DEF ChangeSound, ChangeState, Triggering, Aside
<1>3. change' = [change EXCEPT ![c] = v]
    BY DEF SaveRange
<1>4. ChangeTypes'
  <2> HIDE DEF v
  <2> QED BY <1>2, <1>3, ChangeExcept DEF TypesInv
<1>5. ViewTypes'
    BY <1>1 DEF TypesInv, ViewTypes, SaveRange, ChangeSound, data
<1>6. DirTypes' /\ TaskTypes' /\ WorkerSound(worker)' /\ (row \in [Level -> Row])'
    BY DirKept, TaskKept, WorkerKept DEF TypesInv, SaveRange, faults
<1> QED BY <1>4, <1>5, <1>6 DEF TypesInv

-----------------------------------------------------------------------------
(* The types: the steps of a trigger                                       *)

LEMMA ReadResourcesTypes ==
    ASSUME TypesInv, NEW c \in Change, ReadResources(c) PROVE TypesInv'
<1> DEFINE copy == [r \in Level |-> [row[r] EXCEPT !.status = "Pending"]]
           v == [change[c] EXCEPT !.pc = "loop", !.todo = Level, !.copy = copy]
<1>1. ChangeSound(change[c])
    BY DEF TypesInv, ChangeTypes
<1>2. copy \in [Level -> Row]
    BY DEF TypesInv, Row, Status
<1>3. ChangeSound(v)
  <2> HIDE DEF copy
  <2>1. v \in ChangeState
      BY <1>1, <1>2 DEF ChangeSound, ChangeState, Triggering
  <2> QED BY <1>2, <2>1, <1>1 DEF ChangeSound, ChangeState
<1>4. change' = [change EXCEPT ![c] = v]
    BY DEF ReadResources
<1>5. ChangeTypes'
  <2> HIDE DEF v
  <2> QED BY <1>3, <1>4, ChangeExcept DEF TypesInv
<1>6. /\ ViewTypes' /\ DirTypes' /\ TaskTypes' /\ WorkerSound(worker)'
      /\ (row \in [Level -> Row])'
    BY ViewKept, DirKept, TaskKept, WorkerKept DEF TypesInv, ReadResources, faults
<1> QED BY <1>5, <1>6 DEF TypesInv

LEMMA RestartTypes ==
    ASSUME TypesInv, NEW c \in Change, NEW r \in Level, Restart(c, r) PROVE TypesInv'
<1> DEFINE v == [change[c] EXCEPT !.pc = "queue", !.at = r]
           stopped == {change[c].copy[r].task} \ ({None} \cup ended)
<1>1. ChangeSound(change[c])
    BY DEF TypesInv, ChangeTypes
<1>2. change[c].pc = "loop" /\ r \in change[c].todo /\ change[c].copy[r] \in Row
    BY <1>1 DEF Restart, ChangeSound, Triggering
<1>3. ChangeSound(v)
    BY <1>1, <1>2 DEF ChangeSound, ChangeState, Triggering, Aside
<1>4. change' = [change EXCEPT ![c] = v]
    BY DEF Restart
<1>5. ChangeTypes'
  <2> HIDE DEF v
  <2> QED BY <1>3, <1>4, ChangeExcept DEF TypesInv
<1>6. (row \in [Level -> Row])'
    BY <1>2 DEF TypesInv, Restart
<1>7. TaskTypes'
  <2>1. stopped \subseteq Task /\ Dropped(c, stopped) \subseteq Level
      BY <1>2 DEF Row, Dropped, Task
  <2>2. revoked' = revoked \cup stopped /\ unexported' = unexported \cup Dropped(c, stopped)
      BY DEF Restart
  <2> QED BY <2>1, <2>2 DEF TypesInv, TaskTypes, Restart, faults
<1>8. ViewTypes' /\ DirTypes' /\ WorkerSound(worker)'
    BY ViewKept, DirKept, WorkerKept DEF TypesInv, Restart
<1> QED BY <1>5, <1>6, <1>7, <1>8 DEF TypesInv

LEMMA QueueTaskTypes ==
    ASSUME TypesInv, NEW c \in Change, QueueTask(c) PROVE TypesInv'
<1> DEFINE v == [change[c] EXCEPT !.pc = "name"]
<1>1. ChangeSound(change[c]) /\ change[c].pc = "queue"
    BY DEF TypesInv, ChangeTypes, QueueTask, Goes
<1>2. ChangeSound(v) /\ change[c].at \in Level
    BY <1>1 DEF ChangeSound, ChangeState, Triggering, Aside
<1>3. change' = [change EXCEPT ![c] = v]
    BY DEF QueueTask, Goes
<1>4. ChangeTypes'
  <2> HIDE DEF v
  <2> QED BY <1>2, <1>3, ChangeExcept DEF TypesInv
<1>5. TaskTypes'
  <2>1. <<c, change[c].at>> \in Task
      BY <1>2 DEF Task
  <2>2. queue' \in Seq(Task)
      BY <2>1, AppendProperties DEF QueueTask, TypesInv, TaskTypes
  <2> QED BY <2>2 DEF TypesInv, TaskTypes, QueueTask, faults
<1>6. ViewTypes' /\ DirTypes' /\ WorkerSound(worker)' /\ (row \in [Level -> Row])'
    BY ViewKept, DirKept, WorkerKept DEF TypesInv, QueueTask
<1> QED BY <1>4, <1>5, <1>6 DEF TypesInv

\* The next resource of the loop, or the end of it
LEMMA NextResourceTypes ==
    ASSUME ChangeTypes, NEW c \in Change, change[c].pc = "name", NextResource(c)
    PROVE  /\ ChangeTypes' /\ change[c].at \in change[c].todo /\ change[c].at \in Level
           /\ \A d \in Change \ {c} : change'[d] = change[d]
           /\ \/ change'[c] = Finished
              \/ /\ change'[c].pc = "loop" /\ change'[c].todo = change[c].todo \ {change[c].at}
                 /\ \A r \in change'[c].todo : change'[c].copy[r] = change[c].copy[r]
<1> DEFINE at == change[c].at
           rest == change[c].todo \ {at}
           v == [change[c] EXCEPT !.pc = "loop", !.todo = rest, !.at = None,
                                  !.copy[at] = None]
<1>1. ChangeSound(change[c]) /\ at \in change[c].todo /\ at \in Level
    BY DEF ChangeTypes, ChangeSound, ChangeState
<1>2. change[c].copy \in [Level -> Row \cup {None}]
    BY <1>1 DEF ChangeSound, Triggering
<1>3. ChangeSound(v)
  <2>1. v \in ChangeState
      BY <1>1, <1>2 DEF ChangeSound, ChangeState, Triggering
  <2>2. v.pc = "loop" /\ v.todo = rest /\ v.copy = [change[c].copy EXCEPT ![at] = None]
      BY <1>1 DEF ChangeSound, ChangeState
  <2>3. v.copy \in [Level -> Row \cup {None}] /\ \A r \in rest : v.copy[r] \in Row
      BY <1>1, <1>2, <2>2 DEF ChangeSound, ChangeState, Triggering
  <2> QED BY <2>1, <2>2, <2>3 DEF ChangeSound
<1>4. /\ v.pc = "loop" /\ v.todo = rest
      /\ \A r \in rest : v.copy[r] = change[c].copy[r]
    BY <1>1, <1>2 DEF ChangeSound, ChangeState
<1>5. change' = [change EXCEPT ![c] = IF rest = {} THEN Finished ELSE v]
    BY DEF NextResource
<1> HIDE DEF v
<1>6. ChangeSound(IF rest = {} THEN Finished ELSE v)
    BY <1>3, FinishedSound
<1>7. /\ ChangeTypes' /\ change'[c] = (IF rest = {} THEN Finished ELSE v)
      /\ \A d \in Change \ {c} : change'[d] = change[d]
    BY <1>5, <1>6, ChangeExcept
<1> QED BY <1>1, <1>4, <1>7

LEMMA SaveTaskIdTypes ==
    ASSUME TypesInv, NEW c \in Change, SaveTaskId(c) PROVE TypesInv'
<1>1. ChangeTypes' /\ change[c].at \in Level
    BY NextResourceTypes DEF TypesInv, SaveTaskId
<1>2. <<c, change[c].at>> \in Task
    BY <1>1 DEF Task
<1>3. (row \in [Level -> Row])'
    BY <1>1, <1>2 DEF TypesInv, SaveTaskId, Row
<1>4. ViewTypes' /\ DirTypes' /\ TaskTypes' /\ WorkerSound(worker)'
    BY ViewKept, DirKept, TaskKept, WorkerKept DEF TypesInv, SaveTaskId, faults
<1> QED BY <1>1, <1>3, <1>4 DEF TypesInv

LEMMA UnqueuedLevel ==
    ASSUME ChangeTypes, NEW c \in Change
    PROVE  Unqueued(c) \subseteq Level
BY DEF ChangeTypes, ChangeSound, ChangeState, Unqueued

LEMMA ChangeDiesTypes ==
    ASSUME TypesInv, NEW c \in Change, ChangeDies(c) PROVE TypesInv'
<1>1. ChangeTypes'
    BY FinishedSound, ChangeExcept DEF TypesInv, ChangeDies
<1>2. TaskTypes'
    BY UnqueuedLevel DEF TypesInv, TaskTypes, ChangeDies, tasks
<1>3. ViewTypes' /\ DirTypes' /\ WorkerSound(worker)' /\ (row \in [Level -> Row])'
    BY ViewKept, DirKept, WorkerKept DEF TypesInv, ChangeDies
<1> QED BY <1>1, <1>2, <1>3 DEF TypesInv

-----------------------------------------------------------------------------
(* The types: the steps of the worker                                      *)

\* The task that is executed, and its resource
LEMMA AtWork ==
    ASSUME TypesInv, worker.pc # "idle"
    PROVE  /\ worker \in WorkerState /\ worker.task \in Task
           /\ Res \in Level /\ worker.task[1] \in Change /\ worker # Idle
           /\ worker.task = <<worker.task[1], Res>>
           /\ worker.pc \in Generating => worker.copy \in Row
BY DEF TypesInv, WorkerSound, Task, Res, Idle

LEMMA WorkerIdle ==
    ASSUME TypesInv PROVE worker.pc = "idle" <=> worker = Idle
BY DEF TypesInv, WorkerSound, Idle

\* A row that is saved whole
LEMMA SaveTypes ==
    ASSUME TypesInv, worker.pc \in Generating, NEW status \in Status, NEW count \in Nat,
           Save(status, count)
    PROVE  /\ (row \in [Level -> Row])'
           /\ row'[Res].status = status /\ row'[Res].count = count
           /\ row'[Res].task = worker.copy.task
           /\ \A r \in Level \ {Res} : row'[r] = row[r]
<1>1. Res \in Level /\ worker.copy \in Row
    BY AtWork DEF Generating
<1> DEFINE new == [worker.copy EXCEPT !.status = status, !.count = count]
<1>2. /\ new \in Row /\ new.status = status /\ new.count = count
      /\ new.task = worker.copy.task
    BY <1>1 DEF Row
<1>3. row' = [row EXCEPT ![Res] = new]
    BY DEF Save
<1> HIDE DEF new
<1> QED BY <1>1, <1>2, <1>3 DEF TypesInv, Row, Task

\* The task that was executed has ended.
LEMMA EndsTypes ==
    ASSUME TypesInv, worker.pc # "idle", Ends(worker.task), UNCHANGED <<queue, seeds, history>>
    PROVE  TaskTypes'
BY AtWork DEF TypesInv, TaskTypes, Ends, history, Task

LEMMA DiscardTypes ==
    ASSUME TypesInv, Discard PROVE TypesInv'
<1>1. Head(queue) \in Task /\ Tail(queue) \in Seq(Task)
    BY HeadTailProperties DEF TypesInv, TaskTypes, Discard
<1>2. TaskTypes'
    BY <1>1 DEF TypesInv, TaskTypes, Discard, Ends, faults, history
<1>3. /\ ViewTypes' /\ DirTypes' /\ ChangeTypes' /\ WorkerSound(worker)'
      /\ (row \in [Level -> Row])'
    BY ViewKept, DirKept, ChangeKept, WorkerKept DEF TypesInv, Discard
<1> QED BY <1>2, <1>3 DEF TypesInv

LEMMA PickTypes ==
    ASSUME TypesInv, Pick PROVE TypesInv'
<1> DEFINE t == Head(queue)
           copy == [row[t[2]] EXCEPT !.status = "Processing"]
           w == [Idle EXCEPT !.pc = "begin", !.task = t, !.copy = copy]
<1>1. t \in Task /\ t[2] \in Level /\ Tail(queue) \in Seq(Task)
    BY HeadTailProperties DEF TypesInv, TaskTypes, Pick, Task
<1>2. copy \in Row
    BY <1>1 DEF TypesInv, Row, Status
<1>3. WorkerSound(w)
  <2> HIDE DEF t, copy
  <2> QED BY <1>1, <1>2, IdleSound DEF WorkerSound, WorkerState, Idle, Generating
<1>4. WorkerSound(worker)'
    BY <1>3 DEF Pick
<1>5. TaskTypes'
    BY <1>1 DEF TypesInv, TaskTypes, Pick, faults, history
<1>6. ViewTypes' /\ DirTypes' /\ ChangeTypes' /\ (row \in [Level -> Row])'
    BY ViewKept, DirKept, ChangeKept DEF TypesInv, Pick
<1> QED BY <1>4, <1>5, <1>6 DEF TypesInv

LEMMA MarkProcessingTypes ==
    ASSUME TypesInv, MarkProcessing PROVE TypesInv'
<1>1. At("begin") /\ worker.pc \in Generating
    BY DEF MarkProcessing, At, Generating
<1>2. Res \in Level /\ worker \in WorkerState /\ worker.copy \in Row /\ worker.task \in Task
    BY <1>1, AtWork DEF At
<1>3. (row \in [Level -> Row])'
    BY <1>1, <1>2, SaveTypes DEF MarkProcessing, Status, Row
<1>4. WorkerSound(worker)'
  <2>1. Cardinality(Exact(Res)) \in Nat
      BY <1>2, ViewFacts DEF TypesInv
  <2> QED BY <1>1, <1>2, <2>1 DEF MarkProcessing, WorkerSound, WorkerState, Generating
<1>5. ViewTypes' /\ DirTypes' /\ TaskTypes' /\ ChangeTypes'
    BY ViewKept, DirKept, TaskKept, ChangeKept DEF TypesInv, MarkProcessing, faults
<1> QED BY <1>3, <1>4, <1>5 DEF TypesInv

LEMMA ConfigureTypes ==
    ASSUME TypesInv, Configure PROVE TypesInv'
<1>1. At("configure") /\ worker.pc \in Generating
    BY DEF Configure, At, Generating
<1>2. Res \in Level /\ worker \in WorkerState /\ worker.copy \in Row /\ worker.task \in Task
    BY <1>1, AtWork DEF At
<1>3. WorkerSound(worker)'
  <2>1. Places(Res) \subseteq Spot /\ config \in Config
      BY <1>2, ViewFacts DEF TypesInv, ViewTypes
  <2> QED BY <1>1, <1>2, <2>1 DEF Configure, WorkerSound, WorkerState, Generating
<1>4. ViewTypes' /\ DirTypes' /\ TaskTypes' /\ ChangeTypes' /\ (row \in [Level -> Row])'
    BY ViewKept, DirKept, TaskKept, ChangeKept DEF TypesInv, Configure, faults
<1> QED BY <1>3, <1>4 DEF TypesInv

LEMMA ClearTilesTypes ==
    ASSUME TypesInv, ClearTiles PROVE TypesInv'
<1>1. At("clear") /\ worker.pc \in Generating
    BY DEF ClearTiles, At, Generating
<1>2. Res \in Level /\ worker \in WorkerState /\ worker.copy \in Row /\ worker.task \in Task
    BY <1>1, AtWork DEF At
<1>3. WorkerSound(worker)'
    BY <1>1, <1>2 DEF ClearTiles, WorkerSound, WorkerState, Generating
<1>4. DirTypes'
    BY <1>2, TileDirExcept DEF TypesInv, DirTypes, ClearTiles
<1>5. ViewTypes' /\ TaskTypes' /\ ChangeTypes' /\ (row \in [Level -> Row])'
    BY ViewKept, TaskKept, ChangeKept DEF TypesInv, ClearTiles, faults
<1> QED BY <1>3, <1>4, <1>5 DEF TypesInv

LEMMA SeedTileTypes ==
    ASSUME TypesInv, NEW p, SeedTile(p) PROVE TypesInv'
<1>1. At("seed") /\ worker.pc \in Generating
    BY DEF SeedTile, At, Generating
<1>2. Res \in Level /\ worker \in WorkerState /\ worker.copy \in Row /\ worker.task \in Task
    BY <1>1, AtWork DEF At
<1>3. WorkerSound(worker)'
    BY <1>1, <1>2 DEF SeedTile, WorkerSound, WorkerState, Generating
<1>4. DirTypes'
  <2>1. worker.config \in Config
      BY <1>2 DEF WorkerState
  <2>2. TileDir(temp')
      BY <1>2, <2>1, DrawnKept DEF TypesInv, DirTypes, SeedTile
  <2> QED BY <2>2 DEF TypesInv, DirTypes, SeedTile
<1>5. ViewTypes' /\ TaskTypes' /\ ChangeTypes' /\ (row \in [Level -> Row])'
    BY ViewKept, TaskKept, ChangeKept DEF TypesInv, SeedTile, faults
<1> QED BY <1>3, <1>4, <1>5 DEF TypesInv

LEMMA RemoveTilesTypes ==
    ASSUME TypesInv, RemoveTiles PROVE TypesInv'
<1>1. At("seed") /\ worker.pc \in Generating
    BY DEF RemoveTiles, At, Generating
<1>2. Res \in Level /\ worker \in WorkerState /\ worker.copy \in Row /\ worker.task \in Task
    BY <1>1, AtWork DEF At
<1>3. (row \in [Level -> Row])'
    BY <1>1, <1>2, SaveTypes DEF RemoveTiles, Status, Row
<1>4. WorkerSound(worker)'
    BY <1>1, <1>2 DEF RemoveTiles, WorkerSound, WorkerState, Generating
<1>5. DirTypes'
    BY <1>2, TileDirExcept DEF TypesInv, DirTypes, RemoveTiles
<1>6. ViewTypes' /\ TaskTypes' /\ ChangeTypes'
    BY ViewKept, TaskKept, ChangeKept DEF TypesInv, RemoveTiles, faults
<1> QED BY <1>3, <1>4, <1>5, <1>6 DEF TypesInv

LEMMA MoveTilesTypes ==
    ASSUME TypesInv, MoveTiles PROVE TypesInv'
<1>1. At("move") /\ worker.pc \in Generating
    BY DEF MoveTiles, At, Generating
<1>2. Res \in Level /\ worker \in WorkerState /\ worker.copy \in Row /\ worker.task \in Task
    BY <1>1, AtWork DEF At
<1>3. WorkerSound(worker)'
    BY <1>1, <1>2 DEF MoveTiles, WorkerSound, WorkerState, Generating
<1>4. DirTypes'
  <2>1. temp[Res] \in SUBSET Tile /\ \A x \in temp[Res] : PrivacyOf[x[1]] <= Res
      BY <1>2 DEF TypesInv, DirTypes, TileDir
  <2>2. TileDir(live') /\ TileDir(temp')
      BY <1>2, <2>1, TileDirExcept DEF TypesInv, DirTypes, MoveTiles
  <2> QED BY <2>2 DEF TypesInv, DirTypes, MoveTiles
<1>5. ViewTypes' /\ TaskTypes' /\ ChangeTypes' /\ (row \in [Level -> Row])'
    BY ViewKept, TaskKept, ChangeKept DEF TypesInv, MoveTiles, faults
<1> QED BY <1>3, <1>4, <1>5 DEF TypesInv

LEMMA SaveSuccessTypes ==
    ASSUME TypesInv, SaveSuccess PROVE TypesInv'
<1>1. At("save") /\ worker.pc \in Generating
    BY DEF SaveSuccess, At, Generating
<1>2. Res \in Level /\ worker \in WorkerState /\ worker.task \in Task /\ worker.pc # "idle"
    BY <1>1, AtWork DEF At
<1>3. (row \in [Level -> Row])'
    BY <1>1, <1>2, SaveTypes DEF SaveSuccess, Status, WorkerState
<1>4. WorkerSound(worker)'
  <2>1. WorkerSound([Idle EXCEPT !.pc = "levels", !.task = worker.task])
      BY <1>2, IdleSound DEF WorkerSound, WorkerState, Idle, Generating, Exporting
  <2> QED BY <2>1, IdleSound DEF SaveSuccess
<1>5. TaskTypes'
  <2>1. CASE Exports(worker.task)
      BY <2>1, TaskKept DEF TypesInv, SaveSuccess, faults, tasks
  <2>2. CASE ~ Exports(worker.task)
      BY <2>2, <1>2, EndsTypes DEF TypesInv, SaveSuccess, faults
  <2> QED BY <2>1, <2>2
<1>6. ViewTypes' /\ DirTypes' /\ ChangeTypes'
    BY ViewKept, DirKept, ChangeKept DEF TypesInv, SaveSuccess
<1> QED BY <1>3, <1>4, <1>5, <1>6 DEF TypesInv

LEMMA ReadLevelsTypes ==
    ASSUME TypesInv, ReadLevels PROVE TypesInv'
<1>1. At("levels") /\ worker.pc # "idle" /\ worker.pc \notin Generating
    BY DEF ReadLevels, At, Generating
<1>2. Res \in Level /\ worker \in WorkerState /\ worker.task \in Task
    BY <1>1, AtWork
<1>3. WorkerSound(worker)' /\ TaskTypes'
  <2>1. CASE Admins(Res) = {}
      BY <2>1, <1>1, IdleSound, EndsTypes DEF TypesInv, ReadLevels, WritesFiles, faults
  <2>2. CASE Admins(Res) # {}
    <3>1. Admins(Res) \subseteq Spot
        BY <1>2, ViewFacts DEF TypesInv
    <3>2. WorkerSound([worker EXCEPT !.pc = "write", !.todo = Admins(Res)])
        BY <1>2, <3>1 DEF WorkerSound, WorkerState, Generating, Exporting
    <3>3. WorkerSound(worker)'
        BY <2>2, <3>2 DEF ReadLevels, WritesFiles
    <3>4. TaskTypes'
        BY <2>2, TaskKept DEF TypesInv, ReadLevels, WritesFiles, faults, tasks
    <3> QED BY <3>3, <3>4
  <2> QED BY <2>1, <2>2
<1>4. ViewTypes' /\ DirTypes' /\ ChangeTypes' /\ (row \in [Level -> Row])'
    BY ViewKept, DirKept, ChangeKept DEF TypesInv, ReadLevels
<1> QED BY <1>3, <1>4 DEF TypesInv

LEMMA WriteFileTypes ==
    ASSUME TypesInv, NEW l, WriteFile(l) PROVE TypesInv'
<1>1. At("write") /\ worker.pc # "idle" /\ worker.pc \notin Generating
    BY DEF WriteFile, At, Generating
<1>2. Res \in Level /\ worker \in WorkerState /\ worker.task \in Task
    BY <1>1, AtWork
<1>3. WorkerSound(worker)'
    BY <1>1, <1>2 DEF WriteFile, WorkerSound, WorkerState, Generating, Exporting
<1>4. DirTypes'
  <2> DEFINE now == FileAt(Visible(Res), l)
             F == (tempFiles[Res] \ FileAt(tempFiles[Res], l)) \cup now
  <2>1. now \subseteq Entity /\ \A e \in now : PrivacyOf[e] <= Res
      BY <1>2, ViewFacts DEF TypesInv, FileAt
  <2>2. F \in SUBSET Entity /\ \A e \in F : PrivacyOf[e] <= Res
      BY <1>2, <2>1 DEF TypesInv, DirTypes, FileDir
  <2>3. FileDir([tempFiles EXCEPT ![Res] = F])
      BY <1>2, <2>2, FileDirExcept DEF TypesInv, DirTypes
  <2>4. FileDir(tempFiles')
      BY <2>3 DEF TypesInv, DirTypes, WriteFile
  <2> QED BY <2>4 DEF TypesInv, DirTypes, WriteFile
<1>5. ViewTypes' /\ TaskTypes' /\ ChangeTypes' /\ (row \in [Level -> Row])'
    BY ViewKept, TaskKept, ChangeKept DEF TypesInv, WriteFile, faults
<1> QED BY <1>3, <1>4, <1>5 DEF TypesInv

LEMMA RemoveFilesTypes ==
    ASSUME TypesInv, RemoveFiles PROVE TypesInv'
<1>1. At("write") /\ worker.pc # "idle" /\ worker.pc \notin Generating
    BY DEF RemoveFiles, At, Generating
<1>2. Res \in Level /\ worker \in WorkerState /\ worker.task \in Task
    BY <1>1, AtWork
<1>3. WorkerSound(worker)'
    BY <1>1, <1>2 DEF RemoveFiles, WorkerSound, WorkerState, Generating, Exporting
<1>4. DirTypes'
    BY <1>2, FileDirExcept DEF TypesInv, DirTypes, RemoveFiles
<1>5. ViewTypes' /\ TaskTypes' /\ ChangeTypes' /\ (row \in [Level -> Row])'
    BY ViewKept, TaskKept, ChangeKept DEF TypesInv, RemoveFiles, faults
<1> QED BY <1>3, <1>4, <1>5 DEF TypesInv

LEMMA MoveFilesTypes ==
    ASSUME TypesInv, MoveFiles PROVE TypesInv'
<1>1. At("moveFiles") /\ worker.pc # "idle"
    BY DEF MoveFiles, At
<1>2. Res \in Level
    BY <1>1, AtWork
<1>3. DirTypes'
  <2>1. tempFiles[Res] \in SUBSET Entity /\ \A e \in tempFiles[Res] : PrivacyOf[e] <= Res
      BY <1>2 DEF TypesInv, DirTypes, FileDir
  <2>2. FileDir(files') /\ FileDir(tempFiles')
      BY <1>2, <2>1, FileDirExcept DEF TypesInv, DirTypes, MoveFiles
  <2> QED BY <2>2 DEF TypesInv, DirTypes, MoveFiles
<1>4. TaskTypes' /\ WorkerSound(worker)'
    BY <1>1, EndsTypes, IdleSound DEF MoveFiles, faults
<1>5. ViewTypes' /\ ChangeTypes' /\ (row \in [Level -> Row])'
    BY ViewKept, ChangeKept DEF TypesInv, MoveFiles
<1> QED BY <1>3, <1>4, <1>5 DEF TypesInv

-----------------------------------------------------------------------------
(* The types: failures, and every step                                     *)

\* A generation that does not reach its end
LEMMA AbandonedTypes ==
    ASSUME TypesInv, worker.pc # "idle", Abandoned, UNCHANGED <<queue, strayed>>,
           Outlives \/ UNCHANGED seeds,
           lost' \in {lost, lost \cup {Res}}, unexported' \in {unexported, unexported \cup {Res}}
    PROVE  TaskTypes' /\ WorkerSound(worker)'
<1>1. Res \in Level /\ worker.config \in Config /\ worker.task \in Task
    BY AtWork DEF WorkerState
<1>2. seeds' \subseteq Level \X Config
    BY <1>1 DEF Outlives, TypesInv, TaskTypes
<1>3. revoked' \subseteq Task /\ ended' \subseteq Task
    BY <1>1 DEF Abandoned, Ends, TypesInv, TaskTypes
<1>4. lost' \cup unexported' \cup cut' \cup strayed' \subseteq Level
    BY <1>1 DEF Abandoned, TypesInv, TaskTypes
<1> QED BY <1>2, <1>3, <1>4, IdleSound DEF Abandoned, TypesInv, TaskTypes

LEMMA SeedFailsTypes ==
    ASSUME TypesInv, SeedFails PROVE TypesInv'
<1>1. worker.pc # "idle" /\ worker.pc \in Generating
    BY DEF SeedFails, At, Generating
<1>2. worker.copy.count \in Nat
    BY <1>1, AtWork DEF Row
<1>3. (row \in [Level -> Row])'
    BY <1>1, <1>2, SaveTypes DEF SeedFails, Status
<1>4. TaskTypes' /\ WorkerSound(worker)'
    BY <1>1, AbandonedTypes DEF SeedFails, faults
<1>5. ViewTypes' /\ DirTypes' /\ ChangeTypes'
    BY ViewKept, DirKept, ChangeKept DEF TypesInv, SeedFails
<1> QED BY <1>3, <1>4, <1>5 DEF TypesInv

LEMMA KillTypes ==
    ASSUME TypesInv, Kill PROVE TypesInv'
<1>1. TaskTypes' /\ WorkerSound(worker)'
    BY WorkerIdle, AbandonedTypes DEF Kill
<1>2. ViewTypes' /\ DirTypes' /\ ChangeTypes' /\ (row \in [Level -> Row])'
    BY ViewKept, DirKept, ChangeKept DEF TypesInv, Kill
<1> QED BY <1>1, <1>2 DEF TypesInv

LEMMA WorkerDiesTypes ==
    ASSUME TypesInv, WorkerDies PROVE TypesInv'
<1>1. TaskTypes' /\ WorkerSound(worker)'
    BY WorkerIdle, AbandonedTypes DEF WorkerDies
<1>2. ViewTypes' /\ DirTypes' /\ ChangeTypes' /\ (row \in [Level -> Row])'
    BY ViewKept, DirKept, ChangeKept DEF TypesInv, WorkerDies
<1> QED BY <1>1, <1>2 DEF TypesInv

LEMMA StraySeedTypes ==
    ASSUME TypesInv, NEW s, NEW p, StraySeed(s, p) PROVE TypesInv'
<1>1. s[1] \in Level /\ s[2] \in Config
    BY DEF StraySeed, TypesInv, TaskTypes
<1>2. DirTypes'
  <2>1. TileDir(temp')
      BY <1>1, DrawnKept DEF TypesInv, DirTypes, StraySeed
  <2> QED BY <2>1 DEF TypesInv, DirTypes, StraySeed
<1>3. TaskTypes'
    BY <1>1 DEF TypesInv, TaskTypes, StraySeed, tasks
<1>4. ViewTypes' /\ ChangeTypes' /\ WorkerSound(worker)' /\ (row \in [Level -> Row])'
    BY ViewKept, ChangeKept, WorkerKept DEF TypesInv, StraySeed
<1> QED BY <1>2, <1>3, <1>4 DEF TypesInv

LEMMA StutterTypes ==
    ASSUME TypesInv, UNCHANGED vars PROVE TypesInv'
<1>1. /\ UNCHANGED <<data, range>> /\ UNCHANGED dirs /\ UNCHANGED <<tasks, seeds, history>>
      /\ UNCHANGED change /\ UNCHANGED worker /\ UNCHANGED row
    BY DEF vars, faults
<1> QED BY <1>1, ViewKept, DirKept, TaskKept, ChangeKept, WorkerKept DEF TypesInv

LEMMA TypesStep == TypesInv /\ [Next /\ UNCHANGED setting]_vars => TypesInv'
<1> SUFFICES ASSUME TypesInv, [Next /\ UNCHANGED setting]_vars PROVE TypesInv'
    OBVIOUS
<1>1. ASSUME NEW c \in Change, Retire(c) \/ DropConfig(c) \/ ChangeStep(c) \/ ChangeDies(c)
      PROVE  TypesInv'
    BY <1>1, RetireTypes, DropConfigTypes, PublishTypes, ReadRangeTypes, SaveRangeTypes,
       CreateConfigTypes, ReadResourcesTypes, RestartTypes, QueueTaskTypes,
       SaveTaskIdTypes, ChangeDiesTypes DEF ChangeStep
<1>2. CASE WorkerStep
    BY <1>2, DiscardTypes, PickTypes, MarkProcessingTypes, ConfigureTypes,
       ClearTilesTypes, SeedTileTypes, RemoveTilesTypes, MoveTilesTypes, SaveSuccessTypes,
       ReadLevelsTypes, WriteFileTypes, RemoveFilesTypes, MoveFilesTypes DEF WorkerStep
<1>3. CASE SeedFails \/ Kill \/ WorkerDies
    BY <1>3, SeedFailsTypes, KillTypes, WorkerDiesTypes
<1>4. ASSUME NEW s, NEW p, StraySeed(s, p) PROVE TypesInv'
    BY <1>4, StraySeedTypes
<1>5. CASE UNCHANGED vars
    BY <1>5, StutterTypes
<1> QED BY <1>1, <1>2, <1>3, <1>4, <1>5 DEF Next

LEMMA TypesInvariant == Spec => []TypesInv
<1> QED BY TypesInit, TypesStep, PTL DEF Spec

\* Every variable keeps its type; the directories of a resource have nothing
\* above its level, whatever was left in them or written by whom
\* (generate_view_resource_vector_tiles_task, post_process_vector_tiles).
THEOREM TypeCorrect == Spec => []TypeOK
<1>1. TypesInv => TypeOK
    BY DEF TypesInv, TypeOK, ViewTypes, DirTypes, TileDir, FileDir, TaskTypes, Bounds
<1> QED BY <1>1, TypesInvariant, PTL

-----------------------------------------------------------------------------
(* What is left to queue, and what is known to be missing, over a step     *)

\* Only the record of c changes, and what c has left to queue does not shrink.
Keeps(c) ==
    /\ \A d \in Change \ {c} : change'[d] = change[d]
    /\ change'[c].pc # "idle"
    /\ change[c].pc = "idle" \/ Unqueued(c)' = Unqueued(c)

\* The steps of a change that queue nothing
LEMMA GoesKeeps ==
    ASSUME ChangeTypes, NEW c \in Change, NEW from \in {"idle", "begun"},
           NEW to \in {"begun", "aggregate", "resources"}, Goes(c, from, to)
    PROVE  Keeps(c) /\ Unqueued(c)' = Level
BY GoesTypes DEF Keeps, Goes, Unqueued

LEMMA ReadRangeKeeps ==
    ASSUME TypesInv, NEW c \in Change, ReadRange(c) PROVE Keeps(c)
<1>1. change'[c].pc \in {"resources", "range"} /\ change[c].pc = "aggregate"
    BY DEF ReadRange, TypesInv, ChangeTypes, ChangeSound, ChangeState
<1>2. \A d \in Change \ {c} : change'[d] = change[d]
    BY DEF ReadRange, TypesInv, ChangeTypes
<1> QED BY <1>1, <1>2 DEF Keeps, Unqueued

LEMMA SaveRangeKeeps ==
    ASSUME TypesInv, NEW c \in Change, SaveRange(c) PROVE Keeps(c)
<1>1. change'[c].pc = "resources" /\ change[c].pc = "range"
    BY DEF SaveRange, TypesInv, ChangeTypes, ChangeSound, ChangeState
<1>2. \A d \in Change \ {c} : change'[d] = change[d]
    BY DEF SaveRange, TypesInv, ChangeTypes
<1> QED BY <1>1, <1>2 DEF Keeps, Unqueued

LEMMA ReadResourcesKeeps ==
    ASSUME TypesInv, NEW c \in Change, ReadResources(c)
    PROVE  /\ Keeps(c) /\ change'[c].pc = "loop" /\ change[c].pc = "resources"
           /\ change'[c].todo = Level
           /\ \A r \in Level : change'[c].copy[r] = [row[r] EXCEPT !.status = "Pending"]
<1>1. /\ change'[c].pc = "loop" /\ change[c].pc = "resources" /\ change'[c].todo = Level
      /\ change'[c].copy = [r \in Level |-> [row[r] EXCEPT !.status = "Pending"]]
    BY DEF ReadResources, TypesInv, ChangeTypes, ChangeSound, ChangeState
<1>2. \A d \in Change \ {c} : change'[d] = change[d]
    BY DEF ReadResources, TypesInv, ChangeTypes
<1> QED BY <1>1, <1>2 DEF Keeps, Unqueued

LEMMA RestartKeeps ==
    ASSUME TypesInv, NEW c \in Change, NEW r \in Level, Restart(c, r)
    PROVE  /\ Keeps(c) /\ change'[c].pc = "queue" /\ change[c].pc = "loop" /\ change'[c].at = r
           /\ change'[c].todo = change[c].todo /\ change'[c].copy = change[c].copy
           /\ r \in Unqueued(c) /\ r \in change[c].todo /\ change[c].copy[r] \in Row
<1>1. /\ change'[c].pc = "queue" /\ change[c].pc = "loop" /\ change'[c].at = r
      /\ change'[c].todo = change[c].todo /\ change'[c].copy = change[c].copy
      /\ r \in change[c].todo
    BY DEF Restart, TypesInv, ChangeTypes, ChangeSound, ChangeState
<1>2. \A d \in Change \ {c} : change'[d] = change[d]
    BY DEF Restart, TypesInv, ChangeTypes
<1>3. change[c].copy[r] \in Row
    BY <1>1 DEF TypesInv, ChangeTypes, ChangeSound, Triggering
<1> QED BY <1>1, <1>2, <1>3 DEF Keeps, Unqueued

LEMMA QueueTaskMoves ==
    ASSUME TypesInv, NEW c \in Change, QueueTask(c)
    PROVE  /\ \A d \in Change \ {c} : change'[d] = change[d]
           /\ change'[c].pc = "name" /\ change[c].pc = "queue" /\ change'[c].at = change[c].at
           /\ change'[c].todo = change[c].todo /\ change'[c].copy = change[c].copy
           /\ change[c].at \in Unqueued(c) /\ change[c].at \in Level
           /\ Unqueued(c)' = Unqueued(c) \ {change[c].at}
<1>1. /\ change'[c].pc = "name" /\ change[c].pc = "queue" /\ change'[c].at = change[c].at
      /\ change'[c].todo = change[c].todo /\ change'[c].copy = change[c].copy
    BY DEF QueueTask, Goes, TypesInv, ChangeTypes, ChangeSound, ChangeState
<1>2. \A d \in Change \ {c} : change'[d] = change[d]
    BY DEF QueueTask, Goes, TypesInv, ChangeTypes
<1>3. change[c].at \in change[c].todo /\ change[c].at \in Level
    BY <1>1 DEF TypesInv, ChangeTypes, ChangeSound, ChangeState
<1> QED BY <1>1, <1>2, <1>3 DEF Unqueued

LEMMA SaveTaskIdKeeps ==
    ASSUME TypesInv, NEW c \in Change, SaveTaskId(c) PROVE Keeps(c)
<1>1. /\ ChangeTypes' /\ change[c].at \in change[c].todo /\ change[c].at \in Level
      /\ \A d \in Change \ {c} : change'[d] = change[d]
      /\ \/ change'[c] = Finished
         \/ change'[c].pc = "loop" /\ change'[c].todo = change[c].todo \ {change[c].at}
    BY NextResourceTypes DEF TypesInv, SaveTaskId
<1>2. Unqueued(c) = change[c].todo \ {change[c].at}
    BY DEF SaveTaskId, Unqueued
<1>3. CASE change'[c].pc = "loop" /\ change'[c].todo = change[c].todo \ {change[c].at}
    BY <1>1, <1>2, <1>3 DEF Keeps, Unqueued
<1>4. CASE change'[c] = Finished
  <2>1. change[c].todo \ {change[c].at} = {}
    <3>1. CASE change[c].todo \ {change[c].at} # {}
      <4> DEFINE v == [change[c] EXCEPT !.pc = "loop", !.todo = change[c].todo \ {change[c].at},
                                        !.at = None, !.copy[change[c].at] = None]
      <4>1. change'[c] = v
          BY <3>1 DEF SaveTaskId, NextResource, TypesInv, ChangeTypes
      <4>2. v.pc = "loop"
          BY DEF TypesInv, ChangeTypes, ChangeSound, ChangeState
      <4> QED BY <4>1, <4>2, <1>4, FinishedSound
    <3> QED BY <3>1
  <2>2. change'[c].pc = "done"
      BY <1>4, FinishedSound
  <2>3. Unqueued(c)' = {}
      BY <2>2 DEF Unqueued
  <2> QED BY <1>1, <1>2, <2>1, <2>2, <2>3 DEF Keeps
<1> QED BY <1>1, <1>3, <1>4

LEMMA ChangeDiesMoves ==
    ASSUME TypesInv, NEW c \in Change, ChangeDies(c)
    PROVE  /\ \A d \in Change \ {c} : change'[d] = change[d]
           /\ change'[c].pc = "done" /\ Unqueued(c)' = {}
           /\ change[c].pc # "idle"
BY FinishedSound DEF ChangeDies, TypesInv, ChangeTypes, Unqueued

-----------------------------------------------------------------------------
(* Every step is one of seven, as far as the tasks are concerned           *)

\* Nothing is queued, revoked, taken from the queue or ended.
Quiet ==
    /\ UNCHANGED <<tasks, lost, unexported>> /\ worker'.task = worker.task
    /\ UNCHANGED change \/ \E c \in Change : Keeps(c)

\* The task that is executed ends, one way or another.
Ending ==
    /\ worker.pc # "idle" /\ worker' = Idle /\ Ends(worker.task)
    /\ UNCHANGED <<queue, change>>
    /\ lost \subseteq lost' /\ unexported \subseteq unexported'

Step == [Next /\ UNCHANGED setting]_vars

LEMMA ViewSteps ==
    ASSUME TypesInv, NEW c \in Change,
           Retire(c) \/ Publish(c) \/ DropConfig(c) \/ CreateConfig(c)
    PROVE  Quiet /\ Keeps(c) /\ Unqueued(c)' = Level
<1>1. Keeps(c) /\ Unqueued(c)' = Level
    BY GoesKeeps DEF TypesInv, Retire, Publish, DropConfig, CreateConfig
<1>2. UNCHANGED <<tasks, lost, unexported, worker>>
    BY DEF Retire, Publish, DropConfig, CreateConfig, history
<1> QED BY <1>1, <1>2 DEF Quiet

LEMMA TriggerSteps ==
    ASSUME TypesInv, NEW c \in Change,
           ReadRange(c) \/ SaveRange(c) \/ ReadResources(c) \/ SaveTaskId(c)
    PROVE  Quiet /\ Keeps(c)
<1>1. Keeps(c)
    BY ReadRangeKeeps, SaveRangeKeeps, ReadResourcesKeeps, SaveTaskIdKeeps
<1>2. UNCHANGED <<tasks, lost, unexported, worker>>
    BY DEF ReadRange, SaveRange, ReadResources, SaveTaskId, history
<1> QED BY <1>1, <1>2 DEF Quiet

\* The steps of a generation that is under way
Steady ==
    /\ UNCHANGED <<change, tasks, lost, unexported, strayed, cut>>
    /\ worker.pc # "idle" /\ worker'.pc # "idle" /\ worker'.task = worker.task

LEMMA TileSteps ==
    ASSUME TypesInv,
           MarkProcessing \/ Configure \/ ClearTiles \/ (\E p \in worker.todo : SeedTile(p))
             \/ RemoveTiles \/ MoveTiles
    PROVE  Steady /\ worker.pc \in Generating /\ worker'.pc \in Generating
           /\ worker'.copy = worker.copy
<1>1. worker.pc \in Generating /\ worker \in WorkerState
    BY AtWork DEF MarkProcessing, Configure, ClearTiles, SeedTile, RemoveTiles, MoveTiles,
                  At, Generating
<1>2. UNCHANGED <<change, tasks, lost, unexported, strayed, cut>>
    BY DEF MarkProcessing, Configure, ClearTiles, SeedTile, RemoveTiles, MoveTiles, history
<1>3. /\ worker'.task = worker.task /\ worker'.copy = worker.copy
      /\ worker'.pc \in Generating
    BY <1>1 DEF MarkProcessing, Configure, ClearTiles, SeedTile, RemoveTiles, MoveTiles,
                At, Generating, WorkerState
<1> QED BY <1>1, <1>2, <1>3 DEF Steady, Generating

LEMMA SaveSuccessMoves ==
    ASSUME TypesInv, SaveSuccess
    PROVE  /\ worker.pc = "save" /\ worker'.pc \notin Generating
           /\ UNCHANGED <<strayed, cut>>
           /\ \/ Exports(worker.task) /\ Steady /\ worker'.pc = "levels"
              \/ ~ Exports(worker.task) /\ Ending
<1>1. worker.pc = "save"
    BY DEF SaveSuccess, At
<1>2. CASE Exports(worker.task)
  <2>1. /\ worker' = [Idle EXCEPT !.pc = "levels", !.task = worker.task]
        /\ UNCHANGED <<change, tasks, history>>
      BY <1>2 DEF SaveSuccess, tasks
  <2> QED BY <1>1, <1>2, <2>1 DEF Steady, Idle, history, Generating
<1>3. CASE ~ Exports(worker.task)
    BY <1>1, <1>3 DEF SaveSuccess, Ending, Idle, history, Generating
<1> QED BY <1>2, <1>3

LEMMA FileSteps ==
    ASSUME TypesInv,
           ReadLevels \/ (\E l \in worker.todo : WriteFile(l)) \/ RemoveFiles \/ MoveFiles
    PROVE  /\ worker.pc \in Exporting /\ worker'.pc \notin Generating
           /\ UNCHANGED <<row, live, temp, strayed, cut>>
           /\ \/ Steady /\ worker'.pc \in Exporting
              \/ Ending
<1>1. worker.pc \in Exporting /\ worker.pc # "idle"
    BY DEF ReadLevels, WriteFile, RemoveFiles, MoveFiles, At, Exporting
<1>2. worker \in WorkerState
    BY <1>1, AtWork
<1>3. CASE ReadLevels /\ Admins(Res) # {}
  <2>1. /\ worker' = [worker EXCEPT !.pc = "write", !.todo = Admins(Res)]
        /\ UNCHANGED <<change, tasks, history, row, live, temp>>
      BY <1>3 DEF ReadLevels, WritesFiles, tasks, dirs
  <2> QED BY <1>1, <1>2, <2>1 DEF Steady, WorkerState, Generating, Exporting, history
<1>4. CASE ReadLevels /\ Admins(Res) = {}
    BY <1>1, <1>4 DEF ReadLevels, WritesFiles, Ending, Idle, Generating, history, dirs
<1>5. CASE (\E l \in worker.todo : WriteFile(l)) \/ RemoveFiles
    BY <1>1, <1>2, <1>5 DEF WriteFile, RemoveFiles, Steady, WorkerState, Generating,
                            Exporting, history, At
<1>6. CASE MoveFiles
    BY <1>1, <1>6 DEF MoveFiles, Ending, Idle, Generating, history
<1> QED BY <1>3, <1>4, <1>5, <1>6

LEMMA FailureSteps ==
    ASSUME TypesInv, SeedFails \/ Kill \/ WorkerDies
    PROVE  Ending /\ Abandoned /\ UNCHANGED <<live, temp, files, tempFiles, strayed>>
<1>1. worker.pc # "idle"
    BY WorkerIdle DEF SeedFails, Kill, WorkerDies, At
<1>2. worker' = Idle /\ Ends(worker.task) /\ Abandoned
    BY DEF SeedFails, Kill, WorkerDies, Abandoned
<1>3. /\ UNCHANGED <<queue, change, live, temp, files, tempFiles, strayed>>
      /\ lost \subseteq lost' /\ unexported \subseteq unexported'
    BY DEF SeedFails, Kill, WorkerDies, dirs
<1> QED BY <1>1, <1>2, <1>3 DEF Ending

LEMMA StepShapes ==
    ASSUME TypesInv, Step
    PROVE  \/ Quiet \/ Discard \/ Pick \/ Ending
           \/ \E c \in Change : QueueTask(c) \/ ChangeDies(c) \/ \E r \in Level : Restart(c, r)
<1>1. ASSUME NEW c \in Change, Retire(c) \/ DropConfig(c) \/ ChangeStep(c) \/ ChangeDies(c)
      PROVE  \/ Quiet \/ QueueTask(c) \/ ChangeDies(c) \/ \E r \in Level : Restart(c, r)
    BY <1>1, ViewSteps, TriggerSteps DEF ChangeStep
<1>2. CASE WorkerStep
    BY <1>2, TileSteps, SaveSuccessMoves, FileSteps DEF WorkerStep, Quiet, Steady
<1>3. CASE SeedFails \/ Kill \/ WorkerDies
    BY <1>3, FailureSteps
<1>4. CASE \E s \in seeds : \E p \in Places(s[1]) : StraySeed(s, p)
    BY <1>4 DEF StraySeed, Quiet
<1>5. CASE UNCHANGED vars
    BY <1>5 DEF vars, history, Quiet
<1> QED BY <1>1, <1>2, <1>3, <1>4, <1>5 DEF Step, Next

-----------------------------------------------------------------------------
(* Where the tasks are                                                     *)

LEMMA QueueFacts ==
    ASSUME TypesInv
    PROVE  /\ Len(queue) \in Nat /\ DOMAIN queue = 1 .. Len(queue)
           /\ \A i \in DOMAIN queue : queue[i] \in Task /\ queue[i][2] \in Level
           /\ \A i \in DOMAIN queue : queue[i] = <<queue[i][1], queue[i][2]>>
BY LenProperties DEF TypesInv, TaskTypes, Task

LEMMA QueueTaskFacts ==
    ASSUME TypesInv, NEW c \in Change, QueueTask(c)
    PROVE  LET t == <<c, change[c].at>>
           IN  /\ t \in Task /\ DOMAIN queue' = DOMAIN queue \cup {Len(queue) + 1}
               /\ \A i \in DOMAIN queue : queue'[i] = queue[i] /\ i < Len(queue) + 1
               /\ queue'[Len(queue) + 1] = t /\ Unborn(c, t[2])
               /\ UNCHANGED <<revoked, ended, worker, row>>
<1> DEFINE t == <<c, change[c].at>>
<1>1. t \in Task /\ change[c].at \in Unqueued(c)
    BY QueueTaskMoves DEF Task
<1>2. queue' = Append(queue, t) /\ queue \in Seq(Task)
    BY DEF QueueTask, TypesInv, TaskTypes
<1>3. /\ Len(queue') = Len(queue) + 1 /\ queue' \in Seq(Task) /\ queue'[Len(queue) + 1] = t
      /\ \A i \in 1 .. Len(queue) : queue'[i] = queue[i]
    BY <1>1, <1>2, AppendProperties
<1>4. DOMAIN queue' = 1 .. Len(queue) + 1
    BY <1>3, LenProperties
<1>5. Unborn(c, change[c].at)
    BY <1>1 DEF Unborn
<1>6. UNCHANGED <<revoked, ended, worker, row>>
    BY DEF QueueTask
<1> QED BY <1>1, <1>3, <1>4, <1>5, <1>6, QueueFacts

\* The first task leaves the queue, to be executed or discarded.
Leaves ==
    /\ worker = Idle /\ queue # <<>> /\ queue' = Tail(queue)
    /\ UNCHANGED <<change, row, lost, unexported>>

LEMMA LeavesFacts ==
    ASSUME TypesInv, Leaves
    PROVE  /\ 1 \in DOMAIN queue /\ Head(queue) = queue[1] /\ Head(queue) \in Task
           /\ \A i \in DOMAIN queue' : i + 1 \in DOMAIN queue /\ queue'[i] = queue[i + 1] /\ i \in Nat \ {0}
           /\ \A i \in DOMAIN queue : i # 1 => i - 1 \in DOMAIN queue' /\ queue'[i - 1] = queue[i]
<1>1. /\ Tail(queue) \in Seq(Task) /\ Len(Tail(queue)) = Len(queue) - 1
      /\ \A i \in 1 .. Len(Tail(queue)) : Tail(queue)[i] = queue[i + 1]
      /\ Head(queue) \in Task
    BY HeadTailProperties DEF TypesInv, TaskTypes, Leaves
<1>2. DOMAIN queue' = 1 .. Len(queue) - 1
    BY <1>1, LenProperties DEF Leaves
<1>3. Len(queue) \in Nat \ {0} /\ DOMAIN queue = 1 .. Len(queue)
    BY QueueFacts, EmptySeq DEF TypesInv, TaskTypes, Leaves
<1>4. Head(queue) = queue[1]
    BY DEF TypesInv, TaskTypes, Leaves
<1> QED BY <1>1, <1>2, <1>3, <1>4 DEF Leaves

LEMMA DiscardLeaves ==
    ASSUME Discard PROVE Leaves /\ UNCHANGED worker
BY DEF Discard, Leaves, history

LEMMA PickLeaves ==
    ASSUME TypesInv, Pick
    PROVE  /\ Leaves /\ UNCHANGED <<ended, revoked>> /\ worker'.task = Head(queue)
           /\ worker'.pc = "begin"
           /\ worker'.copy = [row[Head(queue)[2]] EXCEPT !.status = "Processing"]
BY DEF Pick, Leaves, Idle, history

\* What a change has left to queue depends on its record alone.
LEMMA UnqueuedSame ==
    ASSUME NEW c, change'[c] = change[c]
    PROVE  Unqueued(c)' = Unqueued(c)
<1>1. CASE change[c].pc \in {"idle", "done"}
    BY <1>1 DEF Unqueued
<1>2. CASE change[c].pc \in {"loop", "queue"}
    BY <1>2 DEF Unqueued
<1>3. CASE change[c].pc = "name"
    BY <1>3 DEF Unqueued
<1>4. CASE change[c].pc \notin {"idle", "done", "loop", "queue", "name"}
    BY <1>4 DEF Unqueued
<1> QED BY <1>1, <1>2, <1>3, <1>4

\* What a change has left to queue is queued or known to be missing.
LEMMA UnqueuedStays ==
    ASSUME TypesInv, Step, NEW c \in Change, NEW r \in Unqueued(c)
    PROVE  \/ r \in Unqueued(c)'
           \/ r \in lost' /\ r \in unexported'
           \/ QueueTask(c) /\ r = change[c].at
<1>1. CASE Quiet
  <2>1. CASE UNCHANGED change
    <3>1. Unqueued(c)' = Unqueued(c)
        BY <2>1, UnqueuedSame
    <3> QED BY <3>1
  <2>2. ASSUME NEW d \in Change, Keeps(d) PROVE r \in Unqueued(c)'
    <3>1. CASE c = d
        BY <2>2, <3>1, UnqueuedSame DEF Keeps, Unqueued
    <3>2. CASE c # d
      <4>1. change'[c] = change[c]
          BY <2>2, <3>2 DEF Keeps
      <4>2. Unqueued(c)' = Unqueued(c)
          BY <4>1, UnqueuedSame
      <4> QED BY <4>2
    <3> QED BY <3>1, <3>2
  <2> QED BY <1>1, <2>1, <2>2 DEF Quiet
<1>2. CASE Discard \/ Pick \/ Ending
  <2>1. UNCHANGED change
      BY <1>2, DiscardLeaves, PickLeaves DEF Leaves, Ending
  <2>2. Unqueued(c)' = Unqueued(c)
      BY <2>1, UnqueuedSame
  <2> QED BY <2>2
<1>3. ASSUME NEW d \in Change, QueueTask(d) PROVE r \in Unqueued(c)' \/ (d = c /\ r = change[c].at)
  <2>1. CASE c = d
      BY <1>3, <2>1, QueueTaskMoves
  <2>2. CASE c # d
    <3>1. change'[c] = change[c]
        BY <1>3, <2>2, QueueTaskMoves
    <3>2. Unqueued(c)' = Unqueued(c)
        BY <3>1, UnqueuedSame
    <3> QED BY <3>2
  <2> QED BY <2>1, <2>2
<1>4. ASSUME NEW d \in Change, ChangeDies(d)
      PROVE  r \in Unqueued(c)' \/ (r \in lost' /\ r \in unexported')
  <2>1. CASE c = d
      BY <1>4, <2>1 DEF ChangeDies
  <2>2. CASE c # d
    <3>1. change'[c] = change[c]
        BY <1>4, <2>2, ChangeDiesMoves
    <3>2. Unqueued(c)' = Unqueued(c)
        BY <3>1, UnqueuedSame
    <3> QED BY <3>2
  <2> QED BY <2>1, <2>2
<1>5. ASSUME NEW d \in Change, NEW s \in Level, Restart(d, s) PROVE r \in Unqueued(c)'
  <2>1. CASE c = d
      BY <1>5, <2>1, RestartKeeps DEF Keeps
  <2>2. CASE c # d
    <3>1. change'[c] = change[c]
        BY <1>5, <2>2, RestartKeeps DEF Keeps
    <3>2. Unqueued(c)' = Unqueued(c)
        BY <3>1, UnqueuedSame
    <3> QED BY <3>2
  <2> QED BY <2>1, <2>2
<1> QED BY <1>1, <1>2, <1>3, <1>4, <1>5, StepShapes

\* A task that is not queued now was not queued before.
LEMMA UnbornShrinks ==
    ASSUME TypesInv, Step, NEW c \in Change, NEW r \in Level, Unborn(c, r)'
    PROVE  Unborn(c, r) /\ ~ (QueueTask(c) /\ r = change[c].at)
<1>1. CASE change'[c] = change[c]
  <2>1. Unqueued(c)' = Unqueued(c)
      BY <1>1, UnqueuedSame
  <2>2. Unborn(c, r)
      BY <1>1, <2>1 DEF Unborn
  <2> QED BY <1>1, <2>2, QueueTaskMoves
<1>2. CASE Keeps(c)
  <2>1. r \in Unqueued(c)'
      BY <1>2 DEF Keeps, Unborn
  <2>2. Unborn(c, r)
      BY <1>2, <2>1 DEF Keeps, Unborn
  <2>3. QueueTask(c) => Unqueued(c)' = Unqueued(c) \ {change[c].at}
      BY QueueTaskMoves
  <2> QED BY <2>1, <2>2, <2>3
<1>3. CASE QueueTask(c)
  <2>1. change'[c].pc = "name" /\ Unqueued(c)' = Unqueued(c) \ {change[c].at}
      BY <1>3, QueueTaskMoves
  <2>2. r \in Unqueued(c) \ {change[c].at}
      BY <2>1 DEF Unborn
  <2> QED BY <2>2 DEF Unborn
<1>4. ~ ChangeDies(c)
    BY ChangeDiesMoves DEF Unborn
<1>5. CASE Quiet
    BY <1>5, <1>1, <1>2 DEF Quiet, Keeps
<1>6. CASE Discard \/ Pick \/ Ending
    BY <1>6, <1>1, DiscardLeaves, PickLeaves DEF Leaves, Ending
<1>7. ASSUME NEW d \in Change, QueueTask(d) \/ ChangeDies(d), d # c PROVE change'[c] = change[c]
    BY <1>7, QueueTaskMoves, ChangeDiesMoves
<1>8. ASSUME NEW d \in Change, NEW s \in Level, Restart(d, s)
      PROVE  Keeps(c) \/ change'[c] = change[c]
    BY <1>8, RestartKeeps DEF Keeps
<1> QED BY <1>1, <1>2, <1>3, <1>4, <1>5, <1>6, <1>7, <1>8, StepShapes

-----------------------------------------------------------------------------
(* A task is in one place                                                  *)

\* The task that is executed becomes one whose result is ready.
LEMMA EndingFacts ==
    ASSUME TypesInv, Ending
    PROVE  /\ worker.task \in Task /\ ended' = ended \cup {worker.task}
           /\ revoked' = revoked \ {worker.task} /\ worker'.task = None
           /\ queue' = queue
BY AtWork DEF Ending, Ends, Idle

LEMMA NoneIsNoTask == None \notin Task
BY TilesAssumption DEF Task

\* A task that was queued stays so, and only a trigger queues one.
LEMMA LocatedSteps ==
    ASSUME TypesInv, Step, NEW t \in Task
    PROVE  /\ Located(t) => Located(t)'
           /\ Located(t)' => Located(t) \/ \E c \in Change : QueueTask(c) /\ t = <<c, change[c].at>>
           /\ \A c \in Change : QueueTask(c) /\ t = <<c, change[c].at>> => Located(t)'
<1>1. CASE Quiet
  <2>1. /\ UNCHANGED <<queue, ended>> /\ worker'.task = worker.task
        /\ \A c \in Change : ~ QueueTask(c)
    <3>1. ASSUME NEW c \in Change, QueueTask(c) PROVE FALSE
      <4>1. DOMAIN queue' = DOMAIN queue \cup {Len(queue) + 1}
          BY <3>1, QueueTaskFacts
      <4> QED BY <1>1, <4>1, QueueFacts DEF Quiet, tasks
    <3> QED BY <1>1, <3>1 DEF Quiet, tasks
  <2> QED BY <2>1 DEF Located
<1>2. CASE Ending
  <2>1. \A c \in Change : ~ QueueTask(c)
      BY <1>2, QueueTaskMoves DEF Ending
  <2> QED BY <1>2, <2>1, EndingFacts, NoneIsNoTask DEF Located
<1>3. CASE Discard
  <2>1. Leaves /\ UNCHANGED worker /\ ended' = ended \cup {Head(queue)}
      BY <1>3, DiscardLeaves DEF Discard, Ends
  <2>2. \A c \in Change : ~ QueueTask(c)
      BY <2>1, QueueTaskMoves DEF Leaves
  <2>3. Located(t) => Located(t)'
      BY <2>1, LeavesFacts DEF Located
  <2>4. Located(t)' => Located(t)
      BY <2>1, LeavesFacts DEF Located
  <2> QED BY <2>2, <2>3, <2>4
<1>4. CASE Pick
  <2>1. Leaves /\ UNCHANGED ended /\ worker'.task = Head(queue) /\ worker = Idle
      BY <1>4, PickLeaves DEF Leaves
  <2>2. \A c \in Change : ~ QueueTask(c)
      BY <2>1, QueueTaskMoves DEF Leaves
  <2>3. Located(t) => Located(t)'
      BY <2>1, LeavesFacts, NoneIsNoTask DEF Located, Idle
  <2>4. Located(t)' => Located(t)
      BY <2>1, LeavesFacts DEF Located
  <2> QED BY <2>2, <2>3, <2>4
<1>5. ASSUME NEW d \in Change, QueueTask(d)
      PROVE  /\ Located(t) => Located(t)'
             /\ Located(t)' => Located(t) \/ t = <<d, change[d].at>>
             /\ t = <<d, change[d].at>> => Located(t)'
    BY <1>5, QueueTaskFacts DEF Located
<1>6. ASSUME NEW d \in Change, QueueTask(d), NEW c \in Change, QueueTask(c) PROVE c = d
    BY <1>6, QueueTaskMoves
<1>7. ASSUME NEW d \in Change, ChangeDies(d) \/ (\E s \in Level : Restart(d, s))
      PROVE  /\ Located(t)' <=> Located(t)
             /\ \A c \in Change : ~ QueueTask(c)
  <2>1. UNCHANGED <<queue, ended, worker>>
      BY <1>7 DEF ChangeDies, Restart, tasks
  <2>2. \A c \in Change : ~ QueueTask(c)
    <3>1. ASSUME NEW c \in Change, QueueTask(c) PROVE FALSE
      <4>1. DOMAIN queue' = DOMAIN queue \cup {Len(queue) + 1}
          BY <3>1, QueueTaskFacts
      <4> QED BY <2>1, <4>1, QueueFacts
    <3> QED BY <3>1
  <2> QED BY <2>1, <2>2 DEF Located
<1> QED BY <1>1, <1>2, <1>3, <1>4, <1>5, <1>6, <1>7, StepShapes

\* A name that a row or a copy has was in one before, or is that of the task
\* just queued.
LEMMA NamesSteps ==
    ASSUME TypesInv, Step, NEW r \in Level, NEW t \in Task, Names(r, t)'
    PROVE  Names(r, t) \/ \E c \in Change : QueueTask(c) /\ r = change[c].at /\ t = <<c, r>>
<1>1. ASSUME UNCHANGED <<row, worker>>, NEW c \in Change, \A r1 \in Level : ~ CopyNames(c, r1, t)',
             \A d \in Change \ {c} : change'[d] = change[d]
      PROVE  Names(r, t)
    BY <1>1 DEF Names, WorkNames, CopyNames, Res
<1>2. ASSUME NEW c \in Change, Retire(c) \/ Publish(c) \/ DropConfig(c) \/ CreateConfig(c)
      PROVE  Names(r, t)
  <2>1. change'[c].pc \in {"begun", "aggregate", "resources"}
      BY <1>2, GoesTypes DEF Retire, Publish, DropConfig, CreateConfig, TypesInv
  <2>2. \A d \in Change \ {c} : change'[d] = change[d]
      BY <1>2, ViewSteps DEF Keeps
  <2>3. UNCHANGED <<row, worker>>
      BY <1>2 DEF Retire, Publish, DropConfig, CreateConfig
  <2>4. \A r1 \in Level : ~ CopyNames(c, r1, t)'
      BY <2>1 DEF CopyNames, Triggering
  <2> QED BY <1>1, <2>2, <2>3, <2>4
<1>3. ASSUME NEW c \in Change, ReadRange(c) \/ SaveRange(c) PROVE Names(r, t)
  <2>1. change'[c].pc \in {"range", "resources"}
      BY <1>3 DEF ReadRange, SaveRange, TypesInv, ChangeTypes, ChangeSound, ChangeState
  <2>2. \A d \in Change \ {c} : change'[d] = change[d]
      BY <1>3, TriggerSteps DEF Keeps
  <2>3. UNCHANGED <<row, worker>>
      BY <1>3 DEF ReadRange, SaveRange
  <2>4. \A r1 \in Level : ~ CopyNames(c, r1, t)'
      BY <2>1 DEF CopyNames, Triggering
  <2> QED BY <1>1, <2>2, <2>3, <2>4
<1>4. ASSUME NEW c \in Change, ReadResources(c) PROVE Names(r, t)
  <2>1. /\ change'[c].pc = "loop"
        /\ change'[c].copy[r] = [row[r] EXCEPT !.status = "Pending"]
        /\ \A d \in Change \ {c} : change'[d] = change[d]
        /\ UNCHANGED <<row, worker>>
      BY <1>4, ReadResourcesKeeps DEF Keeps, ReadResources
  <2>2. change'[c].copy[r].task = row[r].task
      BY <2>1 DEF TypesInv, Row
  <2>3. CopyNames(c, r, t)' => row[r].task = t
      BY <2>1, <2>2 DEF CopyNames
  <2> QED BY <2>1, <2>3 DEF Names, WorkNames, CopyNames, Res
<1>5. ASSUME NEW c \in Change, NEW s \in Level, Restart(c, s) PROVE Names(r, t)
  <2>1. /\ change'[c].pc = "queue" /\ change[c].pc = "loop"
        /\ change'[c].todo = change[c].todo /\ change'[c].copy = change[c].copy
        /\ s \in change[c].todo
        /\ \A d \in Change \ {c} : change'[d] = change[d]
        /\ row' = [row EXCEPT ![s] = change[c].copy[s]] /\ UNCHANGED worker
      BY <1>5, RestartKeeps DEF Keeps, Restart
  <2>2. CopyNames(c, r, t)' => CopyNames(c, r, t)
      BY <2>1 DEF CopyNames, Triggering
  <2>3. row'[r].task = t => row[r].task = t \/ CopyNames(c, r, t)
      BY <2>1 DEF CopyNames, Triggering, TypesInv
  <2> QED BY <2>1, <2>2, <2>3 DEF Names, WorkNames, CopyNames, Res
<1>6. ASSUME NEW c \in Change, QueueTask(c)
      PROVE  Names(r, t) \/ (r = change[c].at /\ t = <<c, r>>)
  <2>1. /\ change'[c].pc = "name" /\ change[c].pc = "queue" /\ change'[c].at = change[c].at
        /\ change'[c].todo = change[c].todo /\ change'[c].copy = change[c].copy
        /\ \A d \in Change \ {c} : change'[d] = change[d]
        /\ UNCHANGED <<row, worker>>
      BY <1>6, QueueTaskMoves, QueueTaskFacts
  <2>2. CopyNames(c, r, t)' => CopyNames(c, r, t) \/ (r = change[c].at /\ t = <<c, r>>)
      BY <2>1 DEF CopyNames, Triggering
  <2> QED BY <2>1, <2>2 DEF Names, WorkNames, CopyNames, Res
<1>7. ASSUME NEW c \in Change, SaveTaskId(c) PROVE Names(r, t)
  <2>1. /\ change[c].pc = "name" /\ change[c].at \in Level
        /\ \A d \in Change \ {c} : change'[d] = change[d]
        /\ \/ change'[c] = Finished
           \/ /\ change'[c].pc = "loop" /\ change'[c].todo = change[c].todo \ {change[c].at}
              /\ \A r1 \in change'[c].todo : change'[c].copy[r1] = change[c].copy[r1]
        /\ row' = [row EXCEPT ![change[c].at].task = <<c, change[c].at>>] /\ UNCHANGED worker
      BY <1>7, NextResourceTypes DEF TypesInv, SaveTaskId
  <2>2. CopyNames(c, r, t)' => CopyNames(c, r, t)
      BY <2>1, FinishedSound DEF CopyNames, Triggering
  <2>3. row'[r].task = t => row[r].task = t \/ CopyNames(c, r, t)
      BY <2>1 DEF CopyNames, TypesInv, Row
  <2> QED BY <2>1, <2>2, <2>3 DEF Names, WorkNames, CopyNames, Res
<1>8. ASSUME NEW c \in Change, ChangeDies(c) PROVE Names(r, t)
  <2>1. UNCHANGED <<row, worker>>
      BY <1>8 DEF ChangeDies
  <2>2. \A r1 \in Level : ~ CopyNames(c, r1, t)'
      BY <1>8, ChangeDiesMoves DEF CopyNames, Triggering
  <2> QED BY <1>1, <1>8, <2>1, <2>2, ChangeDiesMoves
<1>9. ASSUME UNCHANGED change, WorkNames(r, t)' => Names(r, t),
             row'[r].task = t => Names(r, t)
      PROVE  Names(r, t)
    BY <1>9 DEF Names, CopyNames
<1>10. CASE Discard
    BY <1>9, <1>10 DEF Discard, Names, WorkNames, Res
<1>11. CASE Pick
  <2>1. Leaves /\ worker'.task = Head(queue) /\ Head(queue) \in Task
        /\ worker'.copy = [row[Head(queue)[2]] EXCEPT !.status = "Processing"]
      BY <1>11, PickLeaves, LeavesFacts
  <2>2. worker'.copy.task = row[Head(queue)[2]].task
      BY <2>1 DEF TypesInv, Row, Task
  <2>3. WorkNames(r, t)' => row[r].task = t
      BY <2>1, <2>2 DEF WorkNames, Res
  <2> QED BY <1>9, <2>1, <2>3 DEF Leaves, Names
<1>12. ASSUME worker.pc \in Generating, UNCHANGED change,
              worker'.pc \in Generating => worker'.copy = worker.copy /\ worker'.task = worker.task,
              row'[r].task = row[r].task \/ (r = Res /\ row'[r].task = worker.copy.task)
       PROVE  Names(r, t)
    BY <1>9, <1>12 DEF Names, WorkNames, Res
<1>13. CASE MarkProcessing \/ Configure \/ ClearTiles \/ (\E p \in worker.todo : SeedTile(p))
              \/ RemoveTiles \/ MoveTiles
  <2>1. Steady /\ worker.pc \in Generating /\ worker'.copy = worker.copy
      BY <1>13, TileSteps
  <2>2. row'[r].task = row[r].task \/ (r = Res /\ row'[r].task = worker.copy.task)
    <3>1. CASE MarkProcessing \/ RemoveTiles
      <4>1. worker.copy \in Row
          BY <2>1, AtWork DEF Generating
      <4>2. worker.copy.count \in Nat
          BY <4>1 DEF Row
      <4> QED BY <2>1, <3>1, <4>2, SaveTypes DEF MarkProcessing, RemoveTiles, Status
    <3>2. CASE Configure \/ ClearTiles \/ (\E p \in worker.todo : SeedTile(p)) \/ MoveTiles
        BY <3>2 DEF Configure, ClearTiles, SeedTile, MoveTiles
    <3> QED BY <1>13, <3>1, <3>2
  <2> QED BY <1>12, <2>1, <2>2 DEF Steady
<1>14. CASE SaveSuccess
  <2>1. worker.pc \in Generating /\ worker'.pc \notin Generating /\ UNCHANGED change
      BY <1>14, SaveSuccessMoves DEF Generating, Steady, Ending
  <2>2. worker.count \in Nat
      BY <2>1, AtWork DEF WorkerState, Generating
  <2>3. row'[r].task = row[r].task \/ (r = Res /\ row'[r].task = worker.copy.task)
      BY <1>14, <2>1, <2>2, SaveTypes DEF SaveSuccess, Status
  <2> QED BY <1>12, <2>1, <2>3
<1>15. CASE ReadLevels \/ (\E l \in worker.todo : WriteFile(l)) \/ RemoveFiles \/ MoveFiles
  <2>1. worker'.pc \notin Generating /\ UNCHANGED <<row, change>>
      BY <1>15, FileSteps DEF Steady, Ending
  <2> QED BY <1>9, <2>1 DEF WorkNames, Names
<1>16. CASE SeedFails \/ Kill \/ WorkerDies
  <2>1. worker' = Idle /\ worker'.pc \notin Generating /\ UNCHANGED change
      BY <1>16, FailureSteps DEF Ending, Idle, Generating
  <2>2. CASE SeedFails
    <3>1. worker.pc \in Generating
        BY <2>2 DEF SeedFails, At, Generating
    <3>2. worker.copy.count \in Nat
        BY <3>1, AtWork DEF Row, Generating
    <3>3. row'[r].task = row[r].task \/ (r = Res /\ row'[r].task = worker.copy.task)
        BY <2>2, <3>1, <3>2, SaveTypes DEF SeedFails, Status
    <3> QED BY <1>12, <2>1, <3>1, <3>3
  <2>3. CASE Kill \/ WorkerDies
    <3>1. UNCHANGED row
        BY <2>3 DEF Kill, WorkerDies
    <3> QED BY <1>9, <2>1, <3>1 DEF WorkNames, Names
  <2> QED BY <1>16, <2>2, <2>3
<1>17. CASE \E s \in seeds : \E p \in Places(s[1]) : StraySeed(s, p)
    BY <1>9, <1>17 DEF StraySeed, Names, WorkNames, Res
<1>18. CASE UNCHANGED vars
    BY <1>9, <1>18 DEF vars, Names, WorkNames, Res
<1> QED
  <2>1. CASE \E c \in Change : Retire(c) \/ DropConfig(c) \/ ChangeStep(c) \/ ChangeDies(c)
      BY <2>1, <1>2, <1>3, <1>4, <1>5, <1>6, <1>7, <1>8 DEF ChangeStep
  <2>2. CASE WorkerStep
      BY <2>2, <1>10, <1>11, <1>13, <1>14, <1>15 DEF WorkerStep
  <2> QED BY <2>1, <2>2, <1>16, <1>17, <1>18 DEF Step, Next

\* A task waits at most once, and neither is executed nor has ended then.
Single ==
    /\ \A i, j \in DOMAIN queue : queue[i] = queue[j] => i = j
    /\ \A i \in DOMAIN queue : queue[i] # worker.task /\ queue[i] \notin ended
    /\ worker.task \notin ended

LEMMA SingleStep ==
    ASSUME TypesInv, TasksInv, Step PROVE Single'
<1>0. Single /\ None \notin ended
    BY NoneIsNoTask DEF TasksInv, Single, TypesInv, TaskTypes
<1>1. CASE UNCHANGED <<queue, ended>> /\ worker'.task = worker.task
    BY <1>0, <1>1 DEF Single
<1>2. CASE Ending
  <2>1. \A i \in DOMAIN queue : queue[i] # None
      BY QueueFacts, NoneIsNoTask
  <2> QED BY <1>0, <1>2, <2>1, EndingFacts, NoneIsNoTask DEF Single
<1>3. CASE Discard
  <2>1. Leaves /\ UNCHANGED worker /\ ended' = ended \cup {Head(queue)} /\ worker = Idle
      BY <1>3, DiscardLeaves DEF Discard, Ends
  <2>2. \A i, j \in DOMAIN queue' : queue'[i] = queue'[j] => i = j
      BY <1>0, <2>1, LeavesFacts DEF Single
  <2>3. \A i \in DOMAIN queue' : queue'[i] # Head(queue)
      BY <1>0, <2>1, LeavesFacts DEF Single
  <2>4. \A i \in DOMAIN queue' : queue'[i] # worker'.task /\ queue'[i] \notin ended'
      BY <1>0, <2>1, <2>3, LeavesFacts DEF Single
  <2>5. worker'.task \notin ended'
      BY <1>0, <2>1, LeavesFacts, NoneIsNoTask DEF Idle
  <2> QED BY <2>2, <2>4, <2>5 DEF Single
<1>4. CASE Pick
  <2>1. Leaves /\ UNCHANGED ended /\ worker'.task = Head(queue)
      BY <1>4, PickLeaves
  <2>2. \A i, j \in DOMAIN queue' : queue'[i] = queue'[j] => i = j
      BY <1>0, <2>1, LeavesFacts DEF Single
  <2>3. \A i \in DOMAIN queue' : queue'[i] # worker'.task /\ queue'[i] \notin ended'
      BY <1>0, <2>1, LeavesFacts DEF Single
  <2>4. worker'.task \notin ended'
      BY <1>0, <2>1, LeavesFacts DEF Single
  <2> QED BY <2>2, <2>3, <2>4 DEF Single
<1>5. ASSUME NEW c \in Change, QueueTask(c) PROVE Single'
  <2> DEFINE t == <<c, change[c].at>>
             n == Len(queue) + 1
  <2>1. /\ DOMAIN queue' = DOMAIN queue \cup {n}
        /\ \A i \in DOMAIN queue : queue'[i] = queue[i] /\ i < n
        /\ queue'[n] = t /\ UNCHANGED <<ended, worker>>
      BY <1>5, QueueTaskFacts
  <2>2. ~ Located(t)
      BY <1>5, QueueTaskFacts, QueueTaskMoves DEF TasksInv
  <2>3. t \notin ended /\ worker.task # t /\ \A i \in DOMAIN queue : queue[i] # t
      BY <2>2 DEF Located
  <2> HIDE DEF t, n
  <2> QED BY <1>0, <2>1, <2>3 DEF Single
<1>6. ASSUME NEW c \in Change, ChangeDies(c) \/ \E r \in Level : Restart(c, r)
      PROVE  UNCHANGED <<queue, ended>> /\ worker'.task = worker.task
    BY <1>6 DEF ChangeDies, Restart, tasks
<1>7. Quiet => UNCHANGED <<queue, ended>> /\ worker'.task = worker.task
    BY DEF Quiet, tasks
<1> QED BY <1>1, <1>2, <1>3, <1>4, <1>5, <1>6, <1>7, StepShapes

\* A task is revoked only when it was queued and has not ended.
LEMMA RevokedStep ==
    ASSUME TypesInv, TasksInv, Step, NEW t \in revoked'
    PROVE  t \notin ended' /\ Located(t)'
<1>0. \A s \in revoked : s \in Task /\ s \notin ended /\ Located(s)
    BY DEF TasksInv, TypesInv, TaskTypes
<1>1. CASE t \in revoked /\ t \notin ended'
    BY <1>0, <1>1, LocatedSteps
<1>2. ASSUME t \notin revoked \/ t \in ended'
      PROVE  \E c \in Change, r \in Level : Restart(c, r)
  <2>1. CASE UNCHANGED <<revoked, ended>>
      BY <2>1, <1>0, <1>2
  <2>2. CASE Ending
      BY <2>2, <1>0, <1>2, EndingFacts
  <2>3. CASE Discard
      BY <2>3, <1>0, <1>2 DEF Discard, Ends
  <2>4. Quiet \/ Pick => UNCHANGED <<revoked, ended>>
      BY PickLeaves DEF Quiet, tasks
  <2>5. ASSUME NEW c \in Change, QueueTask(c) \/ ChangeDies(c) PROVE UNCHANGED <<revoked, ended>>
      BY <2>5, QueueTaskFacts DEF ChangeDies, tasks
  <2> QED BY <2>1, <2>2, <2>3, <2>4, <2>5, StepShapes
<1>3. ASSUME NEW c \in Change, NEW r \in Level, Restart(c, r)
      PROVE  t \notin ended' /\ Located(t)'
  <2> DEFINE old == change[c].copy[r].task
  <2>1. /\ revoked' = revoked \cup ({old} \ ({None} \cup ended)) /\ ended' = ended
        /\ change[c].pc = "loop" /\ r \in change[c].todo /\ change[c].copy[r] \in Row
      BY <1>3, RestartKeeps DEF Restart
  <2>2. CASE t \in revoked
      BY <2>1, <2>2, <1>0, LocatedSteps
  <2>3. CASE t \notin revoked
    <3>1. t = old /\ t \notin ended /\ t \in Task
        BY <2>1, <2>3 DEF Row
    <3>2. Names(r, t)
        BY <2>1, <3>1 DEF Names, CopyNames, Triggering
    <3>3. Located(t)
        BY <3>1, <3>2 DEF TasksInv
    <3> QED BY <2>1, <3>1, <3>3, LocatedSteps
  <2> QED BY <2>2, <2>3
<1> QED BY <1>1, <1>2, <1>3

LEMMA TasksInit == Init => TasksInv
<1> SUFFICES ASSUME Init PROVE TasksInv
    OBVIOUS
<1>0. TypesInv
    BY TypesInit
<1>1. /\ DOMAIN queue = {} /\ revoked = {} /\ ended = {} /\ worker = Idle
      /\ \A r \in Level : row[r].task = None
      /\ \A c \in Change : change[c] = Asleep
  <2>1. DOMAIN queue = {}
      BY EmptySeq, LenProperties DEF Init
  <2> QED BY <2>1 DEF Init
<1>2. \A t \in Task : ~ Located(t)
    BY <1>1, NoneIsNoTask DEF Located, Idle
<1>3. \A r \in Level : \A t \in Task : ~ Names(r, t)
    BY <1>1, NoneIsNoTask DEF Names, WorkNames, CopyNames, Idle, Generating, Asleep, Triggering
<1>4. \A c \in Change : \A r \in Level : ~ Located(<<c, r>>)
    BY <1>2 DEF Task
<1> QED BY <1>1, <1>3, <1>4 DEF TasksInv

LEMMA TasksStep == TypesInv /\ TasksInv /\ Step => TasksInv'
<1> SUFFICES ASSUME TypesInv, TasksInv, Step PROVE TasksInv'
    OBVIOUS
<1>1. ASSUME NEW r \in Level, NEW t \in Task, Names(r, t)' PROVE Located(t)' /\ t[2] = r
  <2>1. CASE Names(r, t)
      BY <2>1, LocatedSteps DEF TasksInv
  <2>2. CASE \E c \in Change : QueueTask(c) /\ r = change[c].at /\ t = <<c, r>>
      BY <2>2, LocatedSteps
  <2> QED BY <1>1, <2>1, <2>2, NamesSteps
<1>2. ASSUME NEW c \in Change, NEW r \in Level, Unborn(c, r)' PROVE ~ Located(<<c, r>>)'
  <2>1. Unborn(c, r) /\ ~ (QueueTask(c) /\ r = change[c].at)
      BY <1>2, UnbornShrinks
  <2>2. ~ Located(<<c, r>>) /\ <<c, r>> \in Task
      BY <2>1 DEF TasksInv, Task
  <2> QED BY <2>1, <2>2, LocatedSteps
<1>3. Single'
    BY SingleStep
<1>4. \A t \in revoked' : t \notin ended' /\ Located(t)'
    BY RevokedStep
<1> QED BY <1>1, <1>2, <1>3, <1>4 DEF TasksInv, Single, Task

-----------------------------------------------------------------------------
(* What is owed stays owed until its task is picked                        *)

LEMMA MakersAreChanges ==
    ASSUME NEW k \in Kind PROVE Makers(k) \subseteq Change
BY TilesAssumption DEF Kind, Makers

\* A task just queued is new, and behind all others.
LEMMA QueuedLast ==
    ASSUME TypesInv, TasksInv, NEW c \in Change, QueueTask(c)
    PROVE  LET t == <<c, change[c].at>>
               n == Len(queue) + 1
           IN  /\ n \in DOMAIN queue' /\ queue'[n] = t /\ t \notin revoked /\ revoked' = revoked
               /\ \A i \in DOMAIN queue' : queue'[i] # t => i \in DOMAIN queue /\ i < n
               /\ \A i \in DOMAIN queue : i \in DOMAIN queue' /\ queue'[i] = queue[i]
<1> DEFINE t == <<c, change[c].at>>
           n == Len(queue) + 1
<1>1. /\ DOMAIN queue' = DOMAIN queue \cup {n}
      /\ \A i \in DOMAIN queue : queue'[i] = queue[i] /\ i < n
      /\ queue'[n] = t /\ revoked' = revoked /\ Unborn(c, change[c].at)
    BY QueueTaskFacts
<1>2. ~ Located(t)
    BY <1>1, QueueTaskMoves DEF TasksInv
<1>3. t \notin revoked
    BY <1>2 DEF TasksInv
<1> HIDE DEF t, n
<1>4. n \in DOMAIN queue' /\ \A i \in DOMAIN queue' : queue'[i] # t => i \in DOMAIN queue /\ i < n
    BY <1>1
<1> QED BY <1>1, <1>3, <1>4 DEF t, n

LEMMA MissingStays ==
    ASSUME TypesInv, Step, NEW k \in Kind, NEW r \in Missing(k)
    PROVE  r \in Missing(k)' \/ \E c \in Makers(k) : QueueTask(c) /\ r = change[c].at
<1>1. CASE lost \subseteq lost' /\ unexported \subseteq unexported'
    BY <1>1 DEF Missing
<1>2. Quiet \/ Ending \/ Discard \/ Pick => lost \subseteq lost' /\ unexported \subseteq unexported'
    BY DiscardLeaves, PickLeaves DEF Quiet, Ending, Leaves
<1>3. ASSUME NEW c \in Change, ChangeDies(c) \/ \E s \in Level : Restart(c, s)
      PROVE  lost \subseteq lost' /\ unexported \subseteq unexported'
    BY <1>3 DEF ChangeDies, Restart
<1>4. ASSUME NEW c \in Change, QueueTask(c)
      PROVE  r \in Missing(k)' \/ (c \in Makers(k) /\ r = change[c].at)
  <2> DEFINE t == <<c, change[c].at>>
  <2>1. /\ lost' = lost \ {change[c].at}
        /\ unexported' = IF Exports(t) THEN unexported \ {change[c].at} ELSE unexported
      BY <1>4 DEF QueueTask
  <2>2. Exports(t) <=> c \in Approval
      BY DEF Exports
  <2>3. CASE k = "tiles"
      BY <2>1, <2>3 DEF Missing, Makers
  <2>4. CASE k = "files"
      BY <2>1, <2>2, <2>4 DEF Missing, Makers
  <2> QED BY <2>3, <2>4 DEF Kind
<1> QED BY <1>1, <1>2, <1>3, <1>4, StepShapes

LEMMA PendingStays ==
    ASSUME TypesInv, Step, NEW k \in Kind, NEW r, Pending(k, r)
    PROVE  \/ Pending(k, r)' \/ r \in Missing(k)'
           \/ \E c \in Makers(k) : QueueTask(c) /\ r = change[c].at
<1>1. PICK c \in Makers(k) : r \in Unqueued(c)
    BY DEF Pending
<1>2. \/ r \in Unqueued(c)' \/ (r \in lost' /\ r \in unexported')
      \/ (QueueTask(c) /\ r = change[c].at)
    BY <1>1, MakersAreChanges, UnqueuedStays
<1>3. CASE r \in Unqueued(c)'
  <2>1. Pending(k, r)'
      BY <1>3 DEF Pending, Makers
  <2> QED BY <2>1
<1>4. r \in lost' /\ r \in unexported' => r \in Missing(k)'
    BY DEF Missing
<1> QED BY <1>1, <1>2, <1>3, <1>4

\* The generation that is restarted was of the resource, which has another
\* one coming, unless its files were dropped for one that makes none.
LEMMA RestartOwes ==
    ASSUME TypesInv, TasksInv, NEW c \in Change, NEW r \in Level, Restart(c, r),
           NEW k \in Kind, NEW t \in revoked', t \notin revoked, t[1] \in Makers(k)
    PROVE  t[2] = r /\ (Pending(k, r)' \/ r \in Missing(k)')
<1> DEFINE old == change[c].copy[r].task
           stopped == {old} \ ({None} \cup ended)
<1>1. /\ change[c].pc = "loop" /\ r \in change[c].todo /\ change[c].copy[r] \in Row
      /\ revoked' = revoked \cup stopped /\ lost' = lost
      /\ unexported' = unexported \cup Dropped(c, stopped)
      /\ Unqueued(c)' = Unqueued(c) /\ r \in Unqueued(c)
    BY RestartKeeps DEF Restart, Keeps
<1>2. t = old /\ t \in Task /\ t \in stopped
    BY <1>1 DEF Row
<1>3. t[2] = r
  <2>1. Names(r, t)
      BY <1>1, <1>2 DEF Names, CopyNames, Triggering
  <2> QED BY <1>2, <2>1 DEF TasksInv
<1>4. CASE c \in Makers(k)
  <2>1. Pending(k, r)'
      BY <1>1, <1>4 DEF Pending, Makers
  <2> QED BY <1>3, <2>1
<1>5. CASE c \notin Makers(k)
  <2>1. k = "files" /\ c \notin Approval /\ Exports(t)
      BY <1>5 DEF Makers, Kind, Exports
  <2>2. t[2] \in Dropped(c, stopped)
      BY <1>2, <2>1 DEF Dropped
  <2>3. r \in Missing(k)'
      BY <1>1, <1>3, <2>1, <2>2 DEF Missing
  <2> QED BY <1>3, <2>3
<1> QED BY <1>4, <1>5

\* Only a trigger revokes.
LEMMA RevokedShrinks ==
    ASSUME TypesInv, Step
    PROVE  revoked' \subseteq revoked \/ \E c \in Change, r \in Level : Restart(c, r)
<1>1. Quiet \/ Pick => revoked' = revoked
    BY PickLeaves DEF Quiet, tasks
<1>2. Ending => revoked' \subseteq revoked
    BY EndingFacts
<1>3. Discard => revoked' \subseteq revoked
    BY DEF Discard, Ends
<1>4. ASSUME NEW c \in Change, QueueTask(c) \/ ChangeDies(c) PROVE revoked' = revoked
    BY <1>4, QueueTaskFacts DEF ChangeDies, tasks
<1> QED BY <1>1, <1>2, <1>3, <1>4, StepShapes

\* Of the queue, only the first task is ever taken.
LEMMA QueueSteps ==
    ASSUME TypesInv, TasksInv, Step
    PROVE  \/ Leaves /\ (Discard \/ Pick)
           \/ \A i \in DOMAIN queue : i \in DOMAIN queue' /\ queue'[i] = queue[i]
<1>1. Quiet \/ Ending => queue' = queue
    BY EndingFacts DEF Quiet, tasks
<1>2. Discard \/ Pick => Leaves
    BY DiscardLeaves, PickLeaves
<1>3. ASSUME NEW c \in Change, ChangeDies(c) \/ \E r \in Level : Restart(c, r)
      PROVE  queue' = queue
    BY <1>3 DEF ChangeDies, Restart, tasks
<1>4. ASSUME NEW c \in Change, QueueTask(c)
      PROVE  \A i \in DOMAIN queue : i \in DOMAIN queue' /\ queue'[i] = queue[i]
    BY <1>4, QueuedLast
<1> QED BY <1>1, <1>2, <1>3, <1>4, StepShapes

\* Only a trigger makes the queue longer.
LEMMA QueueGrows ==
    ASSUME TypesInv, Step
    PROVE  DOMAIN queue' \subseteq DOMAIN queue \/ \E c \in Change : QueueTask(c)
<1>1. Quiet \/ Ending => queue' = queue
    BY EndingFacts DEF Quiet, tasks
<1>2. Discard \/ Pick => DOMAIN queue' \subseteq DOMAIN queue
  <2>1. Discard \/ Pick => Leaves
      BY DiscardLeaves, PickLeaves
  <2>2. ASSUME Leaves, NEW i \in DOMAIN queue' PROVE i \in DOMAIN queue
    <3>1. i \in Nat \ {0} /\ i + 1 \in 1 .. Len(queue)
        BY <2>2, LeavesFacts, QueueFacts
    <3> QED BY <3>1, QueueFacts
  <2> QED BY <2>1, <2>2
<1>3. ASSUME NEW c \in Change, ChangeDies(c) \/ \E r \in Level : Restart(c, r)
      PROVE  queue' = queue
    BY <1>3 DEF ChangeDies, Restart, tasks
<1> QED BY <1>1, <1>2, <1>3, StepShapes

LEMMA OwedStays ==
    ASSUME TypesInv, TasksInv, Step, NEW k \in Kind, NEW r \in Level, Owed(k, r)
    PROVE  Owed(k, r)' \/ (Pick /\ Head(queue)[1] \in Makers(k) /\ Head(queue)[2] = r)
<1>1. ASSUME NEW c \in Makers(k), QueueTask(c), r = change[c].at PROVE Owed(k, r)'
  <2> DEFINE t == <<c, change[c].at>>
             n == Len(queue) + 1
  <2>1. n \in DOMAIN queue' /\ queue'[n] = t /\ t \notin revoked'
      BY <1>1, MakersAreChanges, QueuedLast
  <2>2. t[1] \in Makers(k) /\ t[2] = r
      BY <1>1
  <2> HIDE DEF t, n
  <2>3. Coming(k, r)'
      BY <2>1, <2>2 DEF Coming, Makers
  <2> QED BY <2>3 DEF Owed
<1>2. CASE Pending(k, r)
  <2>1. \/ Pending(k, r)' \/ r \in Missing(k)'
        \/ \E c \in Makers(k) : QueueTask(c) /\ r = change[c].at
      BY <1>2, PendingStays
  <2> QED BY <2>1, <1>1 DEF Owed
<1>3. CASE r \in Missing(k)
  <2>1. r \in Missing(k)' \/ \E c \in Makers(k) : QueueTask(c) /\ r = change[c].at
      BY <1>3, MissingStays
  <2> QED BY <2>1, <1>1 DEF Owed
<1>4. CASE Coming(k, r)
  <2>1. PICK i \in DOMAIN queue :
          queue[i][1] \in Makers(k) /\ queue[i][2] = r /\ queue[i] \notin revoked
      BY <1>4 DEF Coming
  <2>2. CASE queue[i] \in revoked'
    <3>1. PICK c \in Change, s \in Level : Restart(c, s)
        BY <2>1, <2>2, RevokedShrinks
    <3>2. queue[i][2] = s /\ (Pending(k, s)' \/ s \in Missing(k)')
        BY <2>1, <2>2, <3>1, RestartOwes
    <3> QED BY <2>1, <3>2 DEF Owed
  <2>3. CASE queue[i] \notin revoked'
    <3>1. CASE i \in DOMAIN queue' /\ queue'[i] = queue[i]
      <4>1. Coming(k, r)'
          BY <2>1, <2>3, <3>1 DEF Coming, Makers
      <4> QED BY <4>1 DEF Owed
    <3>2. CASE Leaves /\ (Discard \/ Pick)
      <4>1. CASE i # 1
        <5>1. i - 1 \in DOMAIN queue' /\ queue'[i - 1] = queue[i]
            BY <3>2, <4>1, LeavesFacts
        <5>2. Coming(k, r)'
            BY <2>1, <2>3, <5>1 DEF Coming, Makers
        <5> QED BY <5>2 DEF Owed
      <4>2. CASE i = 1
        <5>1. Head(queue) = queue[i]
            BY <3>2, <4>2, LeavesFacts
        <5>2. ~ Discard
            BY <2>1, <5>1 DEF Discard
        <5> QED BY <2>1, <3>2, <5>1, <5>2
      <4> QED BY <4>1, <4>2
    <3> QED BY <3>1, <3>2, QueueSteps
  <2> QED BY <2>2, <2>3
<1> QED BY <1>2, <1>3, <1>4 DEF Owed

\* Nothing is revoked unless another task follows, or none is to come.
LEMMA FollowedInit == Init => FollowedInv
BY DEF Init, FollowedInv

LEMMA FollowedStep == TypesInv /\ TasksInv /\ FollowedInv /\ Step => FollowedInv'
<1> SUFFICES ASSUME TypesInv, TasksInv, FollowedInv, Step,
                    NEW k \in Kind, NEW t \in revoked', t[1] \in Makers(k)
             PROVE  Pending(k, t[2])' \/ t[2] \in Missing(k)' \/ Followed(k, t)'
    BY DEF FollowedInv, Makers
<1>1. CASE t \notin revoked
  <2>1. PICK c \in Change, r \in Level : Restart(c, r)
      BY <1>1, RevokedShrinks
  <2> QED BY <1>1, <2>1, RestartOwes
<1>2. CASE t \in revoked
  <2>0. t \in Task /\ Located(t) /\ t \notin ended
      BY <1>2 DEF TasksInv, TypesInv, TaskTypes
  <2>1. ASSUME NEW c \in Change, QueueTask(c) PROVE t # <<c, change[c].at>>
      BY <1>2, <2>1, QueuedLast
  <2>2. ASSUME NEW c \in Makers(k), QueueTask(c), t[2] = change[c].at PROVE Followed(k, t)'
    <3> DEFINE n == Len(queue) + 1
    <3>1. c \in Change
        BY MakersAreChanges
    <3>2. /\ n \in DOMAIN queue' /\ queue'[n] = <<c, change[c].at>> /\ queue'[n] \notin revoked'
          /\ \A i \in DOMAIN queue' : queue'[i] # <<c, change[c].at>> => i < n
        BY <2>2, <3>1, QueuedLast
    <3>3. queue'[n][1] \in Makers(k) /\ queue'[n][2] = t[2]
        BY <2>2, <3>2
    <3>4. \A i \in DOMAIN queue' : queue'[i] = t => i < n
        BY <2>1, <2>2, <3>1, <3>2
    <3> HIDE DEF n
    <3> QED BY <3>2, <3>3, <3>4 DEF Followed, Makers
  <2>3. CASE Pending(k, t[2]) \/ t[2] \in Missing(k)
      BY <2>2, <2>3, PendingStays, MissingStays
  <2>4. CASE Followed(k, t)
    <3>1. PICK j \in DOMAIN queue :
            /\ queue[j][1] \in Makers(k) /\ queue[j][2] = t[2] /\ queue[j] \notin revoked
            /\ \A i \in DOMAIN queue : queue[i] = t => i < j
        BY <2>4 DEF Followed
    <3>2. CASE queue[j] \in revoked'
      <4>1. PICK c \in Change, r \in Level : Restart(c, r)
          BY <3>1, <3>2, RevokedShrinks
      <4>2. queue[j][2] = r /\ (Pending(k, r)' \/ r \in Missing(k)')
          BY <3>1, <3>2, <4>1, RestartOwes
      <4> QED BY <3>1, <4>2
    <3>3. CASE queue[j] \notin revoked' /\ \A i \in DOMAIN queue : i \in DOMAIN queue' /\ queue'[i] = queue[i]
      <4>1. ASSUME NEW i \in DOMAIN queue', queue'[i] = t PROVE i < j
        <5>1. CASE i \in DOMAIN queue
            BY <3>1, <3>3, <4>1, <5>1
        <5>2. CASE i \notin DOMAIN queue
          <6>1. PICK c \in Change : QueueTask(c)
              BY <5>2, QueueGrows
          <6> QED BY <6>1, <2>1, <4>1, <5>2, QueuedLast
        <5> QED BY <5>1, <5>2
      <4> QED BY <3>1, <3>3, <4>1 DEF Followed, Makers
    <3>4. CASE queue[j] \notin revoked' /\ Leaves /\ (Discard \/ Pick)
      <4>1. j # 1
        <5>1. worker.task # t
            BY <2>0, <3>4, NoneIsNoTask DEF Leaves, Idle
        <5>2. PICK i \in DOMAIN queue : queue[i] = t
            BY <2>0, <5>1 DEF Located
        <5> QED BY <3>1, <5>2, QueueFacts
      <4>2. j - 1 \in DOMAIN queue' /\ queue'[j - 1] = queue[j]
          BY <3>4, <4>1, LeavesFacts
      <4>3. \A i \in DOMAIN queue' : queue'[i] = t => i < j - 1
        <5> SUFFICES ASSUME NEW i \in DOMAIN queue', queue'[i] = t PROVE i < j - 1
            OBVIOUS
        <5>1. i + 1 \in DOMAIN queue /\ queue[i + 1] = t /\ i \in Nat
            BY <3>4, LeavesFacts
        <5>2. i + 1 < j /\ j \in Nat
            BY <3>1, <5>1, QueueFacts
        <5> QED BY <5>1, <5>2
      <4> QED BY <3>1, <3>4, <4>2, <4>3 DEF Followed, Makers
    <3> QED BY <3>2, <3>3, <3>4, QueueSteps
  <2> QED BY <1>2, <2>3, <2>4 DEF FollowedInv
<1> QED BY <1>1, <1>2

-----------------------------------------------------------------------------
(* The temporary directories                                               *)

\* A temporary directory that is not in use is empty, but for what failures
\* left there.
LEMMA CutInit == Init => CutInv
BY DEF Init, CutInv

LEMMA CutStep == TypesInv /\ CutInv /\ Step => CutInv'
<1> SUFFICES ASSUME TypesInv, CutInv, Step, NEW r \in Level
             PROVE  \/ temp'[r] = {} \/ r \in cut' \cup strayed'
                    \/ worker'.pc \in {"seed", "move"} /\ Res' = r
    BY DEF CutInv
<1>0. /\ temp \in [Level -> SUBSET Tile]
      /\ \/ temp[r] = {} \/ r \in cut \cup strayed
         \/ worker.pc \in {"seed", "move"} /\ Res = r
    BY DEF CutInv, TypesInv, DirTypes, TileDir
<1>1. CASE UNCHANGED <<temp, cut, strayed, worker>>
    BY <1>0, <1>1 DEF Res
<1>2. ASSUME NEW c \in Change, Retire(c) \/ DropConfig(c) \/ ChangeStep(c) \/ ChangeDies(c)
      PROVE  UNCHANGED <<temp, cut, strayed, worker>>
    BY <1>2 DEF ChangeStep, Retire, DropConfig, ChangeDies, Publish, ReadRange, SaveRange,
                CreateConfig, ReadResources, Restart, QueueTask, SaveTaskId, dirs, history
<1>3. CASE Discard
    BY <1>1, <1>3 DEF Discard, dirs, history
<1>4. CASE Pick
    BY <1>0, <1>4 DEF Pick, Idle, dirs, history
<1>5. CASE MarkProcessing \/ Configure \/ ClearTiles
  <2>1. UNCHANGED <<temp, cut, strayed>> /\ worker.pc \notin {"seed", "move"}
      BY <1>5 DEF MarkProcessing, Configure, ClearTiles, At, dirs, history
  <2> QED BY <1>0, <2>1
<1>6. ASSUME NEW p, SeedTile(p) PROVE worker'.pc = "seed" /\ Res' = Res
                                      /\ \A s \in Level : s # Res => temp'[s] = temp[s]
                                      /\ UNCHANGED <<cut, strayed>>
    BY <1>0, <1>6, AtWork DEF SeedTile, At, WorkerState, Res, history
<1>7. CASE RemoveTiles
  <2>1. /\ UNCHANGED <<temp, cut, strayed>> /\ worker'.pc = "move"
        /\ worker'.task = worker.task
      BY <1>7, AtWork DEF RemoveTiles, At, WorkerState, history
  <2> QED BY <1>0, <2>1 DEF Res
<1>8. CASE MoveTiles
  <2>1. /\ Res \in Level /\ temp' = [temp EXCEPT ![Res] = {}] /\ UNCHANGED <<cut, strayed>>
      BY <1>8, AtWork DEF MoveTiles, At, history
  <2> QED BY <1>0, <2>1
<1>9. CASE SaveSuccess
  <2>1. UNCHANGED <<temp, cut, strayed>> /\ worker.pc = "save"
      BY <1>9 DEF SaveSuccess, At, dirs, history
  <2> QED BY <1>0, <2>1
<1>10. CASE ReadLevels \/ (\E l \in worker.todo : WriteFile(l)) \/ RemoveFiles \/ MoveFiles
  <2>1. UNCHANGED <<temp, cut, strayed>> /\ worker.pc \notin {"seed", "move"}
      BY <1>10, FileSteps DEF Exporting
  <2> QED BY <1>0, <2>1
<1>11. CASE SeedFails \/ Kill \/ WorkerDies
  <2>1. UNCHANGED <<temp, strayed>> /\ cut' = IF temp[Res] # {} THEN cut \cup {Res} ELSE cut
      BY <1>11, FailureSteps DEF Abandoned
  <2> QED BY <1>0, <2>1
<1>12. ASSUME NEW s \in seeds, NEW p, StraySeed(s, p)
       PROVE  /\ UNCHANGED <<cut, worker>> /\ strayed' = strayed \cup {s[1]}
              /\ \A x \in Level : x # s[1] => temp'[x] = temp[x]
    BY <1>0, <1>12 DEF StraySeed
<1>13. CASE UNCHANGED vars
    BY <1>1, <1>13 DEF vars, dirs, history
<1>14. ASSUME NEW p, SeedTile(p)
       PROVE  \/ temp'[r] = {} \/ r \in cut' \cup strayed'
              \/ worker'.pc \in {"seed", "move"} /\ Res' = r
    BY <1>0, <1>6, <1>14
<1>15. CASE \E s \in seeds : \E p \in Places(s[1]) : StraySeed(s, p)
  <2>1. PICK s \in seeds : \E p \in Places(s[1]) : StraySeed(s, p)
      BY <1>15
  <2>2. /\ UNCHANGED <<cut, worker>> /\ strayed' = strayed \cup {s[1]}
        /\ \A x \in Level : x # s[1] => temp'[x] = temp[x]
      BY <1>12, <2>1
  <2> QED BY <1>0, <2>2 DEF Res
<1>16. CASE WorkerStep
    BY <1>16, <1>3, <1>4, <1>5, <1>14, <1>7, <1>8, <1>9, <1>10 DEF WorkerStep
<1> QED BY <1>1, <1>2, <1>16, <1>11, <1>15, <1>13 DEF Step, Next

-----------------------------------------------------------------------------
(* What a resource shows                                                   *)

\* Nothing that depends on the view alone changes with the view unchanged.
LEMMA ViewSame ==
    ASSUME UNCHANGED <<content, config>>, NEW r
    PROVE  /\ Visible(r)' = Visible(r) /\ Exact(r)' = Exact(r)
           /\ Places(r)' = Places(r) /\ Admins(r)' = Admins(r)
           /\ Empty(r)' = Empty(r)
           /\ \A p, c : Drawn(r, p, c)' = Drawn(r, p, c)
<1>1. Visible(r)' = Visible(r) /\ Exact(r)' = Exact(r)
    BY DEF Visible, Exact
<1>2. Places(r)' = Places(r) /\ Admins(r)' = Admins(r)
    BY <1>1 DEF Places, Admins
<1>3. Empty(r)' = Empty(r)
    BY <1>1 DEF Empty
<1>4. \A p, c : Drawn(r, p, c)' = Drawn(r, p, c)
    BY <1>1 DEF Drawn
<1> QED BY <1>1, <1>2, <1>3, <1>4

\* What is shown stays so with the view and the directory unchanged.
LEMMA ShownSame ==
    ASSUME UNCHANGED <<content, config>>, NEW r, live'[r] = live[r], r \in cut => r \in cut',
           Shown(r)
    PROVE  Shown(r)'
BY ViewSame DEF Shown, TileAt

LEMMA SeededSame ==
    ASSUME UNCHANGED <<content, config>>, NEW r, temp'[r] = temp[r], r \in cut => r \in cut',
           r \in strayed => r \in strayed', Seeded(r),
           worker'.config = worker.config, worker'.todo = worker.todo
    PROVE  Seeded(r)'
BY ViewSame DEF Seeded, TileAt

\* A step that is of no concern to the tiles of r
Apart(r) ==
    /\ UNCHANGED <<content, config>> /\ live'[r] = live[r]
    /\ temp'[r] = temp[r] \/ r \in strayed'
    /\ row'[r].status = row[r].status /\ row'[r].count = row[r].count
    /\ cut \subseteq cut' /\ strayed \subseteq strayed'
    /\ Works(r)' <=> Works(r)
    /\ Works(r) => worker' = worker

LEMMA ApartRight ==
    ASSUME NEW r, Apart(r), TilesRight(r)
    PROVE  TilesRight(r)'
<1>1. Shown(r) => Shown(r)'
    BY ShownSame DEF Apart
<1>2. Exact(r)' = Exact(r) /\ Empty(r)' = Empty(r)
    BY ViewSame DEF Apart
<1>3. CASE Works(r) /\ Progress(r)
  <2>1. worker' = worker /\ Works(r)'
      BY <1>3 DEF Apart
  <2>2. Seeded(r) => Seeded(r)'
    <3>1. CASE temp'[r] = temp[r]
        BY <2>1, <3>1, SeededSame DEF Apart
    <3>2. CASE r \in strayed'
        BY <1>2, <2>1, <3>2 DEF Seeded, Apart
    <3> QED BY <3>1, <3>2 DEF Apart
  <2>3. Progress(r)'
      BY <1>1, <1>2, <1>3, <2>1, <2>2 DEF Progress, Apart
  <2> QED BY <2>1, <2>3 DEF TilesRight
<1>4. CASE ~ Works(r) /\ (row[r].status = "Error" \/ Made(r))
  <2>1. ~ Works(r)' /\ row'[r].status = row[r].status /\ row'[r].count = row[r].count
      BY <1>4 DEF Apart
  <2>2. Made(r) => Made(r)'
      BY <1>1, <1>2, <2>1 DEF Made, Apart
  <2> QED BY <1>4, <2>1, <2>2 DEF TilesRight
<1> QED BY <1>3, <1>4 DEF TilesRight

-----------------------------------------------------------------------------
(* The tiles of a resource, over every step                                *)

\* A step of a change is of no concern to a resource, or it owes it a task.
LEMMA ChangeApart ==
    ASSUME TypesInv, NEW c \in Change,
           Retire(c) \/ DropConfig(c) \/ ChangeStep(c) \/ ChangeDies(c), NEW r \in Level
    PROVE  Apart(r) \/ Owed("tiles", r)'
<1>1. ASSUME UNCHANGED <<content, config, live, temp, worker, cut, strayed>>,
             row'[r].status = row[r].status, row'[r].count = row[r].count
      PROVE  Apart(r)
    BY <1>1 DEF Apart, Works, Res
<1>2. ASSUME r \in Unqueued(c)' PROVE Owed("tiles", r)'
    BY <1>2 DEF Owed, Pending, Makers
<1>3. CASE Retire(c) \/ Publish(c) \/ DropConfig(c) \/ CreateConfig(c)
    BY <1>2, <1>3, ViewSteps
<1>4. CASE ReadRange(c) \/ SaveRange(c) \/ ReadResources(c) \/ QueueTask(c) \/ ChangeDies(c)
  <2>1. UNCHANGED <<content, config, live, temp, worker, cut, strayed, row>>
      BY <1>4 DEF ReadRange, SaveRange, ReadResources, QueueTask, ChangeDies, data, dirs, history
  <2> QED BY <1>1, <2>1
<1>5. ASSUME NEW s \in Level, Restart(c, s) PROVE Apart(r) \/ Owed("tiles", r)'
  <2>1. CASE s = r
    <3>1. r \in Unqueued(c)'
        BY <1>5, <2>1, RestartKeeps DEF Keeps
    <3> QED BY <1>2, <3>1
  <2>2. CASE s # r
    <3>1. /\ UNCHANGED <<content, config, live, temp, worker, cut, strayed>>
          /\ row'[r] = row[r]
        BY <1>5, <2>2 DEF Restart, data, dirs, TypesInv
    <3> QED BY <1>1, <3>1
  <2> QED BY <2>1, <2>2
<1>6. CASE SaveTaskId(c)
  <2>1. UNCHANGED <<content, config, live, temp, worker, cut, strayed>>
      BY <1>6 DEF SaveTaskId, data, dirs, history
  <2>2. row'[r].status = row[r].status /\ row'[r].count = row[r].count
      BY <1>6 DEF SaveTaskId, TypesInv, Row
  <2> QED BY <1>1, <2>1, <2>2
<1> QED BY <1>3, <1>4, <1>5, <1>6 DEF ChangeStep

\* The steps of a generation are of no concern to the other resources.
LEMMA OthersApart ==
    ASSUME TypesInv, NEW r \in Level, r # Res, worker.pc # "idle",
           \/ MarkProcessing \/ Configure \/ ClearTiles \/ (\E p \in worker.todo : SeedTile(p))
           \/ RemoveTiles \/ MoveTiles \/ SaveSuccess \/ SeedFails \/ Kill \/ WorkerDies
    PROVE  Apart(r)
<1>1. Res \in Level /\ worker \in WorkerState
    BY AtWork
<1>2. /\ UNCHANGED <<content, config, strayed>>
      /\ live'[r] = live[r] /\ temp'[r] = temp[r] /\ row'[r] = row[r]
    BY <1>1 DEF MarkProcessing, Configure, ClearTiles, SeedTile, RemoveTiles, MoveTiles,
                SaveSuccess, SeedFails, Kill, WorkerDies, Save, data, dirs, history,
                TypesInv, DirTypes, TileDir
<1>3. cut \subseteq cut'
  <2>1. CASE SeedFails \/ Kill \/ WorkerDies
      BY <2>1, FailureSteps DEF Abandoned
  <2>2. CASE SaveSuccess
      BY <2>2, SaveSuccessMoves
  <2> QED BY <2>1, <2>2, TileSteps DEF Steady
<1>4. ~ Works(r) /\ ~ Works(r)'
  <2>1. worker'.task = worker.task \/ worker'.pc \notin Generating
    <3>1. CASE SeedFails \/ Kill \/ WorkerDies
        BY <3>1, FailureSteps DEF Ending, Idle, Generating
    <3>2. CASE SaveSuccess
        BY <3>2, SaveSuccessMoves
    <3> QED BY <3>1, <3>2, TileSteps DEF Steady
  <2> QED BY <2>1 DEF Works, Res
<1> QED BY <1>2, <1>3, <1>4 DEF Apart

\* The generation of r keeps on its way.
LEMMA BeginRight ==
    ASSUME TypesInv, NEW r \in Level, r = Res, MarkProcessing
    PROVE  TilesRight(r)'
<1>1. /\ UNCHANGED <<content, config>> /\ worker \in WorkerState
      /\ worker' = [worker EXCEPT !.pc = IF Exact(r) = {} THEN "clear" ELSE "configure",
                                  !.count = Cardinality(Exact(r))]
    BY AtWork DEF MarkProcessing, At, data
<1>2. /\ worker'.pc = IF Exact(r) = {} THEN "clear" ELSE "configure"
      /\ worker'.count = Cardinality(Exact(r)) /\ Res' = r
    BY <1>1 DEF WorkerState, Res
<1>3. Exact(r)' = Exact(r) /\ Empty(r)' = Empty(r)
    BY <1>1, ViewSame
<1>4. Works(r)' /\ Progress(r)'
    BY <1>2, <1>3 DEF Works, Generating, Progress, Empty
<1> QED BY <1>4 DEF TilesRight

LEMMA ConfigureRight ==
    ASSUME TypesInv, CutInv, NEW r \in Level, r = Res, Progress(r), Configure
    PROVE  TilesRight(r)'
<1>1. /\ worker.pc = "configure" /\ UNCHANGED <<content, config, temp, cut, strayed>>
      /\ worker \in WorkerState
      /\ worker' = [worker EXCEPT
            !.pc = IF config = NoConfig \/ Visible(r) = {} THEN "clear" ELSE "seed",
            !.config = config, !.todo = Places(r)]
    BY AtWork DEF Configure, At, data, dirs, history
<1>2. Exact(r) # {} /\ Visible(r) # {} /\ worker.count = Cardinality(Exact(r))
    BY <1>1, ViewFacts DEF Progress, TypesInv
<1>3. /\ worker'.pc = IF config = NoConfig THEN "clear" ELSE "seed"
      /\ worker'.config = config /\ worker'.todo = Places(r) /\ worker'.count = worker.count
      /\ Res' = r
    BY <1>1, <1>2 DEF WorkerState, Res
<1>4. /\ Exact(r)' = Exact(r) /\ Empty(r)' = Empty(r) /\ Places(r)' = Places(r)
      /\ Empty(r) <=> config = NoConfig
    BY <1>1, <1>2, ViewSame DEF Empty
<1>5. r \notin strayed /\ r \notin cut => temp'[r] = {}
    BY <1>1 DEF CutInv
<1>6. config # NoConfig => Seeded(r)'
    BY <1>1, <1>3, <1>4, <1>5 DEF Seeded
<1>7. Works(r)'
    BY <1>3 DEF Works, Generating
<1>8. Progress(r)'
    BY <1>2, <1>3, <1>4, <1>6 DEF Progress
<1> QED BY <1>7, <1>8 DEF TilesRight

LEMMA ClearRight ==
    ASSUME TypesInv, NEW r \in Level, r = Res, Progress(r), ClearTiles
    PROVE  TilesRight(r)'
<1>1. /\ worker.pc = "clear" /\ UNCHANGED <<content, config>> /\ worker \in WorkerState
      /\ worker' = [worker EXCEPT !.pc = "save"] /\ live' = [live EXCEPT ![r] = {}]
    BY AtWork DEF ClearTiles, At, data
<1>2. worker'.pc = "save" /\ worker'.count = worker.count /\ Res' = r /\ live'[r] = {}
    BY <1>1 DEF WorkerState, Res, TypesInv, DirTypes, TileDir
<1>3. Empty(r) /\ worker.count = Cardinality(Exact(r))
    BY <1>1 DEF Progress
<1>4. Exact(r)' = Exact(r) /\ Empty(r)' = Empty(r)
    BY <1>1, ViewSame
<1>5. Shown(r)'
    BY <1>2, <1>3, <1>4 DEF Shown
<1>6. Works(r)' /\ Progress(r)'
    BY <1>2, <1>3, <1>4, <1>5 DEF Works, Generating, Progress
<1> QED BY <1>6 DEF TilesRight

LEMMA SeedRight ==
    ASSUME TypesInv, NEW r \in Level, r = Res, Progress(r),
           NEW p \in worker.todo, SeedTile(p)
    PROVE  TilesRight(r)'
<1> DEFINE T == (temp[r] \ TileAt(temp[r], p)) \cup Drawn(r, p, config)
<1>1. /\ worker.pc = "seed" /\ worker \in WorkerState
      /\ UNCHANGED <<content, config, cut, strayed>>
      /\ worker' = [worker EXCEPT !.todo = @ \ {p}]
    BY AtWork DEF SeedTile, At, data, history
<1>2. Seeded(r) /\ worker.count = Cardinality(Exact(r)) /\ worker.config = config
    BY <1>1 DEF Progress, Seeded
<1>3. /\ worker'.pc = "seed" /\ worker'.count = worker.count /\ worker'.config = config
      /\ worker'.todo = worker.todo \ {p} /\ Res' = r
    BY <1>1, <1>2 DEF WorkerState, Res
<1>4. temp'[r] = T
    BY <1>2 DEF SeedTile, TypesInv, DirTypes, TileDir
<1>5. config \in Config
    BY DEF TypesInv, ViewTypes
<1>6. /\ Drawn(r, p, config) \subseteq Visible(r) \X {config}
      /\ TileAt(T, p) = Drawn(r, p, config)
      /\ \A q : q # p => TileAt(T, q) = TileAt(temp[r], q)
    BY <1>5, DrawnFacts DEF TypesInv
<1>7. /\ Exact(r)' = Exact(r) /\ Empty(r)' = Empty(r) /\ Places(r)' = Places(r)
      /\ Visible(r)' = Visible(r) /\ \A q, c : Drawn(r, q, c)' = Drawn(r, q, c)
    BY <1>1, ViewSame
<1>8. Seeded(r)'
  <2>1. ~ Empty(r)' /\ worker'.config = config'
      BY <1>1, <1>2, <1>3, <1>7 DEF Seeded
  <2>2. ASSUME r \notin strayed, NEW q \in Places(r) \ (worker.todo \ {p})
        PROVE  TileAt(T, q) = Drawn(r, q, config)
      BY <1>2, <1>6, <2>2 DEF Seeded
  <2>3. r \notin strayed /\ r \notin cut => T \subseteq Visible(r) \X {config}
      BY <1>2, <1>6 DEF Seeded
  <2>4. \A q : TileAt(temp'[r], q) = TileAt(T, q)
      BY <1>4
  <2>5. r \notin strayed' => \A q \in Places(r)' \ worker'.todo :
                               TileAt(temp[r], q)' = Drawn(r, q, config)'
    <3> SUFFICES ASSUME r \notin strayed, NEW q \in Places(r) \ (worker.todo \ {p})
                 PROVE  TileAt(temp[r], q)' = Drawn(r, q, config)'
        BY <1>1, <1>3, <1>7
    <3>1. TileAt(temp[r], q)' = TileAt(T, q)
        BY <1>4 DEF TileAt
    <3>2. Drawn(r, q, config)' = Drawn(r, q, config)
        BY <1>1 DEF Drawn, Visible
    <3> QED BY <2>2, <3>1, <3>2
  <2>6. r \notin strayed' /\ r \notin cut' => temp'[r] \subseteq Visible(r)' \X {config'}
      BY <1>1, <1>4, <1>7, <2>3
  <2> QED BY <2>1, <2>5, <2>6 DEF Seeded
<1>9. Works(r)' /\ Progress(r)'
    BY <1>2, <1>3, <1>7, <1>8 DEF Works, Generating, Progress
<1> QED BY <1>9 DEF TilesRight

LEMMA RemoveRight ==
    ASSUME TypesInv, NEW r \in Level, r = Res, Progress(r), RemoveTiles
    PROVE  TilesRight(r)'
<1>1. /\ worker.pc = "seed" /\ worker.todo = {} /\ worker \in WorkerState
      /\ UNCHANGED <<content, config, temp, cut, strayed>>
      /\ worker' = [worker EXCEPT !.pc = "move"]
    BY AtWork DEF RemoveTiles, At, data, history
<1>2. /\ worker'.pc = "move" /\ worker'.count = worker.count /\ worker'.todo = worker.todo
      /\ worker'.config = worker.config /\ Res' = r
    BY <1>1 DEF WorkerState, Res
<1>3. Seeded(r) /\ worker.count = Cardinality(Exact(r))
    BY <1>1 DEF Progress
<1>4. Seeded(r)' /\ Exact(r)' = Exact(r)
    BY <1>1, <1>2, <1>3, SeededSame, ViewSame
<1>5. Works(r)' /\ Progress(r)'
    BY <1>1, <1>2, <1>3, <1>4 DEF Works, Generating, Progress
<1> QED BY <1>5 DEF TilesRight

LEMMA MoveRight ==
    ASSUME TypesInv, NEW r \in Level, r = Res, Progress(r), MoveTiles
    PROVE  TilesRight(r)'
<1>1. /\ worker.pc = "move" /\ worker \in WorkerState
      /\ UNCHANGED <<content, config, cut, strayed>>
      /\ worker' = [worker EXCEPT !.pc = "save"]
      /\ live' = [live EXCEPT ![r] = temp[r]]
    BY AtWork DEF MoveTiles, At, data, history
<1>2. worker'.pc = "save" /\ worker'.count = worker.count /\ Res' = r /\ live'[r] = temp[r]
    BY <1>1 DEF WorkerState, Res, TypesInv, DirTypes, TileDir
<1>3. Seeded(r) /\ worker.todo = {} /\ worker.count = Cardinality(Exact(r))
    BY <1>1 DEF Progress
<1>4. /\ Exact(r)' = Exact(r) /\ Empty(r)' = Empty(r) /\ Places(r)' = Places(r)
      /\ Visible(r)' = Visible(r)
    BY <1>1, ViewSame
<1>5. r \notin strayed => Shown(r)'
  <2> SUFFICES ASSUME r \notin strayed PROVE Shown(r)'
      OBVIOUS
  <2>1. ~ Empty(r)'
      BY <1>3, <1>4 DEF Seeded
  <2>2. \A p \in Places(r) : TileAt(temp[r], p) = Drawn(r, p, config)
      BY <1>3 DEF Seeded
  <2>3. ASSUME NEW p \in Places(r)' PROVE TileAt(live[r], p)' = Drawn(r, p, config)'
    <3>1. TileAt(live[r], p)' = TileAt(temp[r], p)
        BY <1>2 DEF TileAt
    <3>2. Drawn(r, p, config)' = Drawn(r, p, config)
        BY <1>1 DEF Drawn, Visible
    <3> QED BY <1>4, <2>2, <2>3, <3>1, <3>2
  <2>4. r \notin cut' => live'[r] \subseteq Visible(r)' \X {config'}
      BY <1>1, <1>2, <1>3, <1>4 DEF Seeded
  <2> QED BY <2>1, <2>3, <2>4 DEF Shown
<1>6. Works(r)' /\ Progress(r)'
    BY <1>1, <1>2, <1>3, <1>4, <1>5 DEF Works, Generating, Progress
<1> QED BY <1>6 DEF TilesRight

LEMMA SaveRight ==
    ASSUME TypesInv, NEW r \in Level, r = Res, Progress(r), SaveSuccess
    PROVE  TilesRight(r)'
<1>1. /\ worker.pc = "save" /\ worker.pc \in Generating /\ worker'.pc \notin Generating
      /\ UNCHANGED <<content, config, live, cut, strayed>>
    BY SaveSuccessMoves DEF SaveSuccess, Generating, data, dirs
<1>2. worker.count = Cardinality(Exact(r)) /\ worker.count \in Nat
    BY <1>1, ViewFacts DEF Progress, TypesInv
<1>3. row'[r].status = "Done" /\ row'[r].count = worker.count
    BY <1>1, <1>2, SaveTypes DEF SaveSuccess, Status
<1>4. r \in strayed' \/ Shown(r)'
    BY <1>1, ShownSame DEF Progress
<1>5. Made(r)'
    BY <1>1, <1>2, <1>3, <1>4, ViewSame DEF Made
<1> QED BY <1>1, <1>5 DEF TilesRight, Works

\* A generation that is picked has everything to do.
LEMMA PickRight ==
    ASSUME TypesInv, NEW r \in Level, Pick
    PROVE  IF Head(queue)[2] = r THEN TilesRight(r)' ELSE Apart(r)
<1>1. /\ worker'.task = Head(queue) /\ worker'.pc = "begin" /\ worker = Idle
      /\ UNCHANGED <<content, config, live, temp, row, cut, strayed>>
    BY PickLeaves DEF Leaves, Pick, data, dirs, history
<1>2. Head(queue)[2] = r => Works(r)' /\ Progress(r)'
    BY <1>1 DEF Works, Progress, Generating, Res
<1>3. Head(queue)[2] # r => Apart(r)
    BY <1>1 DEF Apart, Works, Res, Generating, Idle
<1> QED BY <1>2, <1>3 DEF TilesRight

\* The task that is stopped is followed by one that does the same.
LEMMA StoppedOwed ==
    ASSUME TypesInv, TasksInv, FollowedInv, NEW k \in Kind, worker.pc # "idle",
           worker.task \in revoked, worker.task[1] \in Makers(k)
    PROVE  Owed(k, Res)
<1>1. \/ Pending(k, Res) \/ Res \in Missing(k) \/ Followed(k, worker.task)
    BY DEF FollowedInv, Res
<1>2. Followed(k, worker.task) => Coming(k, Res)
    BY DEF Followed, Coming, Res
<1> QED BY <1>1, <1>2 DEF Owed

LEMMA FailureRight ==
    ASSUME TypesInv, TasksInv, FollowedInv, Step, NEW r \in Level, r = Res,
           SeedFails \/ Kill \/ WorkerDies
    PROVE  Owed("tiles", r)' \/ TilesRight(r)'
<1>1. worker.pc # "idle" /\ worker' = Idle /\ ~ Works(r)'
    BY FailureSteps DEF Ending, Idle, Works, Generating
<1>2. CASE SeedFails
  <2>1. worker.pc \in Generating
      BY <1>2 DEF SeedFails, At, Generating
  <2>2. worker.copy.count \in Nat
      BY <1>1, <2>1, AtWork DEF Row
  <2>3. row'[r].status = "Error"
      BY <1>2, <2>1, <2>2, SaveTypes DEF SeedFails, Status
  <2> QED BY <1>1, <2>3 DEF TilesRight
<1>3. CASE Kill
  <2>1. worker.task[1] \in Makers("tiles") /\ worker.task \in revoked
      BY <1>1, <1>3, AtWork DEF Kill, Makers
  <2>2. Owed("tiles", r)
      BY <1>1, <2>1, StoppedOwed DEF Kind
  <2>3. ~ Pick
      BY <1>1 DEF Pick, Idle
  <2> QED BY <2>2, <2>3, OwedStays DEF Kind
<1>4. CASE WorkerDies
    BY <1>4 DEF WorkerDies, Owed, Missing
<1> QED BY <1>2, <1>3, <1>4

LEMMA FileStepsApart ==
    ASSUME TypesInv, NEW r \in Level,
           ReadLevels \/ (\E l \in worker.todo : WriteFile(l)) \/ RemoveFiles \/ MoveFiles
    PROVE  Apart(r)
<1>1. worker.pc \notin Generating /\ worker'.pc \notin Generating
    BY FileSteps DEF Exporting, Generating
<1>2. UNCHANGED <<row, live, temp, strayed, cut>>
    BY FileSteps
<1>3. UNCHANGED <<content, config>>
    BY DEF ReadLevels, WriteFile, RemoveFiles, MoveFiles, data
<1> QED BY <1>1, <1>2, <1>3 DEF Apart, Works

LEMMA StrayApart ==
    ASSUME TypesInv, NEW r \in Level, NEW s, NEW p, StraySeed(s, p)
    PROVE  Apart(r)
<1>1. /\ UNCHANGED <<content, config, live, row, cut, worker>>
      /\ strayed' = strayed \cup {s[1]}
    BY DEF StraySeed, data
<1>2. temp'[r] = temp[r] \/ r \in strayed'
    BY <1>1 DEF StraySeed, TypesInv, DirTypes, TileDir
<1> QED BY <1>1, <1>2 DEF Apart, Works, Res

LEMMA TilesInit == Init => TilesInv
<1> SUFFICES ASSUME Init, NEW r \in Level PROVE TilesRight(r)
    BY DEF TilesInv
<1>1. /\ row[r].status = "Done" /\ row[r].count = Cardinality(Exact(r)) /\ ~ Works(r)
      /\ live[r] = IF Exact(r) = {} THEN {} ELSE Visible(r) \X {Original}
      /\ config = Original /\ Original # NoConfig
    BY DEF Init, Works, Idle, Generating, Original, NoConfig
<1>2. Shown(r)
  <2>1. CASE Exact(r) = {}
      BY <1>1, <2>1 DEF Shown, Empty
  <2>2. CASE Exact(r) # {}
    <3>1. \A p : TileAt(live[r], p) = Drawn(r, p, config)
      <4> SUFFICES ASSUME NEW p PROVE TileAt(live[r], p) = Drawn(r, p, config)
          OBVIOUS
      <4>1. TileAt(live[r], p) \subseteq Drawn(r, p, config)
          BY <1>1, <2>2 DEF TileAt, Drawn
      <4>2. Drawn(r, p, config) \subseteq TileAt(live[r], p)
          BY <1>1, <2>2 DEF TileAt, Drawn
      <4> QED BY <4>1, <4>2
    <3> QED BY <1>1, <2>2, <3>1 DEF Shown, Empty
  <2> QED BY <2>1, <2>2
<1> QED BY <1>1, <1>2 DEF TilesRight, Made

LEMMA TilesStep ==
    TypesInv /\ TasksInv /\ FollowedInv /\ CutInv /\ TilesInv /\ Step => TilesInv'
<1> SUFFICES ASSUME TypesInv, TasksInv, FollowedInv, CutInv, TilesInv, Step, NEW r \in Level
             PROVE  Owed("tiles", r)' \/ TilesRight(r)'
    BY DEF TilesInv
<1>1. CASE Owed("tiles", r)
    BY <1>1, OwedStays, PickRight DEF Kind
<1>2. CASE TilesRight(r)
  <2>1. Apart(r) => TilesRight(r)'
      BY <1>2, ApartRight
  <2>2. ASSUME NEW c \in Change, Retire(c) \/ DropConfig(c) \/ ChangeStep(c) \/ ChangeDies(c)
        PROVE  Owed("tiles", r)' \/ TilesRight(r)'
      BY <2>1, <2>2, ChangeApart
  <2>3. CASE Discard
    <3>1. UNCHANGED <<content, config, live, temp, row, cut, strayed, worker>>
        BY <2>3 DEF Discard, data, dirs, history
    <3> QED BY <2>1, <3>1 DEF Apart, Works, Res
  <2>4. CASE Pick
      BY <2>1, <2>4, PickRight
  <2>5. CASE MarkProcessing \/ Configure \/ ClearTiles \/ (\E p \in worker.todo : SeedTile(p))
             \/ RemoveTiles \/ MoveTiles \/ SaveSuccess
    <3>1. worker.pc \in Generating /\ worker.pc # "idle"
        BY <2>5, TileSteps, SaveSuccessMoves DEF Generating
    <3>2. CASE r = Res
      <4>1. Progress(r)
          BY <1>2, <3>1, <3>2 DEF TilesRight, Works
      <4> QED BY <2>5, <3>2, <4>1, BeginRight, ConfigureRight, ClearRight, SeedRight,
                 RemoveRight, MoveRight, SaveRight
    <3>3. CASE r # Res
        BY <2>1, <2>5, <3>1, <3>3, OthersApart
    <3> QED BY <3>2, <3>3
  <2>6. CASE SeedFails \/ Kill \/ WorkerDies
    <3>1. CASE r = Res
        BY <2>6, <3>1, FailureRight
    <3>2. CASE r # Res
        BY <2>1, <2>6, <3>2, OthersApart, FailureSteps DEF Ending
    <3> QED BY <3>1, <3>2
  <2>7. CASE WorkerStep
      BY <2>7, <2>1, <2>3, <2>4, <2>5, FileStepsApart DEF WorkerStep
  <2>8. ASSUME NEW s, NEW p, StraySeed(s, p) PROVE TilesRight(r)'
      BY <2>1, <2>8, StrayApart
  <2>9. CASE UNCHANGED vars
    <3>1. UNCHANGED <<content, config, live, temp, row, cut, strayed, worker>>
        BY <2>9 DEF vars, data, dirs, history
    <3> QED BY <2>1, <3>1 DEF Apart, Works, Res
  <2> QED BY <2>2, <2>6, <2>7, <2>8, <2>9 DEF Step, Next
<1> QED BY <1>1, <1>2 DEF TilesInv

-----------------------------------------------------------------------------
(* The exported files of a resource, over every step                       *)

\* Files are right as long as the view is the same.
LEMMA FilesAreSame ==
    ASSUME UNCHANGED content, NEW r, NEW F, NEW G, F[r] = G[r], FilesAre(F, r)
    PROVE  \A l \in Admins(r)' : FileAt(G[r], l) = FileAt(Visible(r), l)'
<1>1. Visible(r)' = Visible(r) /\ Admins(r)' = Admins(r)
    BY DEF Visible, Admins
<1> QED BY <1>1 DEF FilesAre, FileAt

\* A step that is of no concern to the files of r
FilesApart(r) ==
    /\ UNCHANGED content /\ files'[r] = files[r]
    /\ \/ ~ WillExport(r) /\ ~ WillExport(r)'
       \/ tempFiles'[r] = tempFiles[r] /\ UNCHANGED worker
       \/ WillExport(r) /\ WillExport(r)' /\ worker'.pc \notin {"write", "moveFiles"}

LEMMA FilesApartRight ==
    ASSUME NEW r, FilesApart(r), FilesRight(r)
    PROVE  FilesRight(r)'
<1>1. FilesAre(files, r) => FilesAre(files, r)'
    BY FilesAreSame DEF FilesApart, FilesAre, FileAt
<1>2. CASE ~ WillExport(r) /\ ~ WillExport(r)'
    BY <1>1, <1>2 DEF FilesRight
<1>3. CASE tempFiles'[r] = tempFiles[r] /\ UNCHANGED worker
  <2>1. WillExport(r)' <=> WillExport(r)
      BY <1>3 DEF WillExport, Res
  <2>2. Visible(r)' = Visible(r) /\ Admins(r)' = Admins(r)
      BY DEF FilesApart, Visible, Admins
  <2>3. Exported(r) => Exported(r)'
      BY <1>3, <2>2 DEF Exported, FileAt
  <2> QED BY <1>1, <2>1, <2>3 DEF FilesRight
<1>4. CASE WillExport(r) /\ WillExport(r)' /\ worker'.pc \notin {"write", "moveFiles"}
    BY <1>4 DEF FilesRight, Exported
<1> QED BY <1>2, <1>3, <1>4 DEF FilesApart

LEMMA ChangeFilesApart ==
    ASSUME TypesInv, NEW c \in Change,
           Retire(c) \/ DropConfig(c) \/ ChangeStep(c) \/ ChangeDies(c), NEW r \in Level
    PROVE  FilesApart(r) \/ Owed("files", r)'
<1>1. CASE Retire(c) \/ Publish(c)
  <2>1. c \in Makers("files") /\ r \in Unqueued(c)'
      BY <1>1, ViewSteps DEF Retire, Publish, Makers
  <2> QED BY <2>1 DEF Owed, Pending, Makers
<1>2. CASE DropConfig(c) \/ ReadRange(c) \/ SaveRange(c) \/ CreateConfig(c) \/ ReadResources(c)
             \/ (\E s \in Level : Restart(c, s)) \/ QueueTask(c) \/ SaveTaskId(c) \/ ChangeDies(c)
  <2>1. UNCHANGED <<content, files, tempFiles, worker>>
      BY <1>2 DEF DropConfig, ReadRange, SaveRange, CreateConfig, ReadResources, Restart,
                  QueueTask, SaveTaskId, ChangeDies, data, dirs
  <2> QED BY <2>1 DEF FilesApart
<1> QED BY <1>1, <1>2 DEF ChangeStep

\* A generation that does not export, or not yet, is of no concern to them.
LEMMA TileStepsFilesApart ==
    ASSUME TypesInv, NEW r \in Level,
           \/ MarkProcessing \/ Configure \/ ClearTiles \/ (\E p \in worker.todo : SeedTile(p))
           \/ RemoveTiles \/ MoveTiles \/ SaveSuccess
    PROVE  FilesApart(r)
<1>1. UNCHANGED <<content, files>>
    BY DEF MarkProcessing, Configure, ClearTiles, SeedTile, RemoveTiles, MoveTiles, SaveSuccess,
           data, dirs
<1>2. CASE SaveSuccess /\ ~ Exports(worker.task)
  <2>1. ~ WillExport(r) /\ ~ WillExport(r)'
      BY <1>2, SaveSuccessMoves DEF WillExport, Ending, Idle
  <2> QED BY <1>1, <2>1 DEF FilesApart
<1>3. CASE ~ SaveSuccess \/ Exports(worker.task)
  <2>1. Steady /\ worker'.pc \notin {"write", "moveFiles"}
      BY <1>3, TileSteps, SaveSuccessMoves DEF Generating
  <2>2. WillExport(r)' <=> WillExport(r)
      BY <2>1 DEF Steady, WillExport, Res
  <2> QED BY <1>1, <2>1, <2>2 DEF FilesApart
<1> QED BY <1>2, <1>3

LEMMA ReadLevelsRight ==
    ASSUME TypesInv, NEW r \in Level, r = Res, ReadLevels, Exports(worker.task)
    PROVE  FilesRight(r)'
<1>1. worker \in WorkerState /\ worker.pc = "levels" /\ UNCHANGED content
    BY AtWork DEF ReadLevels, At, data
<1>2. Admins(r)' = Admins(r)
    BY <1>1 DEF Admins, Visible
<1>3. CASE Admins(r) = {}
  <2>1. worker' = Idle
      BY <1>3 DEF ReadLevels, WritesFiles
  <2> QED BY <1>2, <1>3, <2>1 DEF FilesRight, WillExport, Idle, FilesAre
<1>4. CASE Admins(r) # {}
  <2>1. worker' = [worker EXCEPT !.pc = "write", !.todo = Admins(r)]
      BY <1>4 DEF ReadLevels, WritesFiles
  <2>2. worker'.pc = "write" /\ worker'.todo = Admins(r) /\ worker'.task = worker.task
      BY <1>1, <2>1 DEF WorkerState
  <2> QED BY <1>2, <2>2 DEF FilesRight, WillExport, Exported, Res
<1> QED BY <1>3, <1>4

LEMMA WriteFileRight ==
    ASSUME TypesInv, NEW r \in Level, r = Res, NEW l \in worker.todo, WriteFile(l),
           Exports(worker.task), Exported(r)
    PROVE  FilesRight(r)'
<1> DEFINE now == FileAt(Visible(r), l)
           F == (tempFiles[r] \ FileAt(tempFiles[r], l)) \cup now
<1>1. worker \in WorkerState /\ worker.pc = "write" /\ UNCHANGED content
    BY AtWork DEF WriteFile, At, data
<1>2. worker'.pc = "write" /\ worker'.todo = worker.todo \ {l} /\ worker'.task = worker.task
    BY <1>1 DEF WriteFile, WorkerState
<1>3. Admins(r)' = Admins(r) /\ Visible(r)' = Visible(r)
    BY <1>1 DEF Admins, Visible
<1>4. now # {} => tempFiles'[r] = F
    BY DEF WriteFile, TypesInv, DirTypes, FileDir
<1>5. now = {} => tempFiles' = tempFiles
    BY DEF WriteFile
<1>6. l \in Admins(r) => now # {}
    BY DEF Admins, FileAt
<1>7. FileAt(F, l) = now /\ \A m : m # l => FileAt(F, m) = FileAt(tempFiles[r], m)
    BY DEF FileAt
<1> HIDE DEF now, F
<1>8. ASSUME NEW m \in Admins(r) \ (worker.todo \ {l})
      PROVE  FileAt(tempFiles'[r], m) = FileAt(Visible(r), m)
  <2>1. CASE m = l
      BY <1>4, <1>6, <1>7, <1>8, <2>1 DEF now
  <2>2. CASE m # l
    <3>1. FileAt(tempFiles[r], m) = FileAt(Visible(r), m)
        BY <1>1, <1>8, <2>2 DEF Exported
    <3> QED BY <1>4, <1>5, <1>7, <2>2, <3>1
  <2> QED BY <2>1, <2>2
<1>9. Exported(r)'
    BY <1>2, <1>3, <1>8 DEF Exported, FileAt
<1> QED BY <1>2, <1>9 DEF FilesRight, WillExport, Res

LEMMA RemoveFilesRight ==
    ASSUME TypesInv, NEW r \in Level, r = Res, RemoveFiles, Exports(worker.task), Exported(r)
    PROVE  FilesRight(r)'
<1>1. worker \in WorkerState /\ worker.pc = "write" /\ worker.todo = {}
      /\ UNCHANGED <<content, tempFiles>>
    BY AtWork DEF RemoveFiles, At, data
<1>2. worker'.pc = "moveFiles" /\ worker'.todo = worker.todo /\ worker'.task = worker.task
    BY <1>1 DEF RemoveFiles, WorkerState
<1>3. Admins(r)' = Admins(r) /\ Visible(r)' = Visible(r)
    BY <1>1 DEF Admins, Visible
<1>4. Exported(r)'
    BY <1>1, <1>2, <1>3 DEF Exported, FileAt
<1> QED BY <1>2, <1>4 DEF FilesRight, WillExport, Res

LEMMA MoveFilesRight ==
    ASSUME TypesInv, NEW r \in Level, r = Res, MoveFiles, Exported(r)
    PROVE  FilesRight(r)'
<1>1. /\ worker.pc = "moveFiles" /\ UNCHANGED content /\ worker' = Idle
      /\ files' = [files EXCEPT ![r] = tempFiles[r]]
    BY DEF MoveFiles, At, data
<1>2. FilesAre(tempFiles, r) /\ files'[r] = tempFiles[r]
    BY <1>1 DEF Exported, FilesAre, TypesInv, DirTypes, FileDir
<1>3. \A l \in Admins(r)' : FileAt(files'[r], l) = FileAt(Visible(r), l)'
    BY <1>1, <1>2, FilesAreSame
<1>4. FilesAre(files, r)'
    BY <1>3 DEF FilesAre, FileAt
<1> QED BY <1>1, <1>4 DEF FilesRight, WillExport, Idle

LEMMA FailureFilesRight ==
    ASSUME TypesInv, TasksInv, FollowedInv, Step, NEW r \in Level, FilesRight(r),
           SeedFails \/ Kill \/ WorkerDies
    PROVE  Owed("files", r)' \/ FilesRight(r)'
<1>1. /\ worker.pc # "idle" /\ ~ WillExport(r)' /\ UNCHANGED <<content, files>>
  <2>1. worker.pc # "idle" /\ worker' = Idle /\ files' = files
      BY FailureSteps DEF Ending
  <2>2. content' = content
      BY DEF SeedFails, Kill, WorkerDies, data
  <2> QED BY <2>1, <2>2 DEF WillExport, Idle
<1>2. CASE ~ WillExport(r)
    BY <1>1, <1>2, FilesApartRight DEF FilesApart
<1>3. CASE WillExport(r) /\ (SeedFails \/ WorkerDies)
    BY <1>3 DEF WillExport, SeedFails, WorkerDies, Owed, Missing
<1>4. CASE WillExport(r) /\ Kill
  <2>1. worker.task[1] \in Makers("files") /\ worker.task \in revoked /\ r = Res
      BY <1>4 DEF Kill, Makers, WillExport, Exports
  <2>2. Owed("files", r)
      BY <1>1, <2>1, StoppedOwed DEF Kind
  <2>3. ~ Pick
      BY <1>1 DEF Pick, Idle
  <2> QED BY <2>2, <2>3, OwedStays DEF Kind
<1> QED BY <1>2, <1>3, <1>4

\* Only a task that exports gets to the exports.
LEMMA ExportersStep ==
    ASSUME TypesInv, Step, worker.pc \in Exporting => Exports(worker.task)
    PROVE  worker'.pc \in Exporting => Exports(worker'.task)
<1>1. CASE UNCHANGED worker
    BY <1>1
<1>2. ASSUME NEW c \in Change, Retire(c) \/ DropConfig(c) \/ ChangeStep(c) \/ ChangeDies(c)
      PROVE  UNCHANGED worker
    BY <1>2 DEF ChangeStep, Retire, DropConfig, ChangeDies, Publish, ReadRange, SaveRange,
                CreateConfig, ReadResources, Restart, QueueTask, SaveTaskId
<1>3. CASE Discard \/ Pick
    BY <1>1, <1>3, DiscardLeaves, PickLeaves DEF Exporting
<1>4. CASE MarkProcessing \/ Configure \/ ClearTiles \/ (\E p \in worker.todo : SeedTile(p))
           \/ RemoveTiles \/ MoveTiles
  <2>1. worker'.pc \in Generating
      BY <1>4, TileSteps
  <2> QED BY <2>1 DEF Generating, Exporting
<1>5. CASE SaveSuccess
    BY <1>5, SaveSuccessMoves DEF Steady, Ending, Idle, Exporting
<1>6. CASE ReadLevels \/ (\E l \in worker.todo : WriteFile(l)) \/ RemoveFiles \/ MoveFiles
    BY <1>6, FileSteps DEF Steady, Ending, Idle, Exporting
<1>7. CASE SeedFails \/ Kill \/ WorkerDies
    BY <1>7, FailureSteps DEF Ending, Idle, Exporting
<1>8. ASSUME NEW s, NEW p, StraySeed(s, p) PROVE UNCHANGED worker
    BY <1>8 DEF StraySeed
<1>9. CASE WorkerStep
    BY <1>9, <1>3, <1>4, <1>5, <1>6 DEF WorkerStep
<1>10. UNCHANGED vars => UNCHANGED worker
    BY DEF vars
<1> QED BY <1>1, <1>2, <1>7, <1>8, <1>9, <1>10 DEF Step, Next

LEMMA FilesInit == Init => FilesInv
BY DEF Init, FilesInv, FilesRight, FilesAre, WillExport, Idle, Exporting

LEMMA FilesStep ==
    TypesInv /\ TasksInv /\ FollowedInv /\ FilesInv /\ Step => FilesInv'
<1> SUFFICES ASSUME TypesInv, TasksInv, FollowedInv, FilesInv, Step, NEW r \in Level
             PROVE  Owed("files", r)' \/ FilesRight(r)'
    BY ExportersStep DEF FilesInv
<1>0. Pick => worker'.task = Head(queue) /\ worker'.pc = "begin" /\ worker = Idle
              /\ UNCHANGED <<content, files>>
    BY PickLeaves DEF Leaves, Pick, data, dirs
<1>1. CASE Owed("files", r)
  <2>1. Pick /\ Head(queue)[1] \in Makers("files") /\ Head(queue)[2] = r => FilesRight(r)'
      BY <1>0 DEF FilesRight, WillExport, Exported, Exports, Makers, Res
  <2> QED BY <1>1, <2>1, OwedStays DEF Kind
<1>2. CASE FilesRight(r)
  <2>1. FilesApart(r) => FilesRight(r)'
      BY <1>2, FilesApartRight
  <2>2. ASSUME NEW c \in Change, Retire(c) \/ DropConfig(c) \/ ChangeStep(c) \/ ChangeDies(c)
        PROVE  Owed("files", r)' \/ FilesRight(r)'
      BY <2>1, <2>2, ChangeFilesApart
  <2>3. CASE UNCHANGED <<content, files, tempFiles, worker>>
      BY <2>1, <2>3 DEF FilesApart
  <2>4. CASE Discard
      BY <2>3, <2>4 DEF Discard, data, dirs
  <2>5. CASE Pick
    <3>1. CASE Head(queue)[2] = r /\ Exports(Head(queue))
        BY <1>0, <2>5, <3>1 DEF FilesRight, WillExport, Exported, Res
    <3>2. CASE ~ (Head(queue)[2] = r /\ Exports(Head(queue)))
      <4>1. ~ WillExport(r) /\ ~ WillExport(r)'
          BY <1>0, <2>5, <3>2 DEF WillExport, Idle, Res
      <4> QED BY <1>0, <2>1, <2>5, <4>1 DEF FilesApart
    <3> QED BY <3>1, <3>2
  <2>6. CASE MarkProcessing \/ Configure \/ ClearTiles \/ (\E p \in worker.todo : SeedTile(p))
             \/ RemoveTiles \/ MoveTiles \/ SaveSuccess
      BY <2>1, <2>6, TileStepsFilesApart
  <2>7. CASE ReadLevels \/ (\E l \in worker.todo : WriteFile(l)) \/ RemoveFiles \/ MoveFiles
    <3>1. worker.pc \in Exporting /\ worker.pc # "idle" /\ Exports(worker.task)
        BY <2>7, FileSteps DEF FilesInv, Exporting
    <3>2. CASE r = Res
      <4>1. Exported(r)
          BY <1>2, <3>1, <3>2 DEF FilesRight, WillExport
      <4> QED BY <2>7, <3>1, <3>2, <4>1, ReadLevelsRight, WriteFileRight, RemoveFilesRight,
                 MoveFilesRight
    <3>3. CASE r # Res
      <4>1. UNCHANGED content /\ files'[r] = files[r]
          BY <2>7, <3>1, <3>3, AtWork DEF ReadLevels, WriteFile, RemoveFiles, MoveFiles, data, dirs,
                                         TypesInv, DirTypes, FileDir
      <4>2. ~ WillExport(r) /\ ~ WillExport(r)'
          BY <2>7, <3>3, FileSteps DEF WillExport, Res, Steady, Ending, Idle
      <4> QED BY <2>1, <4>1, <4>2 DEF FilesApart
    <3> QED BY <3>2, <3>3
  <2>8. CASE SeedFails \/ Kill \/ WorkerDies
      BY <1>2, <2>8, FailureFilesRight
  <2>9. CASE WorkerStep
      BY <2>9, <2>4, <2>5, <2>6, <2>7 DEF WorkerStep
  <2>10. ASSUME NEW s, NEW p, StraySeed(s, p) PROVE Owed("files", r)' \/ FilesRight(r)'
    <3>1. UNCHANGED <<content, files, tempFiles, worker>>
        BY <2>10 DEF StraySeed, data
    <3> QED BY <2>3, <3>1
  <2>11. CASE UNCHANGED vars
      BY <2>3, <2>11 DEF vars, data, dirs
  <2> QED BY <2>2, <2>8, <2>9, <2>10, <2>11 DEF Step, Next
<1> QED BY <1>1, <1>2 DEF FilesInv

-----------------------------------------------------------------------------
(* Everything at rest                                                      *)

LEMMA TasksInvariant == Spec => [](TasksInv /\ FollowedInv)
<1>1. TypesInv /\ TasksInv /\ FollowedInv /\ [Next /\ UNCHANGED setting]_vars
        => (TasksInv /\ FollowedInv)'
    BY TasksStep, FollowedStep DEF Step
<1> QED BY <1>1, TasksInit, FollowedInit, TypesInvariant, PTL DEF Spec

LEMMA TilesInvariant == Spec => [](CutInv /\ TilesInv)
<1>1. TypesInv /\ TasksInv /\ FollowedInv /\ CutInv /\ TilesInv /\ [Next /\ UNCHANGED setting]_vars
        => (CutInv /\ TilesInv)'
    BY CutStep, TilesStep DEF Step
<1> QED BY <1>1, CutInit, TilesInit, TypesInvariant, TasksInvariant, PTL DEF Spec

LEMMA FilesInvariant == Spec => []FilesInv
<1>1. TypesInv /\ TasksInv /\ FollowedInv /\ FilesInv /\ [Next /\ UNCHANGED setting]_vars
        => FilesInv'
    BY FilesStep DEF Step
<1> QED BY <1>1, FilesInit, TypesInvariant, TasksInvariant, PTL DEF Spec

\* At rest nothing is owed, but what is known to be missing.
LEMMA SettledOwes ==
    ASSUME NEW k \in Kind, NEW r \in Level, Settled(r), Owed(k, r)
    PROVE  r \in Missing(k)
<1>1. ~ Pending(k, r)
    BY MakersAreChanges DEF Settled, Pending, Unqueued
<1>2. ~ Coming(k, r)
    BY DEF Settled, Coming
<1> QED BY <1>1, <1>2 DEF Owed

LEMMA SettledMade ==
    ASSUME TypesInv, TilesInv, NEW r \in Level, Settled(r), r \notin lost
    PROVE  row[r].status = "Error" \/ Made(r)
<1>1. ~ Owed("tiles", r)
    BY SettledOwes DEF Kind, Missing
<1>2. ~ Works(r)
    BY DEF Settled, Works, Idle, Generating
<1> QED BY <1>1, <1>2 DEF TilesInv, TilesRight

\* When everything has come to rest, a resource that is Done shows what the
\* view selects with the configuration that is set, however the triggers, the
\* revocations and the worker interleaved (trigger_generate_vector_tile_for_view,
\* generate_view_vector_tiles).
THEOREM TilesComeRight == Spec => []TilesSettle
<1>1. TypesInv /\ TilesInv => TilesSettle
  <2> SUFFICES ASSUME TypesInv, TilesInv, NEW r \in Level, Settled(r),
                      row[r].status = "Done", r \notin lost \cup strayed
               PROVE  IF Exact(r) = {} \/ config = NoConfig
                      THEN live[r] = {}
                      ELSE /\ \A p \in Places(r) : TileAt(live[r], p) = Drawn(r, p, config)
                           /\ r \notin cut => live[r] \subseteq Visible(r) \X {config}
      BY DEF TilesSettle
  <2>1. Shown(r)
      BY SettledMade DEF Made
  <2> QED BY <2>1 DEF Shown, Empty
<1> QED BY <1>1, TypesInvariant, TilesInvariant, PTL

\* When everything has come to rest, no resource is left Pending or
\* Processing, although triggers and the worker save whole rows over each
\* other (DatasetViewResource.save, save_view_resource_on_success).
THEOREM StatusComesRight == Spec => []NothingLeftPending
<1>1. TypesInv /\ TilesInv => NothingLeftPending
    BY SettledMade DEF NothingLeftPending, Made
<1> QED BY <1>1, TypesInvariant, TilesInvariant, PTL

\* When everything has come to rest, the files of every admin level that is
\* visible are those of the current content, unless their generation was
\* dropped, failed or died and none followed (do_export).
THEOREM ExportsComeRight == Spec => []ExportsSettle
<1>1. TypesInv /\ FilesInv => ExportsSettle
  <2> SUFFICES ASSUME TypesInv, FilesInv, NEW r \in Level, Settled(r), r \notin unexported
               PROVE  FilesAre(files, r)
      BY DEF ExportsSettle, FilesAre
  <2>1. ~ Owed("files", r)
      BY SettledOwes DEF Kind, Missing
  <2>2. ~ WillExport(r)
      BY WorkerIdle DEF Settled, WillExport
  <2> QED BY <2>1, <2>2 DEF FilesInv, FilesRight
<1> QED BY <1>1, TypesInvariant, FilesInvariant, PTL

\* When everything has come to rest, a user is served a resource that shows
\* all that is visible at the user's level (get_view_resource_from_view).
THEOREM ServedComeRight == Spec => []ServedSettles
<1>1. TypesInv /\ TilesInv => ServedSettles
  <2> SUFFICES ASSUME TypesInv, TilesInv, NEW u \in Level,
                      config # NoConfig, Visible(u) # {},
                      range.max = SetMax({PrivacyOf[e] : e \in content}),
                      \A r \in Level : Settled(r) /\ row[r].status = "Done" /\ r \notin lost
               PROVE  /\ ServedResources(u) # {}
                      /\ Visible(SetMax(ServedResources(u))) = Visible(u)
      BY DEF ServedSettles
  <2> DEFINE levels == {PrivacyOf[e] : e \in Visible(u)}
             m == SetMax(levels)
             top == IF range.max <= u THEN range.max ELSE u
  <2>1. Level \subseteq Nat /\ range.max \in Level
      BY TilesAssumption DEF TypesInv, ViewTypes, Bounds
  <2>2. Visible(u) \subseteq content /\ content \subseteq Entity
      BY DEF Visible, TypesInv, ViewTypes
  <2>3. levels \subseteq Level /\ levels # {} /\ \A l \in levels : l <= u
      BY ViewFacts DEF TypesInv
  <2>4. m \in levels /\ \A l \in levels : l <= m
      BY <2>3, ExtremesExist
  <2>5. \A e \in content : PrivacyOf[e] <= range.max
    <3>1. {PrivacyOf[e] : e \in content} \subseteq Level
        BY <2>2, TilesAssumption
    <3> QED BY <2>2, <2>3, <3>1, ExtremesExist
  <2>6. \A r \in Level : row[r].count = Cardinality(Exact(r))
      BY SettledMade DEF Made
  <2>7. m \in ServedResources(u)
    <3>1. m \in Level /\ m <= u /\ m <= range.max
        BY <2>2, <2>3, <2>4, <2>5
    <3>2. Exact(m) # {}
        BY <2>2, <2>4 DEF Exact
    <3>3. row[m].count > 0
        BY <2>6, <3>1, <3>2, ViewFacts DEF TypesInv
    <3> HIDE DEF m
    <3> QED BY <3>1, <3>3 DEF ServedResources
  <2>8. \A r \in ServedResources(u) : r \in Level /\ r <= m
    <3> SUFFICES ASSUME NEW r \in ServedResources(u) PROVE r \in Level /\ r <= m
        OBVIOUS
    <3>1. r \in Level /\ r <= u /\ row[r].count > 0
      <4>1. r \in Level /\ r <= top /\ row[r].count > 0
          BY DEF ServedResources
      <4>2. r \in Nat /\ u \in Nat /\ range.max \in Nat
          BY <2>1, <4>1
      <4> QED BY <4>1, <4>2
    <3>2. Exact(r) # {}
        BY <2>6, <3>1, ViewFacts DEF TypesInv
    <3>3. PICK e \in Visible(u) : PrivacyOf[e] = r
        BY <3>1, <3>2 DEF Exact, Visible
    <3> QED BY <2>4, <3>1, <3>3
  <2>9. SetMax(ServedResources(u)) = m
    <3>1. SetMax(ServedResources(u)) \in ServedResources(u)
          /\ \A r \in ServedResources(u) : r <= SetMax(ServedResources(u))
        BY <2>7, <2>8, ExtremesExist
    <3>2. m \in Nat /\ SetMax(ServedResources(u)) \in Nat
        BY <2>1, <2>3, <2>4, <2>8, <3>1
    <3>3. m <= SetMax(ServedResources(u)) /\ SetMax(ServedResources(u)) <= m
        BY <2>7, <2>8, <3>1
    <3> HIDE DEF m
    <3> QED BY <3>2, <3>3
  <2>10. Visible(m) = Visible(u)
    <3>1. m \in Nat /\ u \in Nat /\ m <= u
        BY <2>1, <2>3, <2>4
    <3>2. \A e \in Visible(u) : PrivacyOf[e] <= m
        BY <2>4
    <3>3. \A e \in content : PrivacyOf[e] \in Nat
        BY <2>1, <2>2, TilesAssumption
    <3> HIDE DEF m
    <3> QED BY <3>1, <3>2, <3>3 DEF Visible
  <2> QED BY <2>7, <2>9, <2>10
<1> QED BY <1>1, TypesInvariant, TilesInvariant, PTL
=============================================================================
