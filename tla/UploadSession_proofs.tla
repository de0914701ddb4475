-------------------------- MODULE UploadSession_proofs --------------------------
(***************************************************************************)
(* One session before its review, for any number of countries, requests,   *)
(* rows and tasks and any timing: types, and that no revision is published *)
(* once an upload refers to it (FilesInv).  Until one of the four things   *)
(* that "met" records happens: one upload per country, a revision for each *)
(* verdict, and no trace of a task that was stopped (TurnsInv).            *)
(***************************************************************************)
EXTENDS UploadSession, FiniteSetTheorems, TLAPS

-----------------------------------------------------------------------------
(* Invariants of every timing                                              *)

RequestPC == {"unsent", "done", "queue", "savePreprocess", "start", "saveValidate",
              "others", "clear", "reset", "stop", "delete", "pending", "cancel"}

RequestState ==
    [pc : RequestPC, todo : SUBSET (Country \cup RowId), kept : SUBSET RowId,
     copy : [RowId -> Columns], row : RowId \cup {None}, task : TaskId \cup {None},
     back : BOOLEAN, cancel : BOOLEAN]

PreprocessPC == {"queued", "delete", "mark", "match", "names", "finish",
                 "done", "failed", "broken"}
Making == {"clone", "correct", "attach"}
Refiling == {"detach", "drop", "store", "attachFile"}
Checking == {"check", "verdict"}
Settled == Checking \cup {"done", "failed"}
ValidatePC == {"queued", "mark"} \cup Making \cup Refiling \cup Settled

TaskState ==
    [kind : {"none", "preprocess", "validate"},
     pc : {"none"} \cup PreprocessPC \cup ValidatePC,
     row : RowId \cup {None}, todo : SUBSET Country, seen : SUBSET RowId,
     copy : [RowId -> Columns]]

\* Rows that are, or may be, saved again have a country.
RequestSound(q) ==
    request[q].pc \in {"clear", "reset"} =>
      request[q].todo \subseteq {r \in RowId : country[r] # None}

TaskSound(t) ==
    /\ task[t].kind = "none" => task[t] = NoTask
    /\ task[t].kind = "preprocess" => task[t].pc \in PreprocessPC
    /\ task[t].kind = "validate" => /\ task[t].pc \in ValidatePC
                                    /\ task[t].row \in RowId
                                    /\ country[task[t].row] # None
    /\ task[t].seen \subseteq {r \in RowId : country[r] # None}

TypesInv ==
    /\ TypeOK
    /\ request \in [Request -> RequestState] /\ task \in [TaskId -> TaskState]
    /\ \A q \in Request : RequestSound(q)
    /\ \A t \in TaskId : TaskSound(t)
    /\ \A r \in RowId \ rows : upload[r] = Blank

\* The validation that makes a revision, and where it is once it attached it
Maker(v) == v[1]
After(v) == IF v = Clone(Maker(v)) THEN Refiling \cup Settled ELSE Settled

\* The columns of row r refer to a revision that the validation of r made and
\* is done with.
Attached(columns, r) ==
    columns.revised # None =>
      LET t == Maker(columns.revised)
      IN  /\ task[t].kind = "validate" /\ task[t].row = r
          /\ task[t].pc \in After(columns.revised)

\* Or t attaches it, by becoming x.
AttachedBy(t, x, columns, r) ==
    /\ columns.revised \in {Clone(t), Filed(t)} /\ x.pc \in After(columns.revised)
    /\ x.kind = "validate" /\ x.row = r

\* The revision of a validation that made it and did not attach it yet
Loose(pc, t) ==
    IF pc \in {"correct", "attach"} THEN {Clone(t)}
    ELSE IF pc = "attachFile" THEN {Filed(t)} ELSE {}

RequestAttached(q) == \A r \in RowId : Attached(request[q].copy[r], r)
TaskAttached(t) == \A r \in RowId : Attached(task[t].copy[r], r)
UploadAttached == \A r \in RowId : Attached(upload[r], r)

\* A revision no upload and no copy of one refers to yet is there.
FilesInv ==
    /\ UploadAttached
    /\ \A q \in Request : RequestAttached(q)
    /\ \A t \in TaskId : TaskAttached(t)
    /\ \A t \in TaskId : Loose(task[t].pc, t) \subseteq trees
    /\ \A v \in published : v = Clone(Maker(v)) /\ task[Maker(v)].pc = "correct"

-----------------------------------------------------------------------------
(* Invariants of a behaviour that met nothing unlucky                      *)

\* A task that was not stopped
Live(t, kind) ==
    task[t].kind = kind /\ task[t].pc \notin Ended /\ t \notin revoked

Preprocessing(t) == Live(t, "preprocess")

\* A validation that will get somewhere: its revision was not deleted.
Validating(t) ==
    /\ Live(t, "validate")
    /\ task[t].pc \in Checking /\ ~ setting.level0 => Clone(t) \in trees

\* The request that queued t has not saved its id yet.
Saving(q, pc, t) == request[q].pc = pc /\ request[q].task = t

Idle == \A t \in TaskId : ~ Preprocessing(t) /\ ~ Validating(t)

\* The revision of row r that its validation t has, where it is at pc
Revised(pc, t, r) ==
    IF pc = "detach" \/ (pc \in Checking /\ ~ setting.level0) THEN {Clone(t)}
    ELSE IF pc \notin Checking THEN {None}
    ELSE {Filed(t)} \cup {v \in {None} : pc = "verdict" /\ country[r] \in setting.degenerate}

\* A validation, its row and its copy of the row agree.  With a file of level 0
\* the id that its row has is the only way to find it, so it has to have it.
ValidationSound(t) ==
    LET r == task[t].row
        pc == task[t].pc
        copy == task[t].copy[r]
    IN  /\ r \in rows
        /\ upload[r].status = IF pc \in {"queued", "mark"} THEN "Started" ELSE "Processing"
        /\ upload[r].revised \in Revised(pc, t, r)
        /\ pc # "queued" => copy.revised = IF pc = "drop" THEN Clone(t) ELSE upload[r].revised
        /\ pc \notin Checking =>
             upload[r].task = t \/ \E q \in Request : Saving(q, "saveValidate", t)
        /\ pc \in Refiling => setting.level0
        /\ setting.level0 /\ pc # "queued" => upload[r].task = t /\ copy.task = t

\* There is no result while there is a preprocessing, and what it saves again
\* is as it found it.
PreprocessingSound(t) ==
    /\ ~ session.ready
    /\ session.task = t \/ \E q \in Request : Saving(q, "savePreprocess", t)
    /\ task[t].pc \in {"queued", "delete", "mark"} => task[t].seen = {}
    /\ \A r \in task[t].seen :
         r \in rows /\ task[t].copy[r].status = "" /\ task[t].copy[r].revised = None

TasksInv ==
    /\ \A t \in TaskId : Validating(t) => ValidationSound(t)
    /\ \A t \in TaskId : Preprocessing(t) => PreprocessingSound(t)
    /\ \A t, i \in TaskId : Preprocessing(t) /\ Preprocessing(i) => t = i
    /\ \A t, i \in TaskId : Validating(t) /\ Validating(i) /\ task[t].row = task[i].row
                              => t = i
    /\ \A t \in TaskId : Live(t, "validate") /\ task[t].pc \in Checking /\ ~ setting.level0 =>
         task[t].copy[task[t].row].revised = Clone(t)

\* What a request has found and done, and who is still at work meanwhile
SelectedSound(turn) ==
    /\ session.ready
    /\ \A r \in rows \ turn.kept : upload[r].status = ""
    /\ \A r \in turn.kept : r \in rows /\ country[r] \notin turn.todo

SavingSound(turn) ==
    /\ turn.task \in TaskId
    /\ task[turn.task].kind = "validate" /\ task[turn.task].row = turn.row
    /\ \A t \in TaskId : Validating(t) /\ task[t].row = turn.row => t = turn.task

ClearSound(turn) ==
    session.ready /\ \A r \in turn.todo : r \in rows /\ upload[r].status = ""

ResetSound(turn) ==
    /\ session.ready /\ turn.todo \subseteq rows
    /\ \A t \in TaskId : Validating(t) =>
         /\ task[t].row \in turn.todo
         /\ \/ turn.copy[task[t].row].task = t
            \/ turn.copy[task[t].row].revised = Clone(t) /\ ~ setting.level0

TurnSound(q) ==
    LET turn == request[q]
    IN  /\ turn.pc = "unsent" => turn.kept = {}
        /\ turn.pc = "queue" => ~ session.ready
        /\ turn.pc \in {"start", "saveValidate", "others"} => SelectedSound(turn)
        /\ turn.pc = "saveValidate" => SavingSound(turn)
        /\ turn.pc = "clear" => ClearSound(turn)
        /\ turn.pc = "reset" => ResetSound(turn)
        /\ turn.pc \in {"savePreprocess", "stop"} =>
             \A t \in TaskId : Preprocessing(t) => turn.task = t
        /\ turn.pc = "stop" => \A t \in TaskId : ~ Validating(t)
        /\ turn.pc \in {"delete", "pending", "cancel"} => Idle
        /\ turn.pc = "queue" => Idle
        /\ turn.pc = "pending" => \A r \in RowId : upload[r].status = ""

RequestsInv ==
    /\ \A p, q \in Request : Waiting(p) /\ Waiting(q) => p = q
    /\ \A q \in Request : TurnSound(q)

\* A verdict has a revision, as long as nobody is deleting the uploads, or is
\* an error of a country that was not stored.
Deleting ==
    \/ \E q \in Request : request[q].pc = "delete"
    \/ \E t \in TaskId : task[t].pc = "delete"

UploadSound(r) ==
    /\ ~ session.ready => upload[r].status = ""
    /\ upload[r].status \in {"", "Started"} => upload[r].revised = None
    /\ upload[r].status = "Reviewing" => session.status = "Reviewing"
    /\ \/ upload[r].revised # None \/ Deleting
       \/ upload[r].status \in {"", "Started", "Processing"}
       \/ /\ country[r] \in setting.degenerate
          /\ upload[r].status = "Error" \/ (upload[r].status = "Reviewing" /\ ~ IsNew(r))
       \/ session.status = "Reviewing" /\ upload[r].status # "Reviewing"

UploadsInv ==
    /\ \A r \in RowId : UploadSound(r)
    /\ \A r, s \in rows : country[r] = country[s] => r = s
    /\ session.status \in ReadOnly => Idle /\ \A q \in Request : ~ Waiting(q)

\* Requests and tasks take turns.
TurnsInv == TasksInv /\ RequestsInv /\ UploadsInv

-----------------------------------------------------------------------------
(* Types                                                                   *)

BaseInv == TypesInv /\ FilesInv

LEMMA Revisions ==
    /\ \A t \in TaskId : /\ Clone(t) \in Revision /\ Filed(t) \in Revision
                          /\ Maker(Clone(t)) = t /\ Maker(Filed(t)) = t
                          /\ Clone(t) # None /\ Filed(t) # None
                          /\ \A i \in TaskId : Clone(t) # Filed(i)
                          /\ After(Clone(t)) = Refiling \cup Settled
                          /\ After(Filed(t)) = Settled
    /\ \A v \in Revision : /\ v # None /\ Maker(v) \in TaskId
                            /\ v \in {Clone(Maker(v)), Filed(Maker(v))}
<1>1. None \notin Revision
  BY SessionAssumption
<1>2. ASSUME NEW t \in TaskId
      PROVE  /\ Clone(t) \in Revision /\ Filed(t) \in Revision
             /\ Maker(Clone(t)) = t /\ Maker(Filed(t)) = t
             /\ \A i \in TaskId : Clone(t) # Filed(i)
  BY DEF Clone, Filed, Revision, Maker
<1>3. \A v \in Revision : Maker(v) \in TaskId /\ v \in {Clone(Maker(v)), Filed(Maker(v))}
  BY DEF Clone, Filed, Revision, Maker
<1>4. ASSUME NEW t \in TaskId
      PROVE  After(Clone(t)) = Refiling \cup Settled /\ After(Filed(t)) = Settled
  BY <1>2, <1>4 DEF After
<1> QED
  BY <1>1, <1>2, <1>3, <1>4

LEMMA BlankTypes ==
    /\ Blank \in Columns /\ NoCopies \in [RowId -> Columns]
    /\ NoTask \in TaskState
    /\ Unsent \in RequestState /\ Answered \in RequestState
    /\ Unsent.copy = NoCopies /\ Answered.copy = NoCopies
    /\ Answered.pc = "done"
    /\ \A r \in RowId : NoCopies[r] = Blank
    /\ Blank.revised = None /\ Blank.status = "" /\ Blank.task = None
    /\ None \notin RowId /\ None \notin TaskId /\ None \notin Country
    /\ None \notin Revision
<1>1. /\ Blank \in Columns
      /\ Blank.revised = None /\ Blank.status = "" /\ Blank.task = None
  BY DEF Blank, Columns, UploadStatus
<1>2. /\ NoCopies \in [RowId -> Columns]
      /\ \A r \in RowId : NoCopies[r] = Blank
  BY <1>1 DEF NoCopies
<1>3. NoTask \in TaskState
  BY <1>2 DEF NoTask, TaskState
<1>4. /\ Unsent \in RequestState /\ Unsent.copy = NoCopies
  BY <1>2 DEF Unsent, RequestState, RequestPC
<1>5. /\ Answered \in RequestState /\ Answered.copy = NoCopies /\ Answered.pc = "done"
  BY <1>4 DEF Answered, RequestState, RequestPC
<1>6. None \notin RowId /\ None \notin TaskId /\ None \notin Country /\ None \notin Revision
  BY SessionAssumption DEF RowId, TaskId
<1> QED
  BY <1>1, <1>2, <1>3, <1>4, <1>5, <1>6

LEMMA NothingAttached == \A r \in RowId : Attached(Blank, r) /\ Attached(NoCopies[r], r)
<1>1. \A r : Attached(Blank, r)
  BY BlankTypes DEF Attached
<1> QED
  BY <1>1, BlankTypes

\* What a reference needs of the task it names is kept when one task goes on.
LEMMA AttachedKept ==
    ASSUME task \in [TaskId -> TaskState], NEW t \in TaskId,
           \A i \in TaskId \ {t} : task'[i] = task[i],
           task[t].kind = "validate" /\ task[t].pc \in Refiling \cup Settled
             => /\ task'[t].kind = task[t].kind /\ task'[t].row = task[t].row
                /\ task'[t].pc \in Refiling \cup Settled
                /\ task[t].pc \in Settled => task'[t].pc \in Settled
    PROVE  \A columns \in Columns, r \in RowId :
             Attached(columns, r) => Attached(columns, r)'
<1> SUFFICES ASSUME NEW columns \in Columns, NEW r \in RowId, Attached(columns, r),
                    columns.revised # None
             PROVE  Attached(columns, r)'
  BY DEF Attached
<1> DEFINE i == Maker(columns.revised)
<1>1. columns.revised \in Revision /\ i \in TaskId
  BY Revisions DEF Columns
<1>2. After(columns.revised) \in {Settled, Refiling \cup Settled}
  BY DEF After
<1>3. task[i].kind = "validate" /\ task[i].row = r /\ task[i].pc \in After(columns.revised)
  BY DEF Attached
<1>4. task'[i].kind = "validate" /\ task'[i].row = r /\ task'[i].pc \in After(columns.revised)
  BY <1>1, <1>2, <1>3
<1> QED
  BY <1>4 DEF Attached

\* A step that changes one request and at most the session besides
LEMMA RequestGoesOn ==
    ASSUME BaseInv, NEW q \in Request, NEW turn \in RequestState,
           request' = [request EXCEPT ![q] = turn],
           turn.pc \in {"clear", "reset"} =>
             turn.todo \subseteq {r \in RowId : country[r] # None},
           \A r \in RowId : Attached(turn.copy[r], r),
           session' \in [status : SessionStatus, ready : BOOLEAN, task : TaskId \cup {None}],
           UNCHANGED <<setting, rowVars, treeVars, task, revoked>>
    PROVE  BaseInv'
<1>1. TypesInv'
  BY DEF BaseInv, TypesInv, TypeOK, RequestSound, TaskSound, rowVars, treeVars
<1>2. FilesInv'
  BY DEF BaseInv, TypesInv, FilesInv, Attached, UploadAttached, RequestAttached,
     TaskAttached, rowVars, treeVars
<1> QED
  BY <1>1, <1>2 DEF BaseInv

LEMMA BaseSends ==
    ASSUME BaseInv, NEW q \in Request, UNCHANGED setting,
           \/ SendPreprocess(q)
           \/ \E C \in SUBSET setting.files : SendValidate(q, C)
           \/ \E back, cancel \in BOOLEAN : SendReset(q, back, cancel)
    PROVE  BaseInv'
<1>1. /\ request[q] \in RequestState
      /\ session \in [status : SessionStatus, ready : BOOLEAN, task : TaskId \cup {None}]
      /\ session.task \in TaskId \cup {None}
      /\ rows \subseteq RowId /\ upload \in [RowId -> Columns]
      /\ \A r \in rows : country[r] # None
      /\ \A r \in RowId : Attached(request[q].copy[r], r) /\ Attached(upload[r], r)
  BY DEF BaseInv, TypesInv, TypeOK, FilesInv, UploadAttached, RequestAttached
<1>2. CASE SendPreprocess(q)
  <2> DEFINE turn == [request[q] EXCEPT !.pc = "queue", !.task = session.task]
  <2>1. /\ turn \in RequestState /\ turn.pc = "queue" /\ turn.copy = request[q].copy
        /\ request' = [request EXCEPT ![q] = turn]
    BY <1>1, <1>2 DEF SendPreprocess, RequestState, RequestPC
  <2> HIDE DEF turn
  <2> QED
    BY <1>1, <1>2, <2>1, RequestGoesOn DEF SendPreprocess
<1>3. ASSUME NEW C \in SUBSET setting.files, SendValidate(q, C) PROVE BaseInv'
  <2> DEFINE turn == [request[q] EXCEPT !.pc = "start", !.todo = C]
  <2>1. setting.files \subseteq Country
    BY SessionAssumption DEF BaseInv, TypesInv, TypeOK, Circumstances
  <2>2. /\ turn \in RequestState /\ turn.pc = "start" /\ turn.copy = request[q].copy
        /\ request' = [request EXCEPT ![q] = turn]
    BY <1>1, <1>3, <2>1 DEF SendValidate, RequestState, RequestPC
  <2> HIDE DEF turn
  <2> QED
    BY <1>1, <1>3, <2>2, RequestGoesOn DEF SendValidate
<1>4. ASSUME NEW back \in BOOLEAN, NEW cancel \in BOOLEAN, SendReset(q, back, cancel)
      PROVE  BaseInv'
  <2> DEFINE pc == IF HasResult THEN "reset" ELSE "stop"
             todo == IF HasResult THEN rows ELSE {}
             copy == IF HasResult THEN upload ELSE NoCopies
             goBack == back \/ ~ HasResult
             turn == [Unsent EXCEPT !.pc = pc, !.todo = todo, !.copy = copy,
                                    !.task = session.task, !.back = goBack,
                                    !.cancel = cancel]
  <2>0. goBack \in BOOLEAN
    BY DEF HasResult
  <2>1. /\ pc \in RequestPC
        /\ todo \subseteq rows /\ copy \in [RowId -> Columns]
        /\ \A r \in RowId : Attached(copy[r], r)
    <3>1. CASE HasResult
      BY <1>1, <3>1 DEF RequestPC
    <3>2. CASE ~ HasResult
      <4>1. pc = "stop" /\ todo = {} /\ copy = NoCopies
        BY <3>2
      <4> QED
        BY <4>1, NothingAttached, BlankTypes DEF RequestPC
    <3> QED
      BY <3>1, <3>2
  <2>2. request' = [request EXCEPT ![q] = turn]
    BY <1>4 DEF SendReset
  <2> HIDE DEF pc, todo, copy, goBack
  <2>3. turn \in RequestState /\ turn.todo = todo /\ turn.copy = copy
    BY <1>1, <2>0, <2>1, BlankTypes DEF RequestState
  <2> HIDE DEF turn
  <2>4. turn.todo \subseteq {r \in RowId : country[r] # None}
    BY <1>1, <2>1, <2>3
  <2>5. \A r \in RowId : Attached(turn.copy[r], r)
    BY <2>1, <2>3
  <2> QED
    BY <1>1, <1>4, <2>2, <2>3, <2>4, <2>5, RequestGoesOn DEF SendReset
<1> QED
  BY <1>2, <1>3, <1>4

\* The requests, when one of them goes on and no row loses its country
LEMMA RequestsKept ==
    ASSUME BaseInv, NEW q \in Request, NEW turn \in RequestState,
           request' = [request EXCEPT ![q] = turn],
           turn.pc \in {"clear", "reset"} =>
             turn.todo \subseteq {r \in RowId : country'[r] # None},
           \A r \in RowId : Attached(turn.copy[r], r),
           \A r \in RowId : country[r] # None => country'[r] # None,
           \A columns \in Columns, r \in RowId :
             Attached(columns, r) => Attached(columns, r)'
    PROVE  /\ request' \in [Request -> RequestState]
           /\ \A p \in Request : RequestSound(p)'
           /\ \A p \in Request : RequestAttached(p)'
<1>1. request \in [Request -> RequestState]
  BY DEF BaseInv, TypesInv
<1>2. \A p \in Request : RequestSound(p)'
  BY <1>1 DEF BaseInv, TypesInv, RequestSound
<1>3. \A p \in Request : RequestAttached(p)'
  <2>1. \A p \in Request, r \in RowId :
          request[p].copy[r] \in Columns /\ Attached(request[p].copy[r], r)
    BY <1>1 DEF BaseInv, FilesInv, RequestState, RequestAttached
  <2>2. \A r \in RowId : turn.copy[r] \in Columns
    BY DEF RequestState
  <2> QED
    BY <1>1, <2>1, <2>2 DEF RequestAttached, Attached
<1> QED
  BY <1>1, <1>2, <1>3

\* The same of the tasks
LEMMA TasksKept ==
    ASSUME BaseInv, NEW t \in TaskId, NEW x \in TaskState,
           task' = [task EXCEPT ![t] = x],
           \A r \in RowId : Attached(x.copy[r], r) \/ AttachedBy(t, x, x.copy[r], r),
           x.kind # "none",
           x.kind = "preprocess" => x.pc \in PreprocessPC,
           x.kind = "validate" => /\ x.pc \in ValidatePC /\ x.row \in RowId
                                  /\ country'[x.row] # None,
           x.seen \subseteq {r \in RowId : country'[r] # None},
           \A r \in RowId : country[r] # None => country'[r] # None,
           task[t].kind = "validate" /\ task[t].pc \in Refiling \cup Settled
             => /\ x.kind = task[t].kind /\ x.row = task[t].row
                /\ x.pc \in Refiling \cup Settled
                /\ task[t].pc \in Settled => x.pc \in Settled
    PROVE  /\ task' \in [TaskId -> TaskState]
           /\ \A i \in TaskId : TaskSound(i)'
           /\ \A i \in TaskId : TaskAttached(i)'
           /\ \A columns \in Columns, r \in RowId :
                Attached(columns, r) => Attached(columns, r)'
<1>1. /\ task \in [TaskId -> TaskState] /\ \A i \in TaskId : TaskSound(i)
      /\ \A i \in TaskId, r \in RowId : Attached(task[i].copy[r], r)
  BY DEF BaseInv, TypesInv, FilesInv, TaskAttached
<1>2. \A columns \in Columns, r \in RowId : Attached(columns, r) => Attached(columns, r)'
  BY <1>1, AttachedKept
<1>3. \A i \in TaskId : TaskSound(i)'
  <2> TAKE i \in TaskId
  <2>1. CASE i = t
    BY <1>1, <2>1 DEF TaskSound
  <2>2. CASE i # t
    BY <1>1, <2>2 DEF TaskSound, TaskState
  <2> QED
    BY <2>1, <2>2
<1>4. \A i \in TaskId : TaskAttached(i)'
  <2>1. \A i \in TaskId, r \in RowId : task[i].copy[r] \in Columns
    BY <1>1 DEF TaskState
  <2>2. \A r \in RowId : x.copy[r] \in Columns
    BY DEF TaskState
  <2>3. \A i \in TaskId : task'[i] = IF i = t THEN x ELSE task[i]
    BY <1>1
  <2>4. \A i \in TaskId \ {t} : TaskAttached(i)'
    BY <1>1, <1>2, <2>1, <2>3 DEF TaskAttached, Attached
  <2>5. TaskAttached(t)'
    <3>1. ASSUME NEW r \in RowId, AttachedBy(t, x, x.copy[r], r)
          PROVE  Attached(x.copy[r], r)'
      BY <2>3, <3>1, Revisions DEF Attached, AttachedBy
    <3>2. \A r \in RowId : Attached(x.copy[r], r)'
      BY <1>2, <2>2, <3>1
    <3> QED
      BY <2>3, <3>2 DEF TaskAttached, Attached
  <2> QED
    BY <2>4, <2>5
<1> QED
  BY <1>1, <1>2, <1>3, <1>4

\* Deleting revisions leaves the uploads well typed, whichever go.
LEMMA UnrevisedKept ==
    ASSUME BaseInv, NEW T
    PROVE  /\ Unrevised(T) \in [RowId -> Columns]
           /\ \A r \in RowId : /\ Unrevised(T)[r].revised \in (trees \ T) \cup {None}
                               /\ Attached(Unrevised(T)[r], r)
                               /\ upload[r] = Blank => Unrevised(T)[r] = Blank
                               /\ Unrevised(T)[r].status = upload[r].status
                               /\ Unrevised(T)[r].task = upload[r].task
<1>1. /\ upload \in [RowId -> Columns]
      /\ \A r \in RowId : upload[r].revised \in trees \cup {None} /\ Attached(upload[r], r)
  BY DEF BaseInv, TypesInv, TypeOK, FilesInv, UploadAttached
<1>2. ASSUME NEW r \in RowId
      PROVE  /\ Unrevised(T)[r] \in Columns
             /\ Unrevised(T)[r].revised \in (trees \ T) \cup {None}
             /\ Attached(Unrevised(T)[r], r)
             /\ upload[r] = Blank => Unrevised(T)[r] = Blank
             /\ Unrevised(T)[r].status = upload[r].status
             /\ Unrevised(T)[r].task = upload[r].task
  <2>1. CASE upload[r].revised \in T
    <3>1. /\ Unrevised(T)[r] = [upload[r] EXCEPT !.revised = None]
          /\ upload[r] \in Columns
      BY <1>1, <2>1 DEF Unrevised
    <3> QED
      BY <3>1, BlankTypes DEF Attached, Columns, Blank
  <2>2. CASE upload[r].revised \notin T
    BY <1>1, <2>2 DEF Unrevised
  <2> QED
    BY <2>1, <2>2
<1> QED
  BY <1>2 DEF Unrevised

-----------------------------------------------------------------------------
(* The steps of requests keep the types                                    *)

LEMMA BaseRequestOnly ==
    ASSUME BaseInv, NEW q \in Request, UNCHANGED setting,
           \/ SavePreprocessTask(q) \/ SavePending(q) \/ SaveCanceled(q) \/ ReadOthers(q)
           \/ \E c \in Country : StartFails(q, c)
           \/ \E r \in RowId : LoopFails(q, r)
    PROVE  BaseInv'
<1>1. /\ request[q] \in RequestState
      /\ session \in [status : SessionStatus, ready : BOOLEAN, task : TaskId \cup {None}]
      /\ request[q].task \in TaskId \cup {None}
      /\ rows \subseteq RowId /\ upload \in [RowId -> Columns]
      /\ \A r \in rows : country[r] # None
      /\ \A r \in RowId : Attached(upload[r], r)
  BY DEF BaseInv, TypesInv, TypeOK, FilesInv, UploadAttached, RequestState
<1>2. \A r \in RowId : Attached(Answered.copy[r], r)
  BY BlankTypes, NothingAttached
<1>3. CASE SavePreprocessTask(q)
  BY <1>1, <1>2, <1>3, BlankTypes, RequestGoesOn DEF SavePreprocessTask
<1>4. CASE SaveCanceled(q)
  BY <1>1, <1>2, <1>4, BlankTypes, RequestGoesOn DEF SaveCanceled, SessionStatus
<1>5. CASE \/ \E c \in Country : StartFails(q, c)
           \/ \E r \in RowId : LoopFails(q, r)
  BY <1>1, <1>2, <1>5, BlankTypes, RequestGoesOn DEF StartFails, LoopFails
<1>6. CASE SavePending(q)
  <2> DEFINE cancel == [Unsent EXCEPT !.pc = "cancel"]
  <2>1. cancel \in RequestState /\ cancel.pc = "cancel" /\ cancel.copy = NoCopies
    BY BlankTypes DEF RequestState, RequestPC
  <2>2. \A r \in RowId : Attached(cancel.copy[r], r)
    BY <2>1, NothingAttached
  <2>3. session' \in [status : SessionStatus, ready : BOOLEAN, task : TaskId \cup {None}]
    BY <1>1, <1>6 DEF SavePending, SessionStatus
  <2> HIDE DEF cancel
  <2>4. PICK turn \in {cancel, Answered} : request' = [request EXCEPT ![q] = turn]
    BY <1>6 DEF SavePending, cancel
  <2> QED
    BY <1>2, <1>6, <2>1, <2>2, <2>3, <2>4, BlankTypes, RequestGoesOn DEF SavePending
<1>7. CASE ReadOthers(q)
  <2> DEFINE clear == [Unsent EXCEPT !.pc = "clear", !.todo = rows \ request[q].kept,
                                     !.copy = upload]
  <2>1. clear \in RequestState /\ clear.todo \subseteq rows /\ clear.copy = upload
    BY <1>1, BlankTypes DEF RequestState, RequestPC
  <2> HIDE DEF clear
  <2>2. PICK turn \in {clear, Answered} : request' = [request EXCEPT ![q] = turn]
    BY <1>7 DEF ReadOthers, clear
  <2>3. turn.pc \in {"clear", "reset"} => turn.todo \subseteq {r \in RowId : country[r] # None}
    BY <1>1, <2>1, <2>2, BlankTypes
  <2>4. turn \in RequestState /\ \A r \in RowId : Attached(turn.copy[r], r)
    BY <1>1, <1>2, <2>1, <2>2, BlankTypes
  <2> QED
    BY <1>1, <1>7, <2>2, <2>3, <2>4, RequestGoesOn DEF ReadOthers
<1> QED
  BY <1>3, <1>4, <1>5, <1>6, <1>7

\* A new task
LEMMA QueuedTypes ==
    ASSUME NEW kind \in {"preprocess", "validate"}, NEW r \in RowId \cup {None}
    PROVE  LET x == [NoTask EXCEPT !.kind = kind, !.pc = "queued", !.row = r]
           IN  /\ x \in TaskState
               /\ x.kind = kind /\ x.pc = "queued" /\ x.row = r
               /\ x.seen = {} /\ x.copy = NoCopies
  BY BlankTypes DEF NoTask, TaskState, PreprocessPC

LEMMA QueuedKeepFiles ==
    ASSUME BaseInv, NEW t \in TaskId, UNCHANGED <<trees, published>>,
           \A i \in TaskId \ {t} : task'[i] = task[i],
           task'[t].pc = "queued", task[t].pc # "correct"
    PROVE  /\ \A i \in TaskId : Loose(task'[i].pc, i) \subseteq trees'
           /\ \A v \in published' : v = Clone(Maker(v)) /\ task'[Maker(v)].pc = "correct"
<1>1. Loose(task'[t].pc, t) = {}
  BY DEF Loose
<1>2. published \subseteq Revision
  BY DEF BaseInv, TypesInv, TypeOK
<1>3. \A v \in published : Maker(v) \in TaskId /\ Maker(v) # t
  BY <1>2, Revisions DEF BaseInv, FilesInv
<1> QED
  BY <1>1, <1>3 DEF BaseInv, FilesInv

LEMMA BaseQueuePreprocess ==
    ASSUME BaseInv, NEW q \in Request, NEW t \in TaskId, QueuePreprocess(q, t),
           UNCHANGED setting
    PROVE  BaseInv'
<1> DEFINE x == [NoTask EXCEPT !.kind = "preprocess", !.pc = "queued", !.row = None]
           turn == [request[q] EXCEPT !.pc = "savePreprocess", !.task = t]
<1>1. /\ request[q] \in RequestState
      /\ task[t].kind = "none"
      /\ \A r \in RowId : Attached(request[q].copy[r], r)
      /\ request[q].task \in TaskId \cup {None}
  BY DEF QueuePreprocess, FreshTask, BaseInv, TypesInv, FilesInv,
     RequestAttached, RequestState
<1>2. /\ x \in TaskState /\ x.kind = "preprocess" /\ x.pc = "queued"
      /\ x.seen = {} /\ x.copy = NoCopies
      /\ task' = [task EXCEPT ![t] = x]
  BY QueuedTypes DEF QueuePreprocess, Queue
<1>3. /\ turn \in RequestState /\ turn.pc = "savePreprocess" /\ turn.copy = request[q].copy
      /\ request' = [request EXCEPT ![q] = turn]
  BY <1>1 DEF QueuePreprocess, RequestState, RequestPC
<1> HIDE DEF x, turn
<1>4. UNCHANGED <<session, rows, upload, country, trees, published>>
  BY DEF QueuePreprocess, rowVars, treeVars
<1>5. /\ task' \in [TaskId -> TaskState]
      /\ \A i \in TaskId : TaskSound(i)' /\ TaskAttached(i)'
      /\ \A columns \in Columns, r \in RowId : Attached(columns, r) => Attached(columns, r)'
  BY <1>1, <1>2, <1>4, NothingAttached, TasksKept DEF PreprocessPC
<1>6. /\ request' \in [Request -> RequestState]
      /\ \A p \in Request : RequestSound(p)' /\ RequestAttached(p)'
  BY <1>1, <1>3, <1>4, <1>5, RequestsKept
<1>7. TypeOK'
  BY <1>1, <1>4 DEF BaseInv, TypesInv, TypeOK, QueuePreprocess, Revoke
<1>8. UploadAttached'
  BY <1>4, <1>5 DEF BaseInv, TypesInv, TypeOK, FilesInv, UploadAttached, Attached
<1>9. /\ \A i \in TaskId : Loose(task'[i].pc, i) \subseteq trees'
      /\ \A v \in published' : v = Clone(Maker(v)) /\ task'[Maker(v)].pc = "correct"
  <2>1. \A i \in TaskId \ {t} : task'[i] = task[i]
    BY <1>2 DEF BaseInv, TypesInv
  <2>2. task'[t].pc = "queued" /\ task[t].pc # "correct"
    <3>1. task[t] = NoTask /\ task'[t] = x
      BY <1>1, <1>2 DEF BaseInv, TypesInv, TaskSound
    <3> QED
      BY <1>2, <3>1 DEF NoTask
  <2> QED
    BY <1>4, <2>1, <2>2, QueuedKeepFiles
<1> QED
  BY <1>4, <1>5, <1>6, <1>7, <1>8, <1>9 DEF BaseInv, TypesInv, FilesInv

LEMMA BaseStartValidation ==
    ASSUME BaseInv, NEW q \in Request, NEW c \in Country, NEW r \in RowId, NEW t \in TaskId,
           StartValidation(q, c, r, t), UNCHANGED setting
    PROVE  BaseInv'
<1> DEFINE x == [NoTask EXCEPT !.kind = "validate", !.pc = "queued", !.row = r]
           turn == [request[q] EXCEPT !.pc = "saveValidate", !.todo = @ \ {c},
                                      !.kept = @ \cup {r}, !.row = r, !.task = t]
<1>1. /\ request[q] \in RequestState
      /\ task[t] = NoTask
      /\ \A s \in RowId : Attached(request[q].copy[s], s)
      /\ upload \in [RowId -> Columns] /\ upload[r].task \in TaskId \cup {None}
      /\ country \in [RowId -> Country \cup {None}]
      /\ \A s \in RowId : Attached(upload[s], s)
  BY DEF StartValidation, FreshTask, BaseInv, TypesInv, TypeOK, TaskSound, FilesInv,
     RequestAttached, UploadAttached, Columns
<1>2. /\ x \in TaskState /\ x.kind = "validate" /\ x.pc = "queued" /\ x.row = r
      /\ x.seen = {} /\ x.copy = NoCopies
      /\ task' = [task EXCEPT ![t] = x]
  BY QueuedTypes DEF StartValidation, Queue
<1>3. /\ turn \in RequestState /\ turn.pc = "saveValidate" /\ turn.copy = request[q].copy
      /\ request' = [request EXCEPT ![q] = turn]
  BY <1>1 DEF StartValidation, RequestState, RequestPC
<1> HIDE DEF x, turn
<1>4. /\ UNCHANGED <<session, trees, published>>
      /\ rows' = rows \cup {r}
      /\ country' = [country EXCEPT ![r] = c]
      /\ upload' = [upload EXCEPT ![r].status = "Started"]
  BY DEF StartValidation, treeVars
<1>5. \A s \in RowId : country[s] # None => country'[s] # None
  BY <1>1, <1>4, BlankTypes
<1>6. /\ task' \in [TaskId -> TaskState]
      /\ \A i \in TaskId : TaskSound(i)' /\ TaskAttached(i)'
      /\ \A columns \in Columns, s \in RowId : Attached(columns, s) => Attached(columns, s)'
  <2>0. country'[r] = c /\ c # None
    BY <1>1, <1>4, BlankTypes
  <2>1. country'[r] # None /\ task[t].kind = "none"
    BY <1>1, <2>0 DEF NoTask
  <2> QED
    BY <1>2, <1>5, <2>1, NothingAttached, TasksKept DEF ValidatePC
<1>7. /\ request' \in [Request -> RequestState]
      /\ \A p \in Request : RequestSound(p)' /\ RequestAttached(p)'
  BY <1>1, <1>3, <1>5, <1>6, RequestsKept
<1>8. /\ upload' \in [RowId -> Columns]
      /\ \A s \in RowId : upload'[s].revised = upload[s].revised
      /\ \A s \in RowId \ {r} : upload'[s] = upload[s]
  <2>1. upload'[r] = [upload[r] EXCEPT !.status = "Started"] /\ upload[r] \in Columns
    BY <1>1, <1>4
  <2>2. upload'[r] \in Columns /\ upload'[r].revised = upload[r].revised
    BY <2>1 DEF Columns, UploadStatus
  <2>3. \A s \in RowId \ {r} : upload'[s] = upload[s]
    BY <1>1, <1>4
  <2>4. upload' = [s \in RowId |-> upload'[s]]
    BY <1>1, <1>4
  <2> QED
    BY <1>1, <2>2, <2>3, <2>4
<1>9. TypeOK'
  <2>1. revoked' \subseteq TaskId
    BY <1>1 DEF BaseInv, TypesInv, TypeOK, StartValidation, Revoke
  <2>2. /\ country' \in [RowId -> Country \cup {None}]
        /\ \A s \in rows' : country'[s] # None
    BY <1>1, <1>4, <1>5, BlankTypes DEF BaseInv, TypesInv, TypeOK
  <2>3. rows' \subseteq RowId /\ UNCHANGED <<setting, session, trees, published>>
    BY <1>4 DEF BaseInv, TypesInv, TypeOK
  <2> QED
    BY <1>8, <2>1, <2>2, <2>3 DEF BaseInv, TypesInv, TypeOK
<1>10. UploadAttached'
  BY <1>1, <1>6, <1>8 DEF UploadAttached, Attached
<1>11. /\ \A i \in TaskId : Loose(task'[i].pc, i) \subseteq trees'
       /\ \A v \in published' : v = Clone(Maker(v)) /\ task'[Maker(v)].pc = "correct"
  <2>1. \A i \in TaskId \ {t} : task'[i] = task[i]
    BY <1>2 DEF BaseInv, TypesInv
  <2>2. task'[t].pc = "queued" /\ task[t].pc # "correct"
    BY <1>1, <1>2 DEF BaseInv, TypesInv, NoTask
  <2> QED
    BY <1>4, <2>1, <2>2, QueuedKeepFiles
<1> QED
  BY <1>4, <1>6, <1>7, <1>8, <1>9, <1>10, <1>11 DEF BaseInv, TypesInv, FilesInv

\* A step that leaves the tasks alone and no row without its country
LEMMA BaseFromUploads ==
    ASSUME BaseInv, NEW q \in Request, NEW turn \in RequestState,
           request' = [request EXCEPT ![q] = turn],
           turn.pc \in {"clear", "reset"} =>
             turn.todo \subseteq {r \in RowId : country[r] # None},
           \A r \in RowId : Attached(turn.copy[r], r),
           UNCHANGED <<country, task>>,
           TypeOK',
           \A r \in RowId : Attached(upload'[r], r),
           \A r \in RowId \ rows' : upload'[r] = Blank,
           published' \subseteq published,
           \A i \in TaskId : Loose(task[i].pc, i) \subseteq trees'
    PROVE  BaseInv'
<1>1. \A columns \in Columns, r \in RowId : Attached(columns, r) => Attached(columns, r)'
  BY DEF Attached
<1>2. /\ request' \in [Request -> RequestState]
      /\ \A p \in Request : RequestSound(p)' /\ RequestAttached(p)'
  BY <1>1, RequestsKept
<1>3. \A i \in TaskId : TaskSound(i)' /\ TaskAttached(i)'
  BY DEF BaseInv, TypesInv, FilesInv, TaskSound, TaskAttached, Attached
<1>4. UploadAttached'
  BY DEF UploadAttached, Attached
<1> QED
  BY <1>2, <1>3, <1>4 DEF BaseInv, TypesInv, FilesInv

LEMMA BaseSaveValidateTask ==
    ASSUME BaseInv, NEW q \in Request, SaveValidateTask(q), UNCHANGED setting
    PROVE  BaseInv'
<1> DEFINE r == request[q].row
           pc == IF request[q].todo = {} THEN "others" ELSE "start"
           next == [request[q] EXCEPT !.pc = pc, !.row = None, !.task = None]
<1>1. /\ request \in [Request -> RequestState]
      /\ request[q].task \in TaskId \cup {None}
      /\ upload \in [RowId -> Columns]
      /\ \A s \in RowId : Attached(request[q].copy[s], s) /\ Attached(upload[s], s)
      /\ \A s \in RowId : Attached(Answered.copy[s], s)
  BY NothingAttached, BlankTypes DEF BaseInv, TypesInv, TypeOK, FilesInv,
     RequestAttached, UploadAttached, RequestState
<1>2. pc \in {"others", "start"}
  OBVIOUS
<1> HIDE DEF pc
<1>3. next \in RequestState /\ next.pc = pc /\ next.copy = request[q].copy
  BY <1>1, <1>2 DEF RequestState, RequestPC
<1> HIDE DEF next
<1>4. CASE r \in rows
  <2>1. /\ upload' = [upload EXCEPT ![r].task = request[q].task]
        /\ request' = [request EXCEPT ![q] = next]
    BY <1>1, <1>4 DEF SaveValidateTask, next, pc
  <2>2. /\ upload' \in [RowId -> Columns]
        /\ \A s \in RowId : upload'[s].revised = upload[s].revised
        /\ \A s \in RowId \ {r} : upload'[s] = upload[s]
    BY <1>1, <2>1 DEF Columns
  <2>3. UNCHANGED <<session, rows, country, trees, published, task, revoked>>
    BY DEF SaveValidateTask, treeVars
  <2>4. TypeOK'
    BY <2>2, <2>3 DEF BaseInv, TypesInv, TypeOK
  <2>5. \A s \in RowId : Attached(upload'[s], s)
    BY <1>1, <2>2 DEF Attached
  <2>6. /\ \A s \in RowId \ rows' : upload'[s] = Blank
        /\ \A i \in TaskId : Loose(task[i].pc, i) \subseteq trees'
    BY <1>4, <2>2, <2>3 DEF BaseInv, TypesInv, FilesInv
  <2> QED
    BY <1>1, <1>2, <1>3, <2>1, <2>3, <2>4, <2>5, <2>6, BaseFromUploads
<1>5. CASE r \notin rows
  <2>1. /\ UNCHANGED <<session, rowVars, treeVars, task, revoked>>
        /\ request' = [request EXCEPT ![q] = Answered]
    BY <1>5 DEF SaveValidateTask, rowVars
  <2>2. session' \in [status : SessionStatus, ready : BOOLEAN, task : TaskId \cup {None}]
    BY <2>1 DEF BaseInv, TypesInv, TypeOK
  <2> QED
    BY <1>1, <2>1, <2>2, BlankTypes, RequestGoesOn
<1> QED
  BY <1>4, <1>5

\* No revision is deleted whose validation has not attached it.
LEMMA DeletedAreAttached ==
    ASSUME BaseInv, NEW T, \A x \in T : x = None \/ \E r \in RowId, columns \in Columns :
                                 Attached(columns, r) /\ columns.revised = x
    PROVE  \A i \in TaskId : Loose(task[i].pc, i) \subseteq trees \ T
<1> SUFFICES ASSUME NEW i \in TaskId, NEW v \in T, v \in Loose(task[i].pc, i) PROVE FALSE
  BY DEF BaseInv, FilesInv
<1>1. /\ v # None /\ Maker(v) = i
      /\ \/ v = Clone(i) /\ task[i].pc \in {"correct", "attach"}
         \/ v = Filed(i) /\ task[i].pc = "attachFile"
  BY Revisions DEF Loose
<1>2. PICK r \in RowId, columns \in Columns : Attached(columns, r) /\ columns.revised = v
  BY <1>1
<1>3. task[i].pc \in After(v)
  BY <1>1, <1>2 DEF Attached
<1> QED
  BY <1>1, <1>3, Revisions DEF Refiling, Settled, Checking

LEMMA BaseClearUpload ==
    ASSUME BaseInv, NEW q \in Request, NEW r \in RowId, ClearOther(q, r) \/ ResetUpload(q, r),
           UNCHANGED setting
    PROVE  BaseInv'
<1> DEFINE copy == request[q].copy[r]
           gone == {copy.revised} \ {None}
<1>1. /\ request[q] \in RequestState /\ copy \in Columns
      /\ r \in request[q].todo /\ country[r] # None
      /\ request[q].pc \in {"clear", "reset"}
      /\ request[q].todo \subseteq {s \in RowId : country[s] # None}
      /\ \A s \in RowId : Attached(request[q].copy[s], s) /\ Attached(NoCopies[s], s)
      /\ \A s \in RowId : Attached(upload[s], s)
  BY NothingAttached DEF ClearOther, ResetUpload, ClearUpload, BaseInv,
     TypesInv, FilesInv, RequestAttached, UploadAttached, RequestState, RequestSound
<1>2. /\ rows' = rows \cup {r}
      /\ trees' = trees \ {copy.revised} /\ published' = published \ {copy.revised}
      /\ upload' = [Unrevised(gone) EXCEPT ![r] = Blank]
      /\ revoked' = revoked \cup ({copy.task} \ {None})
      /\ UNCHANGED <<session, country, task>>
  BY DEF ClearOther, ResetUpload, ClearUpload, Revoke
<1>3. PICK turn \in RequestState :
        /\ request' = [request EXCEPT ![q] = turn]
        /\ turn.pc \in {"clear", "reset"} => turn.todo \subseteq request[q].todo
        /\ turn.copy = request[q].copy \/ turn.copy = NoCopies
  <2> DEFINE more == [request[q] EXCEPT !.todo = @ \ {r}]
             stop == [request[q] EXCEPT !.pc = "stop", !.copy = NoCopies, !.todo = {}]
             cancel == [Unsent EXCEPT !.pc = "cancel"]
  <2>1. /\ more \in RequestState /\ more.todo \subseteq request[q].todo
        /\ more.copy = request[q].copy
    BY <1>1 DEF RequestState
  <2>2. stop \in RequestState /\ stop.pc = "stop" /\ stop.copy = NoCopies
    BY <1>1, BlankTypes DEF RequestState, RequestPC
  <2>3. cancel \in RequestState /\ cancel.pc = "cancel" /\ cancel.copy = NoCopies
    BY BlankTypes DEF RequestState, RequestPC
  <2>4. AfterReset(q) \in {stop, cancel, Answered}
    BY DEF AfterReset
  <2>5. PICK after \in {AfterReset(q), Answered} : request' = NextUpload(q, r, after)
    BY DEF ClearOther, ResetUpload, ClearUpload
  <2>6. \/ request' = [request EXCEPT ![q] = more]
        \/ request' = [request EXCEPT ![q] = after]
    <3>1. CASE request[q].todo # {r}
      BY <2>5, <3>1 DEF NextUpload
    <3>2. CASE request[q].todo = {r}
      BY <2>5, <3>2 DEF NextUpload
    <3> QED
      BY <3>1, <3>2
  <2> HIDE DEF more, stop, cancel
  <2>7. CASE request' = [request EXCEPT ![q] = more]
    BY <2>1, <2>7
  <2>8. CASE request' = [request EXCEPT ![q] = after]
    <3>1. after \in {stop, cancel, Answered}
      BY <2>4
    <3>2. /\ after \in RequestState /\ after.copy = NoCopies
          /\ after.pc \notin {"clear", "reset"}
      BY <2>2, <2>3, <3>1, BlankTypes
    <3> QED
      BY <2>8, <3>2
  <2> QED
    BY <2>6, <2>7, <2>8
<1>4. /\ upload' \in [RowId -> Columns]
      /\ \A s \in RowId : /\ upload'[s].revised \in trees' \cup {None}
                          /\ Attached(upload'[s], s)
      /\ \A s \in RowId \ rows' : upload'[s] = Blank
  <2>1. /\ upload'[r] = Blank /\ \A s \in RowId \ {r} : upload'[s] = Unrevised(gone)[s]
        /\ upload' \in [RowId -> Columns]
    BY <1>2, BlankTypes, UnrevisedKept
  <2>2. (trees \ gone) \cup {None} = trees' \cup {None}
    BY <1>2
  <2>3. \A s \in RowId \ rows : upload[s] = Blank
    BY DEF BaseInv, TypesInv
  <2> HIDE DEF gone
  <2>4. \A s \in RowId : /\ Unrevised(gone)[s].revised \in (trees \ gone) \cup {None}
                         /\ Attached(Unrevised(gone)[s], s)
                         /\ upload[s] = Blank => Unrevised(gone)[s] = Blank
    BY UnrevisedKept
  <2> QED
    BY <1>2, <2>1, <2>2, <2>3, <2>4, BlankTypes, NothingAttached
<1>5. TypeOK'
  <2>1. revoked' \subseteq TaskId
    BY <1>1, <1>2 DEF BaseInv, TypesInv, TypeOK, Columns
  <2>2. rows' \subseteq RowId /\ \A s \in rows' : country'[s] # None
    BY <1>1, <1>2 DEF BaseInv, TypesInv, TypeOK
  <2> QED
    BY <1>2, <1>4, <2>1, <2>2 DEF BaseInv, TypesInv, TypeOK
<1>6. \A i \in TaskId : Loose(task[i].pc, i) \subseteq trees'
  BY <1>1, <1>2, DeletedAreAttached
<1>7. \A s \in RowId : Attached(turn.copy[s], s)
  BY <1>1, <1>3
<1>8. /\ turn.pc \in {"clear", "reset"} => turn.todo \subseteq {s \in RowId : country[s] # None}
      /\ published' \subseteq published
  BY <1>1, <1>2, <1>3
<1> QED
  BY <1>2, <1>3, <1>4, <1>5, <1>6, <1>7, <1>8, BaseFromUploads

LEMMA BaseStopPreprocessing ==
    ASSUME BaseInv, NEW q \in Request, StopPreprocessing(q), UNCHANGED setting
    PROVE  BaseInv'
<1> DEFINE turn == [request[q] EXCEPT !.pc = "delete", !.task = None]
           gone == {upload[r].revised : r \in rows} \ {None}
<1>1. /\ request[q] \in RequestState /\ request[q].task \in TaskId \cup {None}
      /\ upload \in [RowId -> Columns] /\ rows \subseteq RowId
      /\ \A s \in RowId : Attached(request[q].copy[s], s) /\ Attached(upload[s], s)
  BY DEF BaseInv, TypesInv, TypeOK, FilesInv, RequestAttached, UploadAttached,
     RequestState
<1>2. /\ turn \in RequestState /\ turn.pc = "delete" /\ turn.copy = request[q].copy
      /\ request' = [request EXCEPT ![q] = turn]
  BY <1>1 DEF StopPreprocessing, RequestState, RequestPC
<1>3. /\ trees' = trees \ gone /\ published' = published \ gone
      /\ upload' = Unrevised(gone)
      /\ revoked' = revoked \cup ({request[q].task} \ {None})
      /\ UNCHANGED <<session, rows, country, task>>
  BY DEF StopPreprocessing, DeleteTrees, Revoke
<1>4. \A x \in gone : x = None \/ \E r \in RowId, columns \in Columns :
                         Attached(columns, r) /\ columns.revised = x
  BY <1>1
<1> HIDE DEF turn, gone
<1>5. TypeOK'
  BY <1>1, <1>3, UnrevisedKept DEF BaseInv, TypesInv, TypeOK
<1>6. /\ \A s \in RowId : Attached(upload'[s], s)
      /\ \A s \in RowId \ rows' : upload'[s] = Blank
  BY <1>3, UnrevisedKept DEF BaseInv, TypesInv
<1>7. \A i \in TaskId : Loose(task[i].pc, i) \subseteq trees'
  BY <1>3, <1>4, DeletedAreAttached
<1>8. published' \subseteq published /\ turn.pc \notin {"clear", "reset"}
  BY <1>2, <1>3
<1> QED
  BY <1>1, <1>2, <1>3, <1>5, <1>6, <1>7, <1>8, BaseFromUploads

LEMMA BaseDeleteUploads ==
    ASSUME BaseInv, NEW q \in Request, DeleteUploads(q), UNCHANGED setting
    PROVE  BaseInv'
<1> DEFINE turn == [request[q] EXCEPT !.pc = "pending"]
<1>1. /\ request[q] \in RequestState
      /\ \A s \in RowId : Attached(request[q].copy[s], s)
  BY DEF BaseInv, TypesInv, FilesInv, RequestAttached
<1>2. /\ turn \in RequestState /\ turn.pc = "pending" /\ turn.copy = request[q].copy
      /\ request' = [request EXCEPT ![q] = turn]
  BY <1>1 DEF DeleteUploads, RequestState, RequestPC
<1>3. /\ rows' = {} /\ upload' = NoCopies
      /\ UNCHANGED <<session, country, trees, published, task, revoked>>
  BY DEF DeleteUploads, treeVars
<1> HIDE DEF turn
<1>4. TypeOK'
  BY <1>3, BlankTypes DEF BaseInv, TypesInv, TypeOK
<1>5. /\ \A s \in RowId : Attached(upload'[s], s)
      /\ \A s \in RowId \ rows' : upload'[s] = Blank
      /\ \A i \in TaskId : Loose(task[i].pc, i) \subseteq trees'
  BY <1>3, BlankTypes, NothingAttached DEF BaseInv, FilesInv
<1> QED
  BY <1>1, <1>2, <1>3, <1>4, <1>5, BaseFromUploads

\* Uploads have different revisions: what is deleted for some is not
\* another one's.
LEMMA OwnRevision ==
    ASSUME BaseInv, NEW r \in RowId, NEW s \in RowId,
           upload[r].revised = upload[s].revised, upload[r].revised # None
    PROVE  r = s
  BY DEF BaseInv, FilesInv, UploadAttached, Attached

LEMMA BaseSendToReview ==
    ASSUME BaseInv, NEW q \in Request, NEW U \in SUBSET RowId, SendToReview(q, U),
           UNCHANGED setting
    PROVE  BaseInv'
<1> DEFINE gone == {upload[r].revised : r \in rows \ U} \ {None}
<1>1. /\ upload \in [RowId -> Columns] /\ rows \subseteq RowId /\ U \subseteq rows
      /\ \A s \in RowId : Attached(upload[s], s) /\ Attached(Answered.copy[s], s)
      /\ \A s \in RowId : upload[s].revised \in trees \cup {None}
  BY BlankTypes, NothingAttached DEF SendToReview, BaseInv, TypesInv, TypeOK,
     FilesInv, UploadAttached
<1>2. /\ request' = [request EXCEPT ![q] = Answered]
      /\ session' = [session EXCEPT !.status = "Reviewing"]
      /\ trees' = trees \ gone /\ published' = published \ gone
      /\ upload' = [r \in RowId |-> IF r \in U THEN [upload[r] EXCEPT !.status = "Reviewing"]
                                    ELSE Unrevised(gone)[r]]
      /\ UNCHANGED <<rows, country, task, revoked>>
  BY DEF SendToReview
<1>3. \A x \in gone : x = None \/ \E r \in RowId, columns \in Columns :
                         Attached(columns, r) /\ columns.revised = x
  BY <1>1
<1>4. \A r \in U : upload[r].revised # None => upload[r].revised \notin gone
  BY <1>1, OwnRevision
<1> HIDE DEF gone
<1>5. ASSUME NEW r \in RowId
      PROVE  /\ upload'[r] \in Columns
             /\ upload'[r].revised \in trees' \cup {None}
             /\ Attached(upload'[r], r)
  <2>1. CASE r \in U
    <3>1. /\ upload'[r] = [upload[r] EXCEPT !.status = "Reviewing"]
          /\ upload[r] \in Columns
      BY <1>1, <1>2, <2>1
    <3>2. upload'[r] \in Columns /\ upload'[r].revised = upload[r].revised
      BY <3>1 DEF Columns, UploadStatus
    <3> QED
      BY <1>1, <1>2, <1>4, <2>1, <3>2 DEF Attached
  <2>2. CASE r \notin U
    BY <1>2, <2>2, UnrevisedKept
  <2> QED
    BY <2>1, <2>2
<1>6. \A s \in RowId \ rows' : upload'[s] = Blank
  <2>1. \A s \in RowId \ rows' : s \notin U /\ upload[s] = Blank
    BY <1>1, <1>2 DEF BaseInv, TypesInv
  <2> QED
    BY <1>2, <2>1, UnrevisedKept
<1>7. TypeOK'
  <2>1. session' \in [status : SessionStatus, ready : BOOLEAN, task : TaskId \cup {None}]
    BY <1>2 DEF BaseInv, TypesInv, TypeOK, SessionStatus
  <2>2. upload' \in [RowId -> Columns]
    BY <1>2, <1>5
  <2> QED
    BY <1>2, <1>5, <2>1, <2>2 DEF BaseInv, TypesInv, TypeOK
<1>8. \A i \in TaskId : Loose(task[i].pc, i) \subseteq trees'
  BY <1>2, <1>3, DeletedAreAttached
<1>9. published' \subseteq published
  BY <1>2
<1> QED
  BY <1>1, <1>2, <1>5, <1>6, <1>7, <1>8, <1>9, BlankTypes, BaseFromUploads

-----------------------------------------------------------------------------
(* The steps of tasks keep the types                                       *)

\* A task that goes on has the same kind and the same row.
Continues(t, x) ==
    /\ x.kind = task[t].kind /\ x.row = task[t].row
    /\ x.kind = "preprocess" => x.pc \in PreprocessPC
    /\ x.kind = "validate" => x.pc \in ValidatePC
    /\ task[t].kind = "validate" =>
         /\ task[t].pc \in Refiling \cup Settled => x.pc \in Refiling \cup Settled
         /\ task[t].pc \in Settled => x.pc \in Settled

\* A step of a task
LEMMA BaseFromTask ==
    ASSUME BaseInv, NEW t \in TaskId, Runnable(t), NEW x \in TaskState,
           task' = [task EXCEPT ![t] = x], Continues(t, x),
           UNCHANGED request,
           \A r \in RowId : Attached(x.copy[r], r) \/ AttachedBy(t, x, x.copy[r], r),
           x.seen \subseteq {r \in RowId : country'[r] # None},
           \A r \in RowId : country[r] # None => country'[r] # None,
           TypeOK',
           \A r \in RowId : Attached(upload'[r], r) \/ AttachedBy(t, x, upload'[r], r),
           \A r \in RowId \ rows' : upload'[r] = Blank,
           Loose(x.pc, t) \subseteq trees',
           \A i \in TaskId \ {t} : Loose(task[i].pc, i) \subseteq trees',
           published' \subseteq published \cup {Clone(t)},
           Clone(t) \in published' => x.pc = "correct"
    PROVE  BaseInv'
<1>1. /\ task \in [TaskId -> TaskState] /\ TaskSound(t)
      /\ task[t].kind # "none" /\ task[t].pc \notin Ended
  <2>1. NoTask.pc \in Ended
    BY DEF NoTask, Ended
  <2> QED
    BY <2>1 DEF Runnable, BaseInv, TypesInv, TaskSound
<1>2. /\ task' \in [TaskId -> TaskState]
      /\ \A i \in TaskId : TaskSound(i)' /\ TaskAttached(i)'
      /\ \A columns \in Columns, r \in RowId : Attached(columns, r) => Attached(columns, r)'
  BY <1>1, TasksKept DEF Continues, TaskSound, Ended
<1>3. UploadAttached'
  <2>1. \A r \in RowId : upload'[r] \in Columns
    BY DEF TypeOK
  <2>2. task'[t] = x
    BY <1>1
  <2> QED
    <3> SUFFICES ASSUME NEW r \in RowId PROVE Attached(upload[r], r)'
      BY DEF UploadAttached
    <3>1. CASE AttachedBy(t, x, upload'[r], r)
      BY <2>2, <3>1, Revisions DEF Attached, AttachedBy
    <3>2. CASE Attached(upload'[r], r)
      BY <1>2, <2>1, <3>2 DEF Attached
    <3> QED
      BY <3>1, <3>2
<1>4. \A q \in Request : RequestSound(q)' /\ RequestAttached(q)'
  <2>1. \A q \in Request, r \in RowId : request[q].copy[r] \in Columns
    BY DEF BaseInv, TypesInv, RequestState
  <2> QED
    BY <1>2, <2>1 DEF BaseInv, TypesInv, FilesInv, RequestSound,
       RequestAttached, Attached
<1>5. /\ \A i \in TaskId : Loose(task'[i].pc, i) \subseteq trees'
      /\ \A v \in published' : v = Clone(Maker(v)) /\ task'[Maker(v)].pc = "correct"
  <2>1. \A i \in TaskId \ {t} : task'[i] = task[i]
    BY <1>1
  <2>2. task'[t] = x
    BY <1>1
  <2>3. published' \subseteq Revision
    BY DEF TypeOK
  <2>4. \A v \in published' : v = Clone(Maker(v)) /\ Maker(v) \in TaskId
    BY <2>3, Revisions DEF BaseInv, FilesInv
  <2>5. ASSUME NEW v \in published' PROVE task'[Maker(v)].pc = "correct"
    <3>1. CASE Maker(v) = t
      BY <2>2, <2>4, <3>1
    <3>2. CASE Maker(v) # t
      <4>1. v # Clone(t)
        BY <3>2, Revisions
      <4> QED
        BY <2>1, <2>4, <3>2, <4>1 DEF BaseInv, FilesInv
    <3> QED
      BY <3>1, <3>2
  <2> QED
    BY <2>1, <2>2, <2>4, <2>5 DEF BaseInv, FilesInv
<1> QED
  BY <1>2, <1>3, <1>4, <1>5 DEF BaseInv, TypesInv, FilesInv

\* A step of a task that changes at most the session besides
LEMMA BaseFromTaskOnly ==
    ASSUME BaseInv, NEW t \in TaskId, Runnable(t), NEW x \in TaskState,
           task' = [task EXCEPT ![t] = x], Continues(t, x),
           UNCHANGED <<setting, rowVars, treeVars, revoked, request>>,
           \A r \in RowId : Attached(x.copy[r], r),
           x.seen \subseteq task[t].seen,
           Loose(x.pc, t) = {}, task[t].pc # "correct",
           session' \in [status : SessionStatus, ready : BOOLEAN, task : TaskId \cup {None}]
    PROVE  BaseInv'
<1>1. UNCHANGED <<rows, upload, country, trees, published>>
  BY DEF rowVars, treeVars
<1>2. TypeOK'
  BY <1>1 DEF BaseInv, TypesInv, TypeOK
<1>3. /\ \A r \in RowId : Attached(upload'[r], r)
      /\ \A r \in RowId \ rows' : upload'[r] = Blank
      /\ x.seen \subseteq {r \in RowId : country'[r] # None}
      /\ published' \subseteq published \cup {Clone(t)}
  BY <1>1 DEF BaseInv, TypesInv, FilesInv, UploadAttached, TaskSound
<1>4. Clone(t) \notin published' /\ \A i \in TaskId : Loose(task[i].pc, i) \subseteq trees'
  BY <1>1, Revisions DEF BaseInv, FilesInv
<1> QED
  BY <1>1, <1>2, <1>3, <1>4, BaseFromTask

\* The record of a task that ends
LEMMA EndedTypes ==
    ASSUME BaseInv, NEW t \in TaskId, Runnable(t), NEW pc \in {"done", "failed", "broken"},
           pc = "broken" => task[t].kind = "preprocess"
    PROVE  LET x == [NoTask EXCEPT !.kind = task[t].kind, !.pc = pc, !.row = task[t].row]
           IN  /\ x \in TaskState /\ x.pc = pc /\ Loose(x.pc, t) = {}
               /\ Continues(t, x)
               /\ x.seen = {} /\ \A r \in RowId : Attached(x.copy[r], r)
<1> DEFINE x == [NoTask EXCEPT !.kind = task[t].kind, !.pc = pc, !.row = task[t].row]
<1>1. task[t] \in TaskState
  BY DEF BaseInv, TypesInv
<1>2. /\ x \in TaskState /\ x.pc = pc /\ x.kind = task[t].kind /\ x.row = task[t].row
      /\ x.copy = NoCopies /\ x.seen = {}
  BY <1>1, BlankTypes DEF NoTask, TaskState, PreprocessPC
<1> HIDE DEF x
<1>3. Continues(t, x) /\ Loose(x.pc, t) = {}
  BY <1>2 DEF Continues, PreprocessPC, ValidatePC, Settled, Loose
<1> QED
  BY <1>2, <1>3, NothingAttached DEF x

\* A task that takes a step has a kind; which one, its pc says.
LEMMA RunnableTask ==
    ASSUME BaseInv, NEW t \in TaskId, Runnable(t)
    PROVE  /\ task[t] \in TaskState /\ task[t].pc \notin Ended
           /\ task[t].kind \in {"preprocess", "validate"}
           /\ task[t].kind = "preprocess" => task[t].pc \in PreprocessPC
           /\ task[t].kind = "validate" => /\ task[t].pc \in ValidatePC
                                           /\ task[t].row \in RowId
                                           /\ country[task[t].row] # None
           /\ task[t].seen \subseteq {r \in RowId : country[r] # None}
           /\ \A r \in RowId : Attached(task[t].copy[r], r)
           /\ \A r \in RowId : task[t].copy[r] \in Columns
<1>1. NoTask.pc \in Ended
  BY DEF NoTask, Ended
<1>2. task[t] \in TaskState /\ TaskSound(t) /\ TaskAttached(t)
  BY DEF BaseInv, TypesInv, FilesInv
<1> QED
  BY <1>1, <1>2 DEF Runnable, TaskSound, TaskAttached, TaskState

LEMMA NotPublished ==
    ASSUME BaseInv, NEW t \in TaskId, task[t].pc # "correct"
    PROVE  Clone(t) \notin published
  BY Revisions DEF BaseInv, FilesInv

\* Which kind, where the pc tells
LEMMA KindOf ==
    ASSUME BaseInv, NEW t \in TaskId, Runnable(t)
    PROVE  /\ task[t].pc \in {"delete", "match", "names", "finish"} =>
                task[t].kind = "preprocess"
           /\ task[t].pc \in Making \cup Refiling \cup Checking =>
                task[t].kind = "validate"
  BY RunnableTask DEF PreprocessPC, ValidatePC, Making, Refiling, Settled, Checking

LEMMA BaseStartPreprocessing ==
    ASSUME BaseInv, NEW t \in TaskId, StartPreprocessing(t), UNCHANGED setting
    PROVE  BaseInv'
<1> DEFINE x == [task[t] EXCEPT !.pc = "delete"]
           gone == {upload[r].revised : r \in rows} \ {None}
<1>1. /\ upload \in [RowId -> Columns] /\ rows \subseteq RowId
      /\ \A s \in RowId : Attached(upload[s], s)
      /\ Runnable(t) /\ task[t].kind = "preprocess" /\ task[t].pc = "queued"
  BY DEF StartPreprocessing, BaseInv, TypesInv, TypeOK, FilesInv, UploadAttached
<1>2. /\ x \in TaskState /\ x.pc = "delete" /\ x.kind = task[t].kind /\ x.row = task[t].row
      /\ x.copy = task[t].copy /\ x.seen = task[t].seen
  BY <1>1, RunnableTask DEF TaskState, PreprocessPC
<1>3. /\ trees' = trees \ gone /\ published' = published \ gone
      /\ upload' = Unrevised(gone)
      /\ task' = [task EXCEPT ![t] = x]
      /\ UNCHANGED <<session, rows, country, revoked, request>>
  BY DEF StartPreprocessing, DeleteTrees, TaskGoesTo
<1>4. \A y \in gone : y = None \/ \E r \in RowId, columns \in Columns :
                         Attached(columns, r) /\ columns.revised = y
  BY <1>1
<1> HIDE DEF x, gone
<1>5. TypeOK'
  BY <1>3, UnrevisedKept DEF BaseInv, TypesInv, TypeOK
<1>6. /\ \A s \in RowId : Attached(upload'[s], s)
      /\ \A s \in RowId \ rows' : upload'[s] = Blank
  BY <1>3, UnrevisedKept DEF BaseInv, TypesInv
<1>7. \A i \in TaskId : Loose(task[i].pc, i) \subseteq trees'
  BY <1>3, <1>4, DeletedAreAttached
<1>8. Continues(t, x) /\ Loose(x.pc, t) = {}
  BY <1>1, <1>2 DEF Continues, PreprocessPC, Loose
<1>9. published' \subseteq published /\ Clone(t) \notin published'
  BY <1>1, <1>3, NotPublished
<1>10. /\ x.seen \subseteq {r \in RowId : country'[r] # None}
       /\ \A r \in RowId : Attached(x.copy[r], r)
  BY <1>1, <1>2, <1>3, RunnableTask
<1> QED
  BY <1>1, <1>2, <1>3, <1>5, <1>6, <1>7, <1>8, <1>9, <1>10, BaseFromTask

LEMMA BaseRemoveUploads ==
    ASSUME BaseInv, NEW t \in TaskId, RemoveUploads(t), UNCHANGED setting
    PROVE  BaseInv'
<1> DEFINE x == [task[t] EXCEPT !.pc = "mark"]
<1>1. Runnable(t) /\ task[t].pc = "delete" /\ task[t].kind = "preprocess"
  BY KindOf DEF RemoveUploads
<1>2. /\ x \in TaskState /\ x.pc = "mark" /\ x.kind = task[t].kind /\ x.row = task[t].row
      /\ x.copy = task[t].copy /\ x.seen = task[t].seen
  BY <1>1, RunnableTask DEF TaskState, PreprocessPC
<1>3. /\ rows' = {} /\ upload' = NoCopies /\ task' = [task EXCEPT ![t] = x]
      /\ UNCHANGED <<session, country, trees, published, revoked, request>>
  BY DEF RemoveUploads, TaskGoesTo, treeVars
<1> HIDE DEF x
<1>4. TypeOK'
  BY <1>3, BlankTypes DEF BaseInv, TypesInv, TypeOK
<1>5. /\ \A s \in RowId : Attached(upload'[s], s)
      /\ \A s \in RowId \ rows' : upload'[s] = Blank
  BY <1>3, BlankTypes, NothingAttached
<1>6. Continues(t, x) /\ Loose(x.pc, t) = {}
  BY <1>1, <1>2 DEF Continues, PreprocessPC, Loose
<1>7. /\ published' \subseteq published /\ Clone(t) \notin published'
      /\ \A i \in TaskId : Loose(task[i].pc, i) \subseteq trees'
  BY <1>1, <1>2, <1>3, NotPublished DEF BaseInv, FilesInv
<1>8. /\ x.seen \subseteq {r \in RowId : country'[r] # None}
      /\ \A r \in RowId : Attached(x.copy[r], r)
  BY <1>1, <1>2, <1>3, RunnableTask
<1> QED
  BY <1>1, <1>2, <1>3, <1>4, <1>5, <1>6, <1>7, <1>8, BaseFromTask

LEMMA BaseTaskOnly ==
    ASSUME BaseInv, NEW t \in TaskId, UNCHANGED setting,
           \/ MarkPreProcessing(t) \/ FinishPreprocessing(t)
           \/ \E c \in Country : MatchFails(t, c)
           \/ PreprocessingBreaks(t) \/ ReadUpload(t) \/ CheckFeatures(t)
    PROVE  BaseInv'
<1>1. session \in [status : SessionStatus, ready : BOOLEAN, task : TaskId \cup {None}]
  BY DEF BaseInv, TypesInv, TypeOK
<1>2. Runnable(t)
  BY DEF MarkPreProcessing, FinishPreprocessing, MatchFails,
     PreprocessingBreaks, ReadUpload, CheckFeatures
<1>3. /\ UNCHANGED <<rowVars, treeVars, revoked, request>>
      /\ session' \in [status : SessionStatus, ready : BOOLEAN, task : TaskId \cup {None}]
  BY <1>1 DEF MarkPreProcessing, FinishPreprocessing, MatchFails,
     PreprocessingBreaks, ReadUpload, CheckFeatures, SessionStatus
<1>4. task[t].pc # "correct"
  BY <1>2, RunnableTask DEF MarkPreProcessing, FinishPreprocessing, MatchFails,
     PreprocessingBreaks, ReadUpload, CheckFeatures, PreprocessPC
<1>5. ASSUME \/ \E pc \in {"done", "failed"} : TaskEnds(t, pc)
             \/ TaskEnds(t, "broken") /\ task[t].kind = "preprocess"
      PROVE  BaseInv'
  <2>1. PICK pc \in {"done", "failed", "broken"} :
          TaskEnds(t, pc) /\ (pc = "broken" => task[t].kind = "preprocess")
    BY <1>5
  <2> DEFINE x == [NoTask EXCEPT !.kind = task[t].kind, !.pc = pc, !.row = task[t].row]
  <2>2. /\ x \in TaskState /\ Loose(x.pc, t) = {} /\ Continues(t, x)
        /\ x.seen = {} /\ \A r \in RowId : Attached(x.copy[r], r)
        /\ task' = [task EXCEPT ![t] = x]
    BY <1>2, <2>1, EndedTypes DEF TaskEnds
  <2> HIDE DEF x
  <2> QED
    BY <1>2, <1>3, <1>4, <2>2, BaseFromTaskOnly
<1>6. CASE MarkPreProcessing(t)
  <2> DEFINE x == [task[t] EXCEPT !.pc = "match", !.todo = setting.files]
  <2>1. setting.files \subseteq Country
    BY SessionAssumption DEF BaseInv, TypesInv, TypeOK, Circumstances
  <2>2. /\ x \in TaskState /\ x.pc = "match" /\ x.kind = task[t].kind /\ x.row = task[t].row
        /\ x.copy = task[t].copy /\ x.seen = task[t].seen
    BY <1>2, <2>1, RunnableTask DEF TaskState, PreprocessPC
  <2>3. task' = [task EXCEPT ![t] = x]
    BY <1>6 DEF MarkPreProcessing
  <2> HIDE DEF x
  <2>4. /\ Continues(t, x) /\ Loose(x.pc, t) = {}
        /\ \A r \in RowId : Attached(x.copy[r], r)
    BY <1>2, <1>6, <2>2, RunnableTask DEF MarkPreProcessing, Continues,
       PreprocessPC, Loose
  <2> QED
    BY <1>2, <1>3, <1>4, <2>2, <2>3, <2>4, BaseFromTaskOnly
<1>7. ASSUME NEW r \in RowId, r = task[t].row, r \in rows, ReadUpload(t),
             task' = [task EXCEPT ![t].pc = "mark", ![t].copy[r] = upload[r]]
      PROVE  BaseInv'
  <2> DEFINE copy == [task[t].copy EXCEPT ![r] = upload[r]]
             x == [task[t] EXCEPT !.pc = "mark", !.copy = copy]
  <2>1. /\ copy \in [RowId -> Columns]
        /\ \A s \in RowId : Attached(copy[s], s)
    BY <1>2, RunnableTask DEF BaseInv, TypesInv, TypeOK, FilesInv,
       UploadAttached, TaskState
  <2>2. task' = [task EXCEPT ![t] = x]
    BY <1>7
  <2> HIDE DEF copy
  <2>3. /\ x \in TaskState /\ x.pc = "mark" /\ x.kind = task[t].kind /\ x.row = task[t].row
        /\ x.copy = copy /\ x.seen = task[t].seen
    BY <1>2, <2>1, RunnableTask DEF TaskState, PreprocessPC
  <2> HIDE DEF x
  <2>4. Continues(t, x) /\ Loose(x.pc, t) = {}
    BY <1>2, <1>7, <2>3 DEF ReadUpload, Continues, ValidatePC, Refiling,
       Settled, Checking, Loose
  <2> QED
    BY <1>2, <1>3, <1>4, <2>1, <2>2, <2>3, <2>4, BaseFromTaskOnly
<1>8. ASSUME CheckFeatures(t), TaskGoesTo(t, "verdict") PROVE BaseInv'
  <2> DEFINE x == [task[t] EXCEPT !.pc = "verdict"]
  <2>1. /\ x \in TaskState /\ x.pc = "verdict" /\ x.kind = task[t].kind
        /\ x.row = task[t].row /\ x.copy = task[t].copy /\ x.seen = task[t].seen
    BY <1>2, RunnableTask DEF TaskState, ValidatePC, Settled, Checking
  <2>2. task' = [task EXCEPT ![t] = x]
    BY <1>8 DEF TaskGoesTo
  <2> HIDE DEF x
  <2>3. /\ Continues(t, x) /\ Loose(x.pc, t) = {}
        /\ \A r \in RowId : Attached(x.copy[r], r)
    BY <1>2, <1>8, <2>1, RunnableTask, KindOf
       DEF CheckFeatures, Continues, ValidatePC, Settled, Checking, Loose
  <2> QED
    BY <1>2, <1>3, <1>4, <2>1, <2>2, <2>3, BaseFromTaskOnly
<1>9. CASE ReadUpload(t)
  <2>1. task[t].row \in RowId
    BY <1>2, <1>9, RunnableTask DEF ReadUpload
  <2> QED
    BY <1>5, <1>7, <1>9, <2>1 DEF ReadUpload
<1> QED
  BY <1>5, <1>6, <1>8, <1>9 DEF FinishPreprocessing, MatchFails,
     PreprocessingBreaks, CheckFeatures

LEMMA BaseMatchCountry ==
    ASSUME BaseInv, NEW t \in TaskId, NEW c \in Country, NEW r \in RowId,
           MatchCountry(t, c, r), UNCHANGED setting
    PROVE  BaseInv'
<1> DEFINE copy == [task[t].copy EXCEPT ![r] = upload[r]]
           pc == IF task[t].todo = {c} /\ ~ setting.unreadable THEN "names" ELSE "match"
           x == [task[t] EXCEPT !.todo = @ \ {c}, !.seen = @ \cup {r}, !.copy = copy, !.pc = pc]
<1>1. /\ Runnable(t) /\ task[t].pc = "match" /\ task[t].kind = "preprocess"
      /\ country \in [RowId -> Country \cup {None}]
      /\ \A s \in RowId : Attached(upload[s], s)
  BY KindOf DEF MatchCountry, BaseInv, TypesInv, TypeOK, FilesInv, UploadAttached
<1>2. /\ copy \in [RowId -> Columns]
      /\ \A s \in RowId : Attached(copy[s], s)
  BY <1>1, RunnableTask DEF BaseInv, TypesInv, TypeOK, TaskState
<1>3. pc \in {"names", "match"}
  OBVIOUS
<1>4. task' = [task EXCEPT ![t] = x]
  BY DEF MatchCountry
<1> HIDE DEF copy, pc
<1>5. /\ x \in TaskState /\ x.pc = pc /\ x.kind = task[t].kind /\ x.row = task[t].row
      /\ x.copy = copy /\ x.seen = task[t].seen \cup {r}
  BY <1>1, <1>2, <1>3, RunnableTask DEF TaskState, PreprocessPC
<1> HIDE DEF x
<1>6. /\ rows' = rows \cup {r} /\ country' = [country EXCEPT ![r] = c]
      /\ UNCHANGED <<session, upload, trees, published, revoked, request>>
  BY DEF MatchCountry, treeVars
<1>7. /\ \A s \in RowId : country[s] # None => country'[s] # None
      /\ country'[r] # None
  BY <1>1, <1>6, BlankTypes
<1>8. TypeOK'
  BY <1>6, <1>7 DEF BaseInv, TypesInv, TypeOK
<1>9. /\ \A s \in RowId : Attached(upload'[s], s)
      /\ \A s \in RowId \ rows' : upload'[s] = Blank
  BY <1>1, <1>6 DEF BaseInv, TypesInv
<1>10. Continues(t, x) /\ Loose(x.pc, t) = {}
  BY <1>1, <1>3, <1>5 DEF Continues, PreprocessPC, Loose
<1>11. /\ published' \subseteq published /\ Clone(t) \notin published'
       /\ \A i \in TaskId : Loose(task[i].pc, i) \subseteq trees'
  BY <1>1, <1>6, NotPublished DEF BaseInv, FilesInv
<1>12. /\ x.seen \subseteq {s \in RowId : country'[s] # None}
       /\ \A s \in RowId : Attached(x.copy[s], s)
  BY <1>1, <1>2, <1>5, <1>7, RunnableTask
<1> QED
  BY <1>1, <1>5, <1>4, <1>6, <1>7, <1>8, <1>9, <1>10, <1>11, <1>12, BaseFromTask

\* A task that fails
LEMMA BaseTaskFails ==
    ASSUME BaseInv, NEW t \in TaskId, Runnable(t), TaskEnds(t, "failed"),
           task[t].pc # "correct",
           UNCHANGED <<setting, session, rowVars, treeVars, revoked, request>>
    PROVE  BaseInv'
<1> DEFINE x == [NoTask EXCEPT !.kind = task[t].kind, !.pc = "failed", !.row = task[t].row]
<1>1. /\ x \in TaskState /\ Loose(x.pc, t) = {} /\ Continues(t, x)
      /\ x.seen = {} /\ \A r \in RowId : Attached(x.copy[r], r)
      /\ task' = [task EXCEPT ![t] = x]
  BY EndedTypes DEF TaskEnds
<1> HIDE DEF x
<1>2. session' \in [status : SessionStatus, ready : BOOLEAN, task : TaskId \cup {None}]
  BY DEF BaseInv, TypesInv, TypeOK
<1> QED
  BY <1>1, <1>2, BaseFromTaskOnly

LEMMA BaseSaveLevelNames ==
    ASSUME BaseInv, NEW t \in TaskId, SaveLevelNames(t), UNCHANGED setting
    PROVE  BaseInv'
<1>1. /\ Runnable(t) /\ task[t].pc = "names" /\ task[t].kind = "preprocess"
      /\ UNCHANGED <<session, country, trees, published, revoked, request>>
      /\ upload \in [RowId -> Columns] /\ \A r \in RowId : Attached(upload[r], r)
  BY KindOf DEF SaveLevelNames, BaseInv, TypesInv, TypeOK, FilesInv,
     UploadAttached, treeVars
<1>2. CASE \A r \in task[t].seen : Fetchable(task[t].copy[r])
  <2> DEFINE x == [task[t] EXCEPT !.pc = "finish", !.seen = {}, !.copy = NoCopies]
  <2>1. /\ x \in TaskState /\ x.pc = "finish" /\ x.kind = task[t].kind
        /\ x.row = task[t].row /\ x.copy = NoCopies /\ x.seen = {}
    BY <1>1, RunnableTask, BlankTypes DEF TaskState, PreprocessPC
  <2>2. /\ rows' = rows \cup task[t].seen
        /\ upload' = [r \in RowId |-> IF r \in task[t].seen THEN task[t].copy[r]
                                      ELSE upload[r]]
        /\ task' = [task EXCEPT ![t] = x]
    BY <1>2 DEF SaveLevelNames
  <2> HIDE DEF x
  <2>3. \A r \in RowId : /\ upload'[r] \in Columns
                         /\ upload'[r].revised \in trees \cup {None}
                         /\ Attached(upload'[r], r)
    BY <1>1, <1>2, <2>2, RunnableTask DEF Fetchable, BaseInv, TypesInv, TypeOK
  <2>4. TypeOK'
    <3>1. rows' \subseteq RowId /\ \A r \in rows' : country'[r] # None
      BY <1>1, <2>2, RunnableTask DEF BaseInv, TypesInv, TypeOK
    <3>2. upload' \in [RowId -> Columns]
      BY <2>2, <2>3
    <3> QED
      BY <1>1, <2>3, <3>1, <3>2 DEF BaseInv, TypesInv, TypeOK
  <2>5. \A r \in RowId \ rows' : upload'[r] = Blank
    BY <2>2 DEF BaseInv, TypesInv
  <2>6. Continues(t, x) /\ Loose(x.pc, t) = {}
    BY <1>1, <2>1 DEF Continues, PreprocessPC, Loose
  <2>7. /\ published' \subseteq published /\ Clone(t) \notin published'
        /\ \A i \in TaskId : Loose(task[i].pc, i) \subseteq trees'
    BY <1>1, NotPublished DEF BaseInv, FilesInv
  <2>8. /\ \A r \in RowId : Attached(x.copy[r], r)
        /\ \A r \in RowId : country[r] # None => country'[r] # None
        /\ x.seen \subseteq {r \in RowId : country'[r] # None}
    BY <1>1, <2>1, NothingAttached
  <2> QED
    BY <1>1, <2>1, <2>2, <2>3, <2>4, <2>5, <2>6, <2>7, <2>8, BaseFromTask
<1>3. CASE ~ \A r \in task[t].seen : Fetchable(task[t].copy[r])
  <2>1. TaskEnds(t, "failed") /\ UNCHANGED <<rowVars, treeVars>>
    BY <1>1, <1>3 DEF SaveLevelNames, rowVars, treeVars
  <2> QED
    BY <1>1, <2>1, BaseTaskFails
<1> QED
  BY <1>2, <1>3

LEMMA BaseMarkProcessing ==
    ASSUME BaseInv, NEW t \in TaskId, MarkProcessing(t), UNCHANGED setting
    PROVE  BaseInv'
<1> DEFINE r == task[t].row
           pc == IF task[t].copy[r].revised # None THEN WithRevision
                 ELSE IF IsNew(r) THEN "store" ELSE "clone"
           x == [task[t] EXCEPT !.pc = pc]
<1>1. /\ Runnable(t) /\ task[t].pc = "mark" /\ task[t].kind = "validate" /\ r \in RowId
      /\ UNCHANGED <<session, rows, country, trees, published, revoked, request>>
      /\ upload \in [RowId -> Columns] /\ \A s \in RowId : Attached(upload[s], s)
  BY RunnableTask DEF MarkProcessing, BaseInv, TypesInv, TypeOK, FilesInv,
     UploadAttached, treeVars
<1>2. pc \in {"clone", "check", "detach", "store"}
  BY DEF WithRevision
<1>3. CASE r \in rows
  <2>1. /\ upload' = [upload EXCEPT ![r].status = "Processing"]
        /\ task' = [task EXCEPT ![t] = x]
    BY <1>3 DEF MarkProcessing, TaskGoesTo
  <2> HIDE DEF pc
  <2>2. /\ x \in TaskState /\ x.pc = pc /\ x.kind = task[t].kind
        /\ x.row = task[t].row /\ x.copy = task[t].copy /\ x.seen = task[t].seen
    BY <1>1, <1>2, RunnableTask DEF TaskState, ValidatePC, Making, Refiling,
       Settled, Checking
  <2> HIDE DEF x
  <2>3. /\ upload' = [upload EXCEPT ![r] = upload'[r]]
        /\ upload'[r] \in Columns /\ upload'[r].revised = upload[r].revised
    BY <1>1, <2>1 DEF Columns, UploadStatus
  <2>4. \A s \in RowId : /\ upload'[s] \in Columns
                         /\ upload'[s].revised = upload[s].revised
                         /\ Attached(upload'[s], s)
                         /\ s # r => upload'[s] = upload[s]
    <3> HIDE DEF r
    <3> QED
      BY <1>1, <2>3 DEF Attached
  <2>5. TypeOK'
    <3>1. upload' \in [RowId -> Columns]
      BY <1>1, <2>1, <2>4
    <3> QED
      BY <1>1, <2>4, <3>1 DEF BaseInv, TypesInv, TypeOK
  <2>6. \A s \in RowId \ rows' : upload'[s] = Blank
    BY <1>1, <1>3, <2>4 DEF BaseInv, TypesInv
  <2>7. Continues(t, x) /\ Loose(x.pc, t) = {}
    BY <1>1, <1>2, <2>2
       DEF Continues, ValidatePC, Making, Refiling, Settled, Checking, Loose
  <2>8. /\ published' \subseteq published /\ Clone(t) \notin published'
        /\ \A i \in TaskId : Loose(task[i].pc, i) \subseteq trees'
    BY <1>1, NotPublished DEF BaseInv, FilesInv
  <2>9. /\ \A s \in RowId : Attached(x.copy[s], s)
        /\ \A s \in RowId : country[s] # None => country'[s] # None
        /\ x.seen \subseteq {s \in RowId : country'[s] # None}
    BY <1>1, <2>2, RunnableTask
  <2> QED
    BY <1>1, <2>1, <2>2, <2>4, <2>5, <2>6, <2>7, <2>8, <2>9, BaseFromTask
<1>4. CASE r \notin rows
  <2>1. TaskEnds(t, "failed") /\ UNCHANGED <<rowVars, treeVars>>
    BY <1>1, <1>4 DEF MarkProcessing, rowVars, treeVars
  <2> QED
    BY <1>1, <2>1, BaseTaskFails
<1> QED
  BY <1>3, <1>4

LEMMA BaseClone ==
    ASSUME BaseInv, NEW t \in TaskId, CloneCountry(t) \/ CorrectClone(t), UNCHANGED setting
    PROVE  BaseInv'
<1> DEFINE pc == IF task[t].pc = "clone" THEN "correct" ELSE "attach"
           x == [task[t] EXCEPT !.pc = pc]
<1>1. /\ Runnable(t) /\ task[t].pc \in {"clone", "correct"} /\ task[t].kind = "validate"
      /\ UNCHANGED <<session, rows, upload, country, revoked, request>>
      /\ trees' = trees \cup {Clone(t)}
      /\ published' \subseteq published \cup {Clone(t)} /\ published' \subseteq trees'
      /\ Clone(t) \in published' => task[t].pc = "clone"
      /\ task' = [task EXCEPT ![t] = x]
  BY KindOf DEF CloneCountry, CorrectClone, TaskGoesTo, Making, rowVars,
     BaseInv, TypesInv, TypeOK
<1>2. pc \in {"correct", "attach"} /\ (Clone(t) \in published' => pc = "correct")
  BY <1>1
<1> HIDE DEF pc
<1>3. /\ x \in TaskState /\ x.pc = pc /\ x.kind = task[t].kind
      /\ x.row = task[t].row /\ x.copy = task[t].copy /\ x.seen = task[t].seen
  BY <1>1, <1>2, RunnableTask DEF TaskState, ValidatePC, Making
<1> HIDE DEF x
<1>4. TypeOK'
  BY <1>1, Revisions DEF BaseInv, TypesInv, TypeOK
<1>5. /\ \A r \in RowId : Attached(upload'[r], r)
      /\ \A r \in RowId \ rows' : upload'[r] = Blank
  BY <1>1 DEF BaseInv, TypesInv, FilesInv, UploadAttached
<1>6. Continues(t, x)
  BY <1>1, <1>2, <1>3 DEF Continues, ValidatePC, Making, Refiling, Settled, Checking
<1>7. /\ \A r \in RowId : Attached(x.copy[r], r)
      /\ \A r \in RowId : country[r] # None => country'[r] # None
      /\ x.seen \subseteq {r \in RowId : country'[r] # None}
      /\ \A i \in TaskId : Loose(task[i].pc, i) \subseteq trees'
      /\ Loose(x.pc, t) \subseteq trees' /\ (Clone(t) \in published' => x.pc = "correct")
  BY <1>1, <1>2, <1>3, RunnableTask DEF Loose, BaseInv, FilesInv
<1> QED
  BY <1>1, <1>3, <1>4, <1>5, <1>6, <1>7, BaseFromTask

\* A revision that was made becomes the upload's.
LEMMA BaseAttach ==
    ASSUME BaseInv, NEW t \in TaskId, NEW v \in trees, NEW pc \in {"check", "detach"},
           Runnable(t), Attach(t, v, pc), v \in {Clone(t), Filed(t)}, pc \in After(v),
           task[t].pc \in {"attach", "attachFile"}, UNCHANGED setting
    PROVE  BaseInv'
<1> DEFINE r == task[t].row
           columns == [task[t].copy[r] EXCEPT !.status = "Processing", !.revised = v]
           copy == [task[t].copy EXCEPT ![r] = columns]
           x == [task[t] EXCEPT !.pc = pc, !.copy = copy]
<1>1. /\ task[t].kind = "validate" /\ r \in RowId /\ country[r] # None
      /\ UNCHANGED <<session, country, trees, published, revoked, request>>
      /\ upload \in [RowId -> Columns] /\ \A s \in RowId : Attached(upload[s], s)
      /\ Clone(t) \notin published /\ v \in Revision
  BY RunnableTask, KindOf, NotPublished, Revisions DEF Attach, BaseInv,
     TypesInv, TypeOK, FilesInv, UploadAttached, treeVars, Making, Refiling
<1>2. /\ rows' = rows \cup {r} /\ upload' = [upload EXCEPT ![r] = columns]
      /\ task' = [task EXCEPT ![t] = x]
  BY DEF Attach, SaveRow
<1>3. columns \in Columns /\ columns.revised = v
  <2>1. task[t].copy[r] \in Columns
    BY <1>1, RunnableTask
  <2> QED
    BY <1>1, <2>1 DEF Columns, UploadStatus
<1> HIDE DEF columns
<1>4. /\ copy \in [RowId -> Columns]
      /\ \A s \in RowId : Attached(copy[s], s) \/ (s = r /\ copy[s].revised = v)
  BY <1>1, <1>3, RunnableTask DEF TaskState
<1> HIDE DEF copy
<1>5. /\ x \in TaskState /\ x.pc = pc /\ x.kind = task[t].kind
      /\ x.row = task[t].row /\ x.copy = copy /\ x.seen = task[t].seen
  <2>1. task[t] \in TaskState
    BY <1>1, RunnableTask
  <2> QED
    BY <1>4, <2>1 DEF TaskState, ValidatePC, Refiling, Settled, Checking
<1> HIDE DEF x
<1>6. \A s \in RowId : Attached(x.copy[s], s) \/ AttachedBy(t, x, x.copy[s], s)
  BY <1>1, <1>4, <1>5 DEF AttachedBy
<1>7. \A s \in RowId : Attached(upload'[s], s) \/ AttachedBy(t, x, upload'[s], s)
  BY <1>1, <1>2, <1>3, <1>5 DEF AttachedBy
<1>8. TypeOK'
  <2> HIDE DEF r
  <2>1. /\ upload' \in [RowId -> Columns]
        /\ \A s \in RowId : upload'[s].revised \in trees' \cup {None}
    BY <1>1, <1>2, <1>3 DEF BaseInv, TypesInv, TypeOK
  <2> QED
    BY <1>1, <1>2, <2>1 DEF BaseInv, TypesInv, TypeOK
<1>9. \A s \in RowId \ rows' : upload'[s] = Blank
  <2> HIDE DEF r
  <2> QED
    BY <1>1, <1>2 DEF BaseInv, TypesInv, TypeOK
<1>10. Continues(t, x) /\ Loose(x.pc, t) = {}
  BY <1>1, <1>5 DEF Continues, ValidatePC, Refiling, Settled, Checking, Loose
<1>11. /\ \A s \in RowId : country[s] # None => country'[s] # None
       /\ x.seen \subseteq {s \in RowId : country'[s] # None}
       /\ \A i \in TaskId : Loose(task[i].pc, i) \subseteq trees'
       /\ published' \subseteq published /\ Clone(t) \notin published'
  BY <1>1, <1>5, RunnableTask DEF BaseInv, FilesInv
<1> QED
  BY <1>1, <1>2, <1>5, <1>6, <1>7, <1>8, <1>9, <1>10, <1>11, BaseFromTask

LEMMA BaseAttaches ==
    ASSUME BaseInv, NEW t \in TaskId, AttachClone(t) \/ AttachFile(t), UNCHANGED setting
    PROVE  BaseInv'
<1>1. CASE AttachClone(t)
  <2>1. Clone(t) \in trees /\ Runnable(t) /\ task[t].pc = "attach"
    BY <1>1 DEF AttachClone, BaseInv, FilesInv, Loose
  <2>2. /\ WithRevision \in {"check", "detach"} /\ WithRevision \in After(Clone(t))
        /\ Attach(t, Clone(t), WithRevision)
    BY <1>1, Revisions DEF AttachClone, WithRevision, Refiling, Settled, Checking
  <2> HIDE DEF WithRevision
  <2> QED
    BY <2>1, <2>2, BaseAttach
<1>2. CASE AttachFile(t)
  <2>1. Filed(t) \in trees /\ Runnable(t) /\ task[t].pc = "attachFile"
    BY <1>2 DEF AttachFile, BaseInv, FilesInv, Loose
  <2>2. "check" \in After(Filed(t)) /\ Attach(t, Filed(t), "check")
    BY <1>2, Revisions DEF AttachFile, Settled, Checking
  <2> QED
    BY <2>1, <2>2, BaseAttach
<1> QED
  BY <1>1, <1>2

LEMMA BaseDetach ==
    ASSUME BaseInv, NEW t \in TaskId, Detach(t), UNCHANGED setting
    PROVE  BaseInv'
<1> DEFINE r == task[t].row
           columns == [task[t].copy[r] EXCEPT !.status = "Processing", !.revised = None]
           x == [task[t] EXCEPT !.pc = "drop"]
<1>1. /\ Runnable(t) /\ task[t].pc = "detach" /\ task[t].kind = "validate" /\ r \in RowId
      /\ country[r] # None
      /\ UNCHANGED <<session, country, trees, published, revoked, request>>
      /\ upload \in [RowId -> Columns] /\ \A s \in RowId : Attached(upload[s], s)
  BY RunnableTask, KindOf DEF Detach, BaseInv, TypesInv, TypeOK, FilesInv,
     UploadAttached, treeVars, Refiling
<1>2. CASE Fetchable(task[t].copy[r]) \/ task[t].copy[r].revised = Clone(t)
  <2>1. /\ rows' = rows \cup {r} /\ upload' = [upload EXCEPT ![r] = columns]
        /\ task' = [task EXCEPT ![t] = x]
    BY <1>2 DEF Detach, SaveRow, TaskGoesTo
  <2>2. columns \in Columns /\ columns.revised = None /\ Attached(columns, r)
    <3>1. task[t].copy[r] \in Columns
      BY <1>1, RunnableTask
    <3>2. columns \in Columns /\ columns.revised = None
      BY <3>1 DEF Columns, UploadStatus
    <3> QED
      BY <3>2 DEF Attached
  <2> HIDE DEF columns
  <2>3. /\ x \in TaskState /\ x.pc = "drop" /\ x.kind = task[t].kind
        /\ x.row = task[t].row /\ x.copy = task[t].copy /\ x.seen = task[t].seen
    BY <1>1, RunnableTask DEF TaskState, ValidatePC, Refiling
  <2> HIDE DEF x
  <2>4. Continues(t, x) /\ Loose(x.pc, t) = {}
    BY <1>1, <2>3 DEF Continues, ValidatePC, Refiling, Settled, Checking, Loose
  <2> HIDE DEF r
  <2>5. TypeOK'
    <3>1. /\ upload' \in [RowId -> Columns]
          /\ \A s \in RowId : upload'[s].revised \in trees' \cup {None}
      BY <1>1, <2>1, <2>2 DEF BaseInv, TypesInv, TypeOK
    <3> QED
      BY <1>1, <2>1, <3>1 DEF BaseInv, TypesInv, TypeOK
  <2>6. /\ \A s \in RowId : Attached(upload'[s], s)
        /\ \A s \in RowId \ rows' : upload'[s] = Blank
    BY <1>1, <2>1, <2>2 DEF BaseInv, TypesInv, TypeOK
  <2>7. /\ \A s \in RowId : country[s] # None => country'[s] # None
        /\ x.seen \subseteq {s \in RowId : country'[s] # None}
        /\ \A s \in RowId : Attached(x.copy[s], s)
        /\ \A i \in TaskId : Loose(task[i].pc, i) \subseteq trees'
        /\ published' \subseteq published /\ Clone(t) \notin published'
    BY <1>1, <2>3, RunnableTask, NotPublished DEF BaseInv, FilesInv
  <2> QED
    BY <1>1, <2>1, <2>3, <2>4, <2>5, <2>6, <2>7, BaseFromTask
<1>3. CASE ~ (Fetchable(task[t].copy[r]) \/ task[t].copy[r].revised = Clone(t))
  <2>1. TaskEnds(t, "failed") /\ UNCHANGED <<rowVars, treeVars>>
    BY <1>1, <1>3 DEF Detach, rowVars, treeVars
  <2> QED
    BY <1>1, <2>1, BaseTaskFails
<1> QED
  BY <1>2, <1>3

LEMMA BaseDropRevision ==
    ASSUME BaseInv, NEW t \in TaskId, DropRevision(t), UNCHANGED setting
    PROVE  BaseInv'
<1> DEFINE r == task[t].row
           gone == {task[t].copy[r].revised}
           columns == [task[t].copy[r] EXCEPT !.revised = None]
           copy == [task[t].copy EXCEPT ![r] = columns]
           x == [task[t] EXCEPT !.pc = "store", !.copy = copy]
<1>1. /\ Runnable(t) /\ task[t].pc = "drop" /\ task[t].kind = "validate" /\ r \in RowId
      /\ task[t] \in TaskState /\ task[t].copy \in [RowId -> Columns]
      /\ \A s \in RowId : Attached(task[t].copy[s], s)
      /\ task[t].seen \subseteq {s \in RowId : country[s] # None}
  BY RunnableTask, KindOf DEF DropRevision, Refiling, TaskState
<1>2. /\ trees' = trees \ gone /\ published' = published \ gone
      /\ upload' = Unrevised(gone)
      /\ task' = [task EXCEPT ![t] = x]
      /\ UNCHANGED <<session, rows, country, revoked, request>>
  BY DEF DropRevision, DeleteTrees
<1>3. \A v \in gone : v = None \/ \E s \in RowId, c \in Columns :
                         Attached(c, s) /\ c.revised = v
  BY <1>1
<1>4. columns \in Columns /\ columns.revised = None
  BY <1>1 DEF Columns
<1> HIDE DEF columns, gone
<1>5. copy \in [RowId -> Columns] /\ \A s \in RowId : Attached(copy[s], s)
  <2> HIDE DEF r
  <2> QED
    BY <1>1, <1>4 DEF Attached
<1> HIDE DEF copy
<1>6. /\ x \in TaskState /\ x.pc = "store" /\ x.kind = task[t].kind
      /\ x.row = task[t].row /\ x.copy = copy /\ x.seen = task[t].seen
  BY <1>1, <1>5 DEF TaskState, ValidatePC, Refiling
<1> HIDE DEF x
<1>7. TypeOK'
  BY <1>2, UnrevisedKept DEF BaseInv, TypesInv, TypeOK
<1>8. /\ \A s \in RowId : Attached(upload'[s], s)
      /\ \A s \in RowId \ rows' : upload'[s] = Blank
  BY <1>2, UnrevisedKept DEF BaseInv, TypesInv
<1>9. \A i \in TaskId : Loose(task[i].pc, i) \subseteq trees'
  BY <1>2, <1>3, DeletedAreAttached
<1>10. Continues(t, x) /\ Loose(x.pc, t) = {}
  BY <1>1, <1>6 DEF Continues, ValidatePC, Refiling, Settled, Checking, Loose
<1>11. /\ published' \subseteq published /\ Clone(t) \notin published'
       /\ x.seen \subseteq {s \in RowId : country'[s] # None}
       /\ \A s \in RowId : country[s] # None => country'[s] # None
  BY <1>1, <1>2, <1>6, NotPublished
<1> QED
  BY <1>1, <1>2, <1>5, <1>6, <1>7, <1>8, <1>9, <1>10, <1>11, BaseFromTask

LEMMA BaseStoreCountry ==
    ASSUME BaseInv, NEW t \in TaskId, StoreCountry(t), UNCHANGED setting
    PROVE  BaseInv'
<1>1. /\ Runnable(t) /\ task[t].pc = "store" /\ task[t].kind = "validate"
      /\ UNCHANGED <<session, rows, upload, country, published, revoked, request>>
      /\ published \subseteq trees /\ Clone(t) \notin published
      /\ \A i \in TaskId : Loose(task[i].pc, i) \subseteq trees
  BY KindOf, NotPublished DEF StoreCountry, Refiling, rowVars, BaseInv,
     TypesInv, TypeOK, FilesInv
<1>2. CASE task[t].row \in rows
  <2>1. PICK pc \in {"attachFile", "verdict"} :
          /\ TaskGoesTo(t, pc)
          /\ trees' = IF pc = "attachFile" THEN trees \cup {Filed(t)} ELSE trees
    BY <1>2 DEF StoreCountry
  <2> DEFINE x == [task[t] EXCEPT !.pc = pc]
  <2>2. /\ x \in TaskState /\ x.pc = pc /\ x.kind = task[t].kind
        /\ x.row = task[t].row /\ x.copy = task[t].copy /\ x.seen = task[t].seen
        /\ task' = [task EXCEPT ![t] = x]
    BY <1>1, <2>1, RunnableTask
       DEF TaskGoesTo, TaskState, ValidatePC, Refiling, Settled, Checking
  <2> HIDE DEF x
  <2>3. trees \subseteq trees' /\ trees' \subseteq Revision
    BY <2>1, Revisions DEF BaseInv, TypesInv, TypeOK
  <2>4. TypeOK'
    BY <1>1, <2>3 DEF BaseInv, TypesInv, TypeOK
  <2>5. /\ \A r \in RowId : Attached(upload'[r], r)
        /\ \A r \in RowId \ rows' : upload'[r] = Blank
    BY <1>1 DEF BaseInv, TypesInv, FilesInv, UploadAttached
  <2>6. Continues(t, x)
    BY <1>1, <2>1, <2>2 DEF Continues, ValidatePC, Refiling, Settled, Checking
  <2>7. Loose(x.pc, t) \subseteq trees'
    BY <2>1, <2>2 DEF Loose
  <2>8. /\ \A r \in RowId : Attached(x.copy[r], r)
        /\ \A r \in RowId : country[r] # None => country'[r] # None
        /\ x.seen \subseteq {r \in RowId : country'[r] # None}
        /\ \A i \in TaskId : Loose(task[i].pc, i) \subseteq trees'
        /\ published' \subseteq published /\ Clone(t) \notin published'
    BY <1>1, <2>2, <2>3, RunnableTask
  <2> QED
    BY <1>1, <2>2, <2>4, <2>5, <2>6, <2>7, <2>8, BaseFromTask
<1>3. CASE task[t].row \notin rows
  <2>1. TaskEnds(t, "failed") /\ trees' = trees
    BY <1>3 DEF StoreCountry
  <2> QED
    BY <1>1, <2>1, BaseTaskFails DEF rowVars, treeVars
<1> QED
  BY <1>2, <1>3

LEMMA BaseFinishValidation ==
    ASSUME BaseInv, NEW t \in TaskId, NEW verdict \in {"Valid", "Error"},
           FinishValidation(t, verdict), UNCHANGED setting
    PROVE  BaseInv'
<1> DEFINE r == task[t].row
           columns == [task[t].copy[r] EXCEPT !.status = verdict]
           x == [NoTask EXCEPT !.kind = task[t].kind, !.pc = "done", !.row = task[t].row]
<1>1. /\ Runnable(t) /\ task[t].pc = "verdict" /\ task[t].kind = "validate" /\ r \in RowId
      /\ country[r] # None
      /\ UNCHANGED <<session, country, trees, published, revoked, request>>
      /\ upload \in [RowId -> Columns] /\ \A s \in RowId : Attached(upload[s], s)
      /\ Clone(t) \notin published
  BY RunnableTask, KindOf, NotPublished DEF FinishValidation, BaseInv,
     TypesInv, TypeOK, FilesInv, UploadAttached, treeVars, Checking
<1>2. CASE Fetchable(columns)
  <2>1. /\ rows' = rows \cup {r} /\ upload' = [upload EXCEPT ![r] = columns]
        /\ task' = [task EXCEPT ![t] = x]
    BY <1>2 DEF FinishValidation, SaveRow, TaskEnds
  <2>2. /\ columns \in Columns /\ columns.revised \in trees \cup {None}
        /\ Attached(columns, r)
    <3>1. /\ task[t].copy[r] \in Columns /\ Attached(task[t].copy[r], r)
      BY <1>1, RunnableTask
    <3>2. columns \in Columns /\ columns.revised = task[t].copy[r].revised
      BY <3>1 DEF Columns, UploadStatus
    <3> QED
      BY <1>2, <3>1, <3>2 DEF Fetchable, Attached
  <2> HIDE DEF columns
  <2>3. /\ x \in TaskState /\ Loose(x.pc, t) = {} /\ Continues(t, x)
        /\ x.seen = {} /\ \A s \in RowId : Attached(x.copy[s], s)
    BY <1>1, EndedTypes
  <2> HIDE DEF x, r
  <2>4. TypeOK'
    <3>1. /\ upload' \in [RowId -> Columns]
          /\ \A s \in RowId : upload'[s].revised \in trees' \cup {None}
      BY <1>1, <2>1, <2>2 DEF BaseInv, TypesInv, TypeOK
    <3> QED
      BY <1>1, <2>1, <3>1 DEF BaseInv, TypesInv, TypeOK
  <2>5. /\ \A s \in RowId : Attached(upload'[s], s)
        /\ \A s \in RowId \ rows' : upload'[s] = Blank
    BY <1>1, <2>1, <2>2 DEF BaseInv, TypesInv, TypeOK
  <2>6. /\ \A s \in RowId : country[s] # None => country'[s] # None
        /\ x.seen \subseteq {s \in RowId : country'[s] # None}
        /\ \A i \in TaskId : Loose(task[i].pc, i) \subseteq trees'
        /\ published' \subseteq published /\ Clone(t) \notin published'
    BY <1>1, <2>3 DEF BaseInv, FilesInv
  <2> QED
    BY <1>1, <2>1, <2>3, <2>4, <2>5, <2>6, BaseFromTask
<1>3. CASE ~ Fetchable(columns)
  <2>1. TaskEnds(t, "failed") /\ UNCHANGED <<rowVars, treeVars>>
    BY <1>1, <1>3 DEF FinishValidation, rowVars, treeVars
  <2> QED
    BY <1>1, <2>1, BaseTaskFails
<1> QED
  BY <1>2, <1>3

-----------------------------------------------------------------------------
(* Types and hidden revisions                                              *)

LEMMA BaseStep ==
    ASSUME BaseInv, Next
    PROVE  BaseInv'
<1>1. UNCHANGED setting
  BY DEF Next
<1>2. ASSUME NEW q \in Request, Send(q) PROVE BaseInv'
  BY <1>1, <1>2, BaseSends, BaseSendToReview DEF Send
<1>3. ASSUME NEW q \in Request, RequestStep(q) PROVE BaseInv'
  BY <1>1, <1>3, BaseRequestOnly, BaseQueuePreprocess, BaseStartValidation,
     BaseSaveValidateTask, BaseClearUpload, BaseStopPreprocessing, BaseDeleteUploads
     DEF RequestStep
<1>4. ASSUME NEW t \in TaskId, TaskStep(t) PROVE BaseInv'
  BY <1>1, <1>4, BaseStartPreprocessing, BaseRemoveUploads, BaseTaskOnly,
     BaseMatchCountry, BaseSaveLevelNames, BaseMarkProcessing, BaseClone,
     BaseAttaches, BaseDetach, BaseDropRevision, BaseStoreCountry,
     BaseFinishValidation
     DEF TaskStep
<1> QED
  BY <1>2, <1>3, <1>4 DEF Next

LEMMA BaseInit == Init => BaseInv
<1> SUFFICES ASSUME Init PROVE BaseInv
  OBVIOUS
<1>1. /\ setting \in Setting /\ rows = {} /\ upload = NoCopies /\ trees = {} /\ published = {}
      /\ country = [r \in RowId |-> None] /\ revoked = {}
      /\ task = [t \in TaskId |-> NoTask] /\ request = [q \in Request |-> Unsent]
      /\ session \in [status : SessionStatus, ready : BOOLEAN, task : TaskId \cup {None}]
  BY DEF Init, SessionStatus
<1>2. TypeOK
  BY <1>1, BlankTypes DEF TypeOK
<1>3. /\ \A t \in TaskId : task[t] = NoTask
      /\ NoTask.kind = "none" /\ NoTask.pc = "none" /\ NoTask.seen = {} /\ NoTask.copy = NoCopies
  BY <1>1 DEF NoTask
<1>4. /\ \A q \in Request : request[q] = Unsent
      /\ Unsent.pc = "unsent"
  BY <1>1 DEF Unsent
<1>5. TypesInv
  BY <1>1, <1>2, <1>3, <1>4, BlankTypes DEF TypesInv, TaskSound, RequestSound
<1>6. FilesInv
  BY <1>1, <1>3, <1>4, BlankTypes, NothingAttached
     DEF FilesInv, UploadAttached, RequestAttached, TaskAttached, Loose
<1> QED
  BY <1>5, <1>6 DEF BaseInv

\* Whatever is sent, stopped, deleted or late, every variable keeps its type,
\* and a revision that an upload or a copy of one refers to was made by a
\* validation of that upload, which is done with it.
THEOREM BaseInvariant == Spec => []BaseInv
<1>1. Init => BaseInv
  BY BaseInit
<1>2. BaseInv /\ [Next]_<<vars, setting, met>> => BaseInv'
  <2>1. CASE Next
    BY <2>1, BaseStep
  <2>2. CASE UNCHANGED <<vars, setting, met>>
    BY <2>2 DEF vars, rowVars, treeVars, BaseInv, TypesInv, TypeOK, FilesInv,
       TaskSound, RequestSound, TaskAttached, RequestAttached, UploadAttached,
       Attached
  <2> QED
    BY <2>1, <2>2
<1> QED
  BY <1>1, <1>2, PTL DEF Spec

\* Every variable keeps its type, and the revision of an upload is in the
\* database: no save of a stale copy brings back a reference to one that was
\* deleted.
THEOREM TypeCorrect == Spec => []TypeOK
<1>1. BaseInv => TypeOK
  BY DEF BaseInv, TypesInv
<1> QED
  BY <1>1, BaseInvariant, PTL

\* The clone of a country, which is saved published first, is never referred
\* to by an upload before that is corrected.
THEOREM ClonesHidden == Spec => []HiddenBeforeReview
<1>1. BaseInv => HiddenBeforeReview
  <2> SUFFICES ASSUME BaseInv, NEW v \in published
               PROVE  /\ \E t \in TaskId : v = Clone(t) /\ task[t].pc = "correct"
                      /\ \A r \in RowId : upload[r].revised # v
    BY DEF HiddenBeforeReview
  <2>1. v \in Revision
    BY DEF BaseInv, TypesInv, TypeOK
  <2>2. /\ v # None /\ Maker(v) \in TaskId /\ v = Clone(Maker(v))
        /\ task[Maker(v)].pc = "correct"
    BY <2>1, Revisions DEF BaseInv, FilesInv
  <2>3. ASSUME NEW r \in RowId, upload[r].revised = v PROVE FALSE
    BY <2>2, <2>3 DEF BaseInv, FilesInv, UploadAttached, Attached, After,
       Refiling, Settled, Checking
  <2> QED
    BY <2>2, <2>3
<1> QED
  BY <1>1, BaseInvariant, PTL

-----------------------------------------------------------------------------
(* One request after the other                                             *)

\* Nothing unlucky is met when t takes a step.
Timely(t) ==
    t \notin revoked /\ (setting.level0 /\ task[t].kind = "validate" => ~ IdUnsaved(t))

LEMMA RunnableLive ==
    ASSUME NEW t \in TaskId, Timely(t), Runnable(t)
    PROVE  Live(t, task[t].kind)
  BY DEF Timely, Runnable, Live

\* There is preprocessing or validation, not both, and preprocessing has no
\* results around.
LEMMA KindsApart ==
    ASSUME BaseInv, TurnsInv
    PROVE  /\ \A t \in TaskId : Validating(t) =>
                /\ session.ready /\ session.status \notin ReadOnly
                /\ task[t].row \in rows /\ task[t].row \in RowId
                /\ upload[task[t].row].status \in {"Started", "Processing"}
           /\ \A t \in TaskId : Preprocessing(t) =>
                /\ ~ session.ready /\ session.status \notin ReadOnly
                /\ \A i \in TaskId : ~ Validating(i)
                /\ \A r \in RowId : upload[r].status = "" /\ upload[r].revised = None
<1>1. ASSUME NEW t \in TaskId, Validating(t)
      PROVE  /\ session.ready /\ session.status \notin ReadOnly
             /\ task[t].row \in rows /\ task[t].row \in RowId
             /\ upload[task[t].row].status \in {"Started", "Processing"}
  <2>1. /\ task[t].row \in rows /\ task[t].row \in RowId
        /\ upload[task[t].row].status \in {"Started", "Processing"}
    BY <1>1 DEF TurnsInv, TasksInv, ValidationSound, BaseInv, TypesInv, TypeOK
  <2> QED
    BY <1>1, <2>1 DEF TurnsInv, UploadsInv, UploadSound, Idle
<1>2. ASSUME NEW t \in TaskId, Preprocessing(t)
      PROVE  /\ ~ session.ready /\ session.status \notin ReadOnly
             /\ \A i \in TaskId : ~ Validating(i)
             /\ \A r \in RowId : upload[r].status = "" /\ upload[r].revised = None
  <2>1. ~ session.ready /\ session.status \notin ReadOnly
    BY <1>2 DEF TurnsInv, TasksInv, PreprocessingSound, UploadsInv, Idle
  <2> QED
    BY <1>1, <2>1 DEF TurnsInv, UploadsInv, UploadSound
<1> QED
  BY <1>1, <1>2

\* A preprocessing goes on.
LEMMA TurnsPreprocessing ==
    ASSUME BaseInv, TurnsInv, NEW t \in TaskId, Preprocessing(t), UNCHANGED setting,
           \A i \in TaskId \ {t} : task'[i] = task[i],
           task'[t].kind = "preprocess",
           UNCHANGED <<revoked, request>>, trees' \subseteq trees,
           session'.task = session.task, session'.status \notin ReadOnly,
           \A r \in RowId : upload'[r].status = "" /\ upload'[r].revised = None,
           \A r, s \in rows' : country'[r] = country'[s] => r = s,
           task'[t].pc \notin Ended =>
             /\ ~ session'.ready
             /\ task'[t].pc \in {"queued", "delete", "mark"} => task'[t].seen = {}
             /\ \A r \in task'[t].seen : /\ r \in rows' /\ task'[t].copy[r].status = ""
                                         /\ task'[t].copy[r].revised = None
    PROVE  TurnsInv'
<1>1. \A i \in TaskId : ~ Validating(i) /\ ~ Validating(i)'
  BY KindsApart DEF Validating, Live
<1>2. \A i \in TaskId : Preprocessing(i)' => i = t /\ task'[t].pc \notin Ended
  BY DEF TurnsInv, TasksInv, Preprocessing, Live
<1>3. TasksInv'
  <2>1. PreprocessingSound(t)' \/ ~ Preprocessing(t)'
    BY <1>2 DEF TurnsInv, TasksInv, PreprocessingSound, Saving
  <2>2. \A i \in TaskId :
          Live(i, "validate")' /\ task'[i].pc \in Checking /\ ~ setting'.level0 =>
            task'[i].copy[task'[i].row].revised = Clone(i)
    <3>1. \A i \in TaskId : Live(i, "validate")' => i # t /\ Live(i, "validate")
      BY DEF Live
    <3> QED
      BY <3>1 DEF TurnsInv, TasksInv
  <2> QED
    BY <1>1, <1>2, <2>1, <2>2 DEF TasksInv
<1>4. \A q \in Request : request[q].pc \in {"unsent", "done", "savePreprocess", "stop"}
  <2> TAKE q \in Request
  <2>1. request[q].pc \in RequestPC
    BY DEF BaseInv, TypesInv, RequestState
  <2>2. TurnSound(q) /\ ~ session.ready /\ ~ Idle
    BY KindsApart DEF TurnsInv, RequestsInv, Idle
  <2> QED
    BY <2>1, <2>2 DEF TurnSound, SelectedSound, ClearSound, ResetSound, RequestPC
<1>5. RequestsInv'
  <2>1. \A q \in Request : TurnSound(q)'
    BY <1>1, <1>2, <1>4 DEF TurnsInv, RequestsInv, TurnSound
  <2> QED
    BY <2>1 DEF TurnsInv, RequestsInv, Waiting
<1>6. UploadsInv'
  BY DEF UploadsInv, UploadSound
<1> QED
  BY <1>3, <1>5, <1>6 DEF TurnsInv

LEMMA TurnsPreprocessSteps ==
    ASSUME BaseInv, TurnsInv, NEW t \in TaskId, Timely(t), UNCHANGED setting,
           \/ StartPreprocessing(t) \/ RemoveUploads(t) \/ MarkPreProcessing(t)
           \/ \E c \in Country : MatchFails(t, c) \/ \E r \in RowId : MatchCountry(t, c, r)
           \/ PreprocessingBreaks(t) \/ SaveLevelNames(t) \/ FinishPreprocessing(t)
    PROVE  TurnsInv'
<1>1. /\ Runnable(t) /\ task[t].kind = "preprocess"
      /\ task \in [TaskId -> TaskState] /\ task[t] \in TaskState
  <2>1. Runnable(t)
    BY DEF StartPreprocessing, RemoveUploads, MarkPreProcessing, MatchFails,
       MatchCountry, PreprocessingBreaks, SaveLevelNames, FinishPreprocessing
  <2>2. \/ task[t].kind = "preprocess"
        \/ task[t].pc \in {"delete", "match", "names", "finish"}
    BY DEF StartPreprocessing, RemoveUploads, MarkPreProcessing, MatchFails,
       MatchCountry, PreprocessingBreaks, SaveLevelNames, FinishPreprocessing
  <2> QED
    BY <2>1, <2>2, KindOf DEF BaseInv, TypesInv
<1>2. Preprocessing(t)
  BY <1>1, RunnableLive DEF Preprocessing
<1>3. PreprocessingSound(t)
  BY <1>2 DEF TurnsInv, TasksInv
<1>4. /\ session \in [status : SessionStatus, ready : BOOLEAN, task : TaskId \cup {None}]
      /\ ~ session.ready /\ session.status \notin ReadOnly
      /\ \A r \in RowId : upload[r].status = "" /\ upload[r].revised = None
      /\ \A r, s \in rows : country[r] = country[s] => r = s
  BY <1>2, KindsApart DEF TurnsInv, UploadsInv, BaseInv, TypesInv, TypeOK
<1>5. CASE StartPreprocessing(t)
  <2>1. /\ upload' = Unrevised({upload[r].revised : r \in rows} \ {None})
        /\ trees' \subseteq trees
        /\ task' = [task EXCEPT ![t].pc = "delete"]
        /\ UNCHANGED <<session, rows, country, revoked, request>>
    BY <1>5 DEF StartPreprocessing, DeleteTrees, TaskGoesTo
  <2>2. \A r \in RowId : upload'[r].status = "" /\ upload'[r].revised = None
    BY <1>4, <2>1, UnrevisedKept DEF Unrevised
  <2>3. /\ task'[t].kind = "preprocess" /\ task'[t].seen = {}
        /\ \A i \in TaskId \ {t} : task'[i] = task[i]
    BY <1>1, <1>3, <1>5, <2>1 DEF StartPreprocessing, PreprocessingSound, TaskState
  <2> QED
    BY <1>2, <1>4, <2>1, <2>2, <2>3, TurnsPreprocessing
<1>6. CASE RemoveUploads(t)
  <2>1. /\ rows' = {} /\ upload' = NoCopies
        /\ task' = [task EXCEPT ![t].pc = "mark"]
        /\ UNCHANGED <<session, country, trees, revoked, request>>
    BY <1>6 DEF RemoveUploads, TaskGoesTo, treeVars
  <2>2. /\ task'[t].kind = "preprocess" /\ task'[t].seen = {}
        /\ \A i \in TaskId \ {t} : task'[i] = task[i]
    BY <1>1, <1>3, <1>6, <2>1 DEF RemoveUploads, PreprocessingSound, TaskState
  <2> QED
    BY <1>2, <1>4, <2>1, <2>2, BlankTypes, TurnsPreprocessing
<1>7. CASE MarkPreProcessing(t)
  <2>1. /\ session' = [session EXCEPT !.status = "PreProcessing", !.ready = FALSE]
        /\ task' = [task EXCEPT ![t].pc = "match", ![t].todo = setting.files]
        /\ UNCHANGED <<rows, upload, country, trees, revoked, request>>
    BY <1>7 DEF MarkPreProcessing, rowVars, treeVars
  <2>2. /\ task'[t].kind = "preprocess" /\ task'[t].seen = {}
        /\ \A i \in TaskId \ {t} : task'[i] = task[i]
    BY <1>1, <1>3, <1>7, <2>1, ZenonT(40) DEF MarkPreProcessing, PreprocessingSound, TaskState
  <2>3. /\ ~ session'.ready /\ session'.status \notin ReadOnly
        /\ session'.task = session.task
    BY <1>4, <2>1 DEF ReadOnly
  <2> QED
    BY <1>2, <1>4, <2>1, <2>2, <2>3, TurnsPreprocessing
<1>8. ASSUME NEW c \in Country, NEW r \in RowId, MatchCountry(t, c, r) PROVE TurnsInv'
  <2> DEFINE copy == [task[t].copy EXCEPT ![r] = upload[r]]
             x == [task[t] EXCEPT !.todo = @ \ {c}, !.seen = @ \cup {r}, !.copy = copy,
                     !.pc = IF task[t].todo = {c} /\ ~ setting.unreadable
                            THEN "names" ELSE "match"]
  <2>1. /\ rows' = rows \cup {r} /\ country' = [country EXCEPT ![r] = c]
        /\ task' = [task EXCEPT ![t] = x]
        /\ UNCHANGED <<session, upload, trees, revoked, request>>
        /\ RowsOf(c) = {r} \/ (RowsOf(c) = {} /\ FreshRow(r))
    BY <1>8 DEF MatchCountry, treeVars
  <2>2. /\ x.kind = "preprocess" /\ x.pc \in {"names", "match"}
        /\ x.seen = task[t].seen \cup {r} /\ x.copy = copy
    BY <1>1 DEF TaskState
  <2> HIDE DEF x
  <2>3. /\ task'[t] = x /\ \A i \in TaskId \ {t} : task'[i] = task[i]
    BY <1>1, <2>1
  <2>4. \A a, b \in rows' : country'[a] = country'[b] => a = b
    <3>1. /\ country \in [RowId -> Country \cup {None}] /\ rows \subseteq RowId
      BY DEF BaseInv, TypesInv, TypeOK
    <3>2. \A a \in rows : country[a] = c => a = r
      BY <2>1 DEF RowsOf
    <3> QED
      BY <1>4, <2>1, <3>1, <3>2, ZenonT(40)
  <2>5. \A a \in x.seen : /\ a \in rows' /\ x.copy[a].status = "" /\ x.copy[a].revised = None
    <3>1. task[t].copy \in [RowId -> Columns] /\ task[t].seen \subseteq RowId
      BY <1>1 DEF TaskState
    <3>2. \A a \in task[t].seen : a \in rows /\ task[t].copy[a].status = ""
                                 /\ task[t].copy[a].revised = None
      BY <1>3 DEF PreprocessingSound
    <3>3. \A a \in RowId : copy[a] = IF a = r THEN upload[r] ELSE task[t].copy[a]
      BY <3>1
    <3> HIDE DEF copy
    <3> QED
      BY <1>4, <2>1, <2>2, <3>1, <3>2, <3>3
  <2> HIDE DEF copy
  <2>6. /\ task'[t].kind = "preprocess"
        /\ task'[t].pc \notin {"queued", "delete", "mark"}
        /\ \A a \in task'[t].seen : /\ a \in rows' /\ task'[t].copy[a].status = ""
                                    /\ task'[t].copy[a].revised = None
    BY <2>2, <2>3, <2>5
  <2>7. /\ UNCHANGED <<revoked, request>> /\ trees' \subseteq trees
        /\ UNCHANGED <<session, upload>>
    BY <2>1
  <2> QED
    BY <1>2, <1>4, <2>3, <2>4, <2>6, <2>7, TurnsPreprocessing
<1>9. CASE SaveLevelNames(t)
  <2>1. /\ UNCHANGED <<session, country, trees, revoked, request>>
        /\ \/ /\ rows' = rows \cup task[t].seen
              /\ upload' = [r \in RowId |-> IF r \in task[t].seen THEN task[t].copy[r]
                                            ELSE upload[r]]
              /\ task' = [task EXCEPT ![t].pc = "finish", ![t].seen = {}, ![t].copy = NoCopies]
           \/ TaskEnds(t, "failed") /\ UNCHANGED <<rows, upload>>
    BY <1>9 DEF SaveLevelNames, treeVars
  <2>2. /\ task'[t].kind = "preprocess" /\ task'[t].seen = {}
        /\ \A i \in TaskId \ {t} : task'[i] = task[i]
    <3>1. CASE TaskEnds(t, "failed")
      BY <1>1, <3>1 DEF TaskEnds, NoTask, TaskState
    <3>2. CASE task' = [task EXCEPT ![t].pc = "finish", ![t].seen = {}, ![t].copy = NoCopies]
      BY <1>1, <3>2 DEF TaskState
    <3> QED
      BY <2>1, <3>1, <3>2
  <2>3. /\ rows' = rows
        /\ \A r \in RowId : upload'[r].status = "" /\ upload'[r].revised = None
    <3>1. \A r \in task[t].seen : r \in rows /\ task[t].copy[r].status = ""
                                 /\ task[t].copy[r].revised = None
      BY <1>3 DEF PreprocessingSound
    <3>2. CASE UNCHANGED <<rows, upload>>
      BY <1>4, <3>2
    <3>3. CASE /\ rows' = rows \cup task[t].seen
               /\ upload' = [r \in RowId |-> IF r \in task[t].seen THEN task[t].copy[r]
                                             ELSE upload[r]]
      BY <1>4, <3>1, <3>3
    <3> QED
      BY <2>1, <3>2, <3>3
  <2> QED
    BY <1>2, <1>4, <2>1, <2>2, <2>3, TurnsPreprocessing
<1>10. CASE \/ FinishPreprocessing(t) \/ PreprocessingBreaks(t)
            \/ \E c \in Country : MatchFails(t, c)
  <2>1. /\ \E pc \in {"done", "failed", "broken"} : TaskEnds(t, pc)
        /\ UNCHANGED <<rows, upload, country, trees, revoked, request>>
        /\ \/ UNCHANGED session
           \/ session' = [session EXCEPT !.status = "Pending", !.ready = TRUE]
    BY <1>10 DEF FinishPreprocessing, PreprocessingBreaks, MatchFails,
       rowVars, treeVars
  <2>2. /\ task'[t].kind = "preprocess" /\ task'[t].pc \in Ended
        /\ \A i \in TaskId \ {t} : task'[i] = task[i]
    BY <1>1, <2>1 DEF TaskEnds, NoTask, TaskState, Ended
  <2>3. session'.status \notin ReadOnly /\ session'.task = session.task
    BY <1>4, <2>1 DEF ReadOnly
  <2> QED
    BY <1>2, <1>4, <2>1, <2>2, <2>3, TurnsPreprocessing
<1> QED
  BY <1>5, <1>6, <1>7, <1>8, <1>9, <1>10

\* A validation goes on, or ends.
LEMMA TurnsValidating ==
    ASSUME BaseInv, TurnsInv, NEW t \in TaskId, Live(t, "validate"), UNCHANGED setting,
           \A i \in TaskId \ {t} : task'[i] = task[i],
           task'[t].kind = "validate", task'[t].row = task[t].row, task'[t].pc # "delete",
           UNCHANGED <<session, rows, country, revoked, request>>,
           ~ setting.level0 => trees \subseteq trees',
           \A i \in TaskId \ {t} : Clone(i) \in trees' => Clone(i) \in trees,
           \A r \in RowId : upload'[r] = upload[r] \/ (r = task[t].row /\ Validating(t)),
           upload'[task[t].row].status \notin {"", "Reviewing"} \/ UNCHANGED upload,
           UploadSound(task[t].row)',
           Validating(t)' => Validating(t) /\ ValidationSound(t)',
           task'[t].pc \in Checking /\ ~ setting.level0 =>
             task'[t].copy[task'[t].row].revised = Clone(t)
    PROVE  TurnsInv'
<1>1. task[t].row \in RowId /\ task[t].pc # "delete"
  BY DEF Live, BaseInv, TypesInv, TaskSound, ValidatePC, Making, Refiling,
     Settled, Checking
<1>2. \A i \in TaskId : /\ Validating(i)' => Validating(i)
                        /\ Preprocessing(i)' => Preprocessing(i) /\ i # t
                        /\ task'[i].row = task[i].row
  BY DEF Validating, Preprocessing, Live
<1>3. TasksInv'
  <2>1. \A i \in TaskId : Validating(i)' => ValidationSound(i)'
    <3> SUFFICES ASSUME NEW i \in TaskId, Validating(i)', i # t PROVE ValidationSound(i)'
      OBVIOUS
    <3>1. Validating(i) /\ ValidationSound(i) /\ task'[i] = task[i]
      BY <1>2 DEF TurnsInv, TasksInv
    <3>2. task[i].row \in RowId /\ upload'[task[i].row] = upload[task[i].row]
      BY <1>1, <3>1, KindsApart DEF TurnsInv, TasksInv
    <3> QED
      BY <3>1, <3>2, ZenonT(40) DEF ValidationSound, Revised, Saving
  <2>2. \A i \in TaskId : Preprocessing(i)' => PreprocessingSound(i)'
    <3> SUFFICES ASSUME NEW i \in TaskId, Preprocessing(i)' PROVE PreprocessingSound(i)'
      OBVIOUS
    <3>1. Preprocessing(i) /\ PreprocessingSound(i) /\ task'[i] = task[i]
      BY <1>2 DEF TurnsInv, TasksInv
    <3> QED
      BY <3>1 DEF PreprocessingSound, Saving
  <2>3. \A i \in TaskId :
          Live(i, "validate")' /\ task'[i].pc \in Checking /\ ~ setting'.level0 =>
            task'[i].copy[task'[i].row].revised = Clone(i)
    BY DEF TurnsInv, TasksInv, Live
  <2> QED
    BY <1>2, <2>1, <2>2, <2>3 DEF TurnsInv, TasksInv
<1>4. RequestsInv'
  <2>1. ASSUME NEW q \in Request PROVE TurnSound(q)'
    <3>1. TurnSound(q) /\ request'[q] = request[q]
      BY DEF TurnsInv, RequestsInv
    <3>2. SelectedSound(request[q]) => SelectedSound(request[q])'
      <4> SUFFICES ASSUME SelectedSound(request[q])
                   PROVE  \A r \in rows \ request[q].kept : upload'[r] = upload[r]
        BY DEF SelectedSound
      <4>1. Validating(t) => task[t].row \in request[q].kept
        BY KindsApart DEF SelectedSound
      <4> QED
        BY <4>1 DEF BaseInv, TypesInv, TypeOK
    <3>3. SavingSound(request[q]) => SavingSound(request[q])'
      BY <1>2 DEF SavingSound
    <3>4. ClearSound(request[q]) => ClearSound(request[q])'
      <4> SUFFICES ASSUME ClearSound(request[q])
                   PROVE  \A r \in request[q].todo : upload'[r] = upload[r]
        BY DEF ClearSound
      <4>1. Validating(t) => task[t].row \notin request[q].todo
        BY KindsApart DEF ClearSound
      <4> QED
        <5>1. \A r \in request[q].todo : r \in RowId
          BY DEF ClearSound, BaseInv, TypesInv, TypeOK
        <5> QED
          BY <4>1, <5>1
    <3>5. ResetSound(request[q]) => ResetSound(request[q])'
      BY <1>2 DEF ResetSound
    <3>6. Idle => Idle'
      BY <1>2 DEF Idle
    <3>7. CASE request[q].pc = "pending"
      <4>1. \A r \in RowId : upload'[r] = upload[r]
        BY <3>1, <3>7 DEF TurnSound, Idle
      <4> QED
        BY <3>1, <3>6, <3>7, <4>1 DEF TurnSound
    <3>8. CASE request[q].pc # "pending"
      BY <1>2, <3>1, <3>2, <3>3, <3>4, <3>5, <3>6, <3>8 DEF TurnSound
    <3> QED
      BY <3>7, <3>8
  <2> QED
    BY <2>1 DEF TurnsInv, RequestsInv, Waiting
<1>5. UploadsInv'
  <2>1. Deleting' <=> Deleting
    BY <1>1 DEF Deleting
  <2>2. ASSUME NEW r \in RowId PROVE UploadSound(r)'
    BY <2>1 DEF TurnsInv, UploadsInv, UploadSound, IsNew
  <2> QED
    BY <1>2, <2>2 DEF TurnsInv, UploadsInv, Waiting, Idle
<1> QED
  BY <1>3, <1>4, <1>5 DEF TurnsInv

\* A validation whose revision was deleted, or that fails, writes nothing.
LEMMA TurnsValidationOver ==
    ASSUME BaseInv, TurnsInv, NEW t \in TaskId, Live(t, "validate"), UNCHANGED setting,
           \E pc \in {"done", "failed"} : TaskEnds(t, pc),
           UNCHANGED <<session, rowVars, treeVars, revoked, request>>
    PROVE  TurnsInv'
<1>1. /\ task'[t].kind = "validate" /\ task'[t].row = task[t].row
      /\ task'[t].pc \in {"done", "failed"}
      /\ \A i \in TaskId \ {t} : task'[i] = task[i]
  BY DEF TaskEnds, NoTask, TaskState, Live, BaseInv, TypesInv
<1>2. UNCHANGED <<rows, upload, country, trees>>
  BY DEF rowVars, treeVars
<1>3. task[t].row \in RowId /\ task[t].pc # "delete"
  BY DEF Live, BaseInv, TypesInv, TaskSound, ValidatePC, Making, Refiling,
     Settled, Checking
<1>4. UploadSound(task[t].row)'
  <2>1. Deleting' <=> Deleting
    BY <1>1, <1>3 DEF Deleting
  <2> QED
    BY <1>1, <1>2, <1>3, <2>1 DEF TurnsInv, UploadsInv, UploadSound, IsNew
<1>5. ~ Validating(t)'
  BY <1>1 DEF Validating, Live, Ended
<1> QED
  BY <1>1, <1>2, <1>4, <1>5, TurnsValidating DEF Checking

LEMMA ValidationSteps ==
    ASSUME BaseInv, NEW t \in TaskId,
           \/ ReadUpload(t) \/ MarkProcessing(t)
           \/ CloneCountry(t) \/ CorrectClone(t) \/ AttachClone(t)
           \/ Detach(t) \/ DropRevision(t) \/ StoreCountry(t) \/ AttachFile(t)
           \/ CheckFeatures(t)
           \/ \E verdict \in {"Valid", "Error"} : FinishValidation(t, verdict)
    PROVE  /\ Runnable(t) /\ task[t].kind = "validate"
           /\ UNCHANGED <<session, country, revoked, request>>
<1>1. Runnable(t) /\ UNCHANGED <<session, country, revoked, request>>
  BY DEF ReadUpload, MarkProcessing, CloneCountry, CorrectClone, AttachClone,
     Attach, Detach, DropRevision, StoreCountry, AttachFile, CheckFeatures,
     FinishValidation, rowVars
<1>2. task[t].kind = "validate" \/ task[t].pc \in Making \cup Refiling \cup Checking
  BY DEF ReadUpload, MarkProcessing, CloneCountry, CorrectClone, AttachClone,
     Detach, DropRevision, StoreCountry, AttachFile, CheckFeatures,
     FinishValidation, Making, Refiling, Checking
<1> QED
  BY <1>1, <1>2, KindOf

\* All that a validation still does after its revision was deleted is to fail.
LEMMA TurnsStopped ==
    ASSUME BaseInv, TurnsInv, NEW t \in TaskId, Timely(t), UNCHANGED setting, ~ Validating(t),
           \/ ReadUpload(t) \/ MarkProcessing(t)
           \/ CloneCountry(t) \/ CorrectClone(t) \/ AttachClone(t)
           \/ Detach(t) \/ DropRevision(t) \/ StoreCountry(t) \/ AttachFile(t)
           \/ CheckFeatures(t)
           \/ \E verdict \in {"Valid", "Error"} : FinishValidation(t, verdict)
    PROVE  TaskEnds(t, "failed") /\ UNCHANGED <<session, rowVars, treeVars, revoked, request>>
<1> DEFINE r == task[t].row
<1>1. Live(t, "validate")
  BY ValidationSteps, RunnableLive
<1>2. /\ task[t].pc \in Checking /\ ~ setting.level0
      /\ task[t].copy[r].revised \notin trees \cup {None}
      /\ task[t].copy[r] \in Columns
  <2>1. task[t].pc \in Checking /\ Clone(t) \notin trees /\ ~ setting.level0
    BY <1>1 DEF Validating
  <2>2. task[t].copy[r].revised = Clone(t) /\ r \in RowId /\ task[t] \in TaskState
    BY <1>1, <2>1 DEF TurnsInv, TasksInv, Live, BaseInv, TypesInv, TaskSound
  <2> QED
    BY <2>1, <2>2, Revisions DEF TaskState
<1>3. CASE CheckFeatures(t)
  BY <1>2, <1>3 DEF CheckFeatures, rowVars, treeVars
<1>4. ASSUME NEW verdict \in {"Valid", "Error"}, FinishValidation(t, verdict)
      PROVE  /\ TaskEnds(t, "failed")
             /\ UNCHANGED <<session, rowVars, treeVars, revoked, request>>
  <2>1. ~ Fetchable([task[t].copy[r] EXCEPT !.status = verdict])
    BY <1>2 DEF Fetchable, Columns
  <2> QED
    BY <1>4, <2>1 DEF FinishValidation, rowVars, treeVars
<1> QED
  BY <1>2, <1>3, <1>4 DEF ReadUpload, MarkProcessing, CloneCountry, CorrectClone,
     AttachClone, Detach, DropRevision, StoreCountry, AttachFile, Checking

LEMMA TurnsValidateSteps ==
    ASSUME BaseInv, TurnsInv, NEW t \in TaskId, Timely(t), UNCHANGED setting,
           \/ ReadUpload(t) \/ MarkProcessing(t)
           \/ CloneCountry(t) \/ CorrectClone(t) \/ AttachClone(t)
           \/ Detach(t) \/ DropRevision(t) \/ StoreCountry(t) \/ AttachFile(t)
           \/ CheckFeatures(t)
           \/ \E verdict \in {"Valid", "Error"} : FinishValidation(t, verdict)
    PROVE  TurnsInv'
<1> DEFINE r == task[t].row
<1>1. /\ Runnable(t) /\ task[t].kind = "validate"
      /\ task \in [TaskId -> TaskState] /\ task[t] \in TaskState
      /\ upload \in [RowId -> Columns]
      /\ r \in RowId /\ task[t].copy \in [RowId -> Columns] /\ task[t].copy[r] \in Columns
      /\ UNCHANGED <<session, country, revoked, request>>
  BY ValidationSteps, RunnableTask DEF BaseInv, TypesInv, TypeOK, TaskState
<1>2. Live(t, "validate")
  BY <1>1, RunnableLive
<1>3. /\ Clone(t) # None /\ Filed(t) # None
      /\ Clone(t) \in Revision /\ Filed(t) \in Revision
      /\ \A i \in TaskId : Clone(i) # Filed(t) /\ (Clone(i) = Clone(t) => i = t)
  BY Revisions
<1>4. CASE ~ Validating(t)
  BY <1>1, <1>2, <1>4, TurnsStopped, TurnsValidationOver
<1>5. CASE Validating(t)
  <2>1. /\ ValidationSound(t) /\ r \in rows /\ session.ready
        /\ UploadSound(r) /\ upload[r].status \in {"Started", "Processing"}
    BY <1>1, <1>5, KindsApart DEF TurnsInv, TasksInv, UploadsInv
  <2>2. ASSUME NEW x \in TaskState, task' = [task EXCEPT ![t] = x],
               x.kind = "validate", x.row = r,
               x.pc \in {"mark", "done"} \cup Making \cup Refiling \cup Checking,
               UNCHANGED rows,
               ~ setting.level0 => trees \subseteq trees',
               \A i \in TaskId \ {t} : Clone(i) \in trees' => Clone(i) \in trees,
               \A s \in RowId \ {r} : upload'[s] = upload[s],
               upload'[r].status \in {"Started", "Processing", "Valid", "Error"},
               \/ upload'[r].status \notin {"Valid", "Error"} \/ upload'[r].revised # None
               \/ upload'[r].status = "Error" /\ country[r] \in setting.degenerate,
               upload'[r].status = "Started" => upload'[r].revised = None,
               x.pc # "done" => ValidationSound(t)',
               x.pc \in Checking /\ ~ setting.level0 => x.copy[r].revised = Clone(t)
        PROVE  TurnsInv'
    <3>1. /\ task'[t] = x /\ \A i \in TaskId \ {t} : task'[i] = task[i]
      BY <1>1, <2>2
    <3>2. Validating(t)' => ValidationSound(t)'
      BY <2>2, <3>1 DEF Validating, Live, Ended
    <3>3. UploadSound(r)'
      BY <1>1, <2>1, <2>2 DEF UploadSound
    <3>4. task'[t].kind = "validate" /\ task'[t].row = task[t].row /\ task'[t].pc # "delete"
      BY <2>2, <3>1 DEF Making, Refiling, Checking
    <3>5. task'[t].pc \in Checking /\ ~ setting.level0 =>
            task'[t].copy[task'[t].row].revised = Clone(t)
      BY <2>2, <3>1
    <3>6. \A s \in RowId : upload'[s] = upload[s] \/ (s = task[t].row /\ Validating(t))
      BY <1>5, <2>2
    <3> QED
      BY <1>1, <1>2, <1>5, <2>2, <3>1, <3>2, <3>3, <3>4, <3>5, <3>6, TurnsValidating
  <2>3. \A q \in Request : Saving(q, "saveValidate", t)' <=> Saving(q, "saveValidate", t)
    BY <1>1 DEF Saving
  <2>4. CASE ReadUpload(t)
    <3> DEFINE copy == [task[t].copy EXCEPT ![r] = upload[r]]
               x == [task[t] EXCEPT !.pc = "mark", !.copy = copy]
    <3>1. /\ task[t].pc = "queued" /\ upload[r].status = "Started" /\ upload[r].revised = None
          /\ upload[r].task = t \/ \E q \in Request : Saving(q, "saveValidate", t)
      BY <2>1, <2>4 DEF ReadUpload, ValidationSound, Revised, Checking
    <3>2. task' = [task EXCEPT ![t] = x] /\ UNCHANGED <<rows, upload, trees>>
      BY <2>1, <2>4, <3>1 DEF ReadUpload, rowVars, treeVars
    <3>3. copy \in [RowId -> Columns] /\ copy[r] = upload[r]
      BY <1>1
    <3> HIDE DEF copy
    <3>4. /\ x \in TaskState /\ x.pc = "mark" /\ x.kind = "validate" /\ x.row = r
          /\ x.copy = copy
      BY <1>1, <3>3 DEF TaskState, ValidatePC
    <3> HIDE DEF x
    <3>5. task'[t] = x
      BY <1>1, <3>2
    <3>6. setting.level0 => upload[r].task = t
      BY <1>1, <3>1 DEF Timely, IdUnsaved, Saving
    <3>7. ValidationSound(t)'
      BY <2>1, <2>3, <3>1, <3>2, <3>3, <3>4, <3>5, <3>6 DEF ValidationSound,
         Revised, Refiling, Checking
    <3> QED
      BY <1>1, <2>2, <3>1, <3>2, <3>4, <3>7 DEF Checking
  <2>5. CASE MarkProcessing(t)
    <3> DEFINE pc == IF IsNew(r) THEN "store" ELSE "clone"
               x == [task[t] EXCEPT !.pc = pc]
    <3>1. /\ task[t].pc = "mark" /\ upload[r].revised = None
          /\ task[t].copy[r].revised = None
          /\ upload[r].task = t \/ \E q \in Request : Saving(q, "saveValidate", t)
          /\ setting.level0 => upload[r].task = t /\ task[t].copy[r].task = t
      BY <2>1, <2>5 DEF MarkProcessing, ValidationSound, Revised, Checking
    <3>2. /\ task' = [task EXCEPT ![t] = x] /\ UNCHANGED <<rows, trees>>
          /\ upload' = [upload EXCEPT ![r].status = "Processing"]
      BY <2>1, <2>5, <3>1 DEF MarkProcessing, TaskGoesTo, treeVars
    <3>3. /\ \A s \in RowId \ {r} : upload'[s] = upload[s]
          /\ upload'[r].status = "Processing" /\ upload'[r].revised = None
          /\ upload'[r].task = upload[r].task
      <4> HIDE DEF r
      <4> QED
        BY <1>1, <3>1, <3>2 DEF Columns
    <3>4. pc \in {"store", "clone"} /\ (pc = "store" => setting.level0)
      <4>1. setting \in Setting
        BY DEF BaseInv, TypesInv, TypeOK
      <4> QED
        BY <4>1, SessionAssumption DEF IsNew
    <3> HIDE DEF pc
    <3>5. /\ x \in TaskState /\ x.pc = pc /\ x.kind = "validate" /\ x.row = r
          /\ x.copy = task[t].copy
      BY <1>1, <3>4 DEF TaskState, ValidatePC, Making, Refiling
    <3> HIDE DEF x
    <3>6. task'[t] = x
      BY <1>1, <3>2
    <3>7. ValidationSound(t)'
      BY <2>1, <2>3, <3>1, <3>2, <3>3, <3>4, <3>5, <3>6 DEF ValidationSound,
         Revised, Refiling, Checking
    <3> QED
      BY <1>1, <2>2, <3>1, <3>2, <3>3, <3>4, <3>5, <3>7 DEF Checking, Making,
         Refiling
  <2>6. CASE CloneCountry(t) \/ CorrectClone(t)
    <3> DEFINE pc == IF task[t].pc = "clone" THEN "correct" ELSE "attach"
               x == [task[t] EXCEPT !.pc = pc]
    <3>1. /\ task[t].pc \in {"clone", "correct"}
          /\ task' = [task EXCEPT ![t] = x]
          /\ trees' = trees \cup {Clone(t)} /\ UNCHANGED <<rows, upload>>
      BY <2>6 DEF CloneCountry, CorrectClone, TaskGoesTo, rowVars
    <3>2. pc \in {"correct", "attach"}
      OBVIOUS
    <3> HIDE DEF pc
    <3>3. /\ x \in TaskState /\ x.pc = pc /\ x.kind = "validate" /\ x.row = r
          /\ x.copy = task[t].copy
      BY <1>1, <3>2 DEF TaskState, ValidatePC, Making
    <3> HIDE DEF x
    <3>4. task'[t] = x
      BY <1>1, <3>1
    <3>5. ValidationSound(t)'
      BY <2>1, <2>3, <3>1, <3>2, <3>3, <3>4 DEF ValidationSound, Revised,
         Refiling, Checking
    <3>6. upload[r].status = "Processing"
      BY <2>1, <3>1 DEF ValidationSound
    <3> QED
      BY <1>1, <1>3, <2>2, <3>1, <3>2, <3>3, <3>5, <3>6 DEF Checking, Making
  <2>7. ASSUME NEW v \in {Clone(t), Filed(t)},
               NEW next \in {"detach", "check"}, Attach(t, v, next),
               task[t].pc \notin {"queued", "mark", "drop"} \cup Checking,
               next = "detach" => v = Clone(t) /\ setting.level0,
               next = "check" => v = IF setting.level0 THEN Filed(t) ELSE Clone(t)
        PROVE  TurnsInv'
    <3> DEFINE columns == [task[t].copy[r] EXCEPT !.status = "Processing", !.revised = v]
               copy == [task[t].copy EXCEPT ![r] = columns]
               x == [task[t] EXCEPT !.pc = next, !.copy = copy]
    <3>1. /\ rows' = rows /\ upload' = [upload EXCEPT ![r] = columns]
          /\ task' = [task EXCEPT ![t] = x] /\ trees' = trees
      BY <2>1, <2>7 DEF Attach, SaveRow, treeVars
    <3>2. /\ columns \in Columns /\ columns.revised = v /\ columns.status = "Processing"
          /\ columns.task = task[t].copy[r].task
      BY <1>1, <1>3 DEF Columns, UploadStatus
    <3> HIDE DEF columns
    <3>3. copy \in [RowId -> Columns] /\ copy[r] = columns
      BY <1>1, <3>2
    <3> HIDE DEF copy
    <3>4. /\ x \in TaskState /\ x.pc = next /\ x.kind = "validate" /\ x.row = r
          /\ x.copy = copy
      BY <1>1, <3>3 DEF TaskState, ValidatePC, Settled, Refiling, Checking
    <3> HIDE DEF x
    <3>5. task'[t] = x
      BY <1>1, <3>1
    <3>6. /\ upload'[r] = columns /\ \A s \in RowId \ {r} : upload'[s] = upload[s]
      <4> HIDE DEF r
      <4> QED
        BY <1>1, <3>1
    <3>7. setting.level0 => task[t].copy[r].task = t
      BY <2>1, <2>7 DEF ValidationSound
    <3>8. ValidationSound(t)'
      BY <2>1, <2>7, <3>1, <3>2, <3>3, <3>4, <3>5, <3>6,
         <3>7 DEF ValidationSound, Revised, Refiling, Checking
    <3> QED
      BY <1>1, <1>3, <2>2, <2>7, <3>1, <3>2, <3>3, <3>4, <3>6,
         <3>8 DEF Checking, Refiling
  <2>8. CASE AttachClone(t) \/ AttachFile(t)
    <3>1. CASE AttachClone(t)
      BY <2>7, <3>1 DEF AttachClone, WithRevision, Checking
    <3>2. CASE AttachFile(t)
      <4>1. setting.level0
        BY <2>1, <3>2 DEF AttachFile, ValidationSound, Refiling
      <4> QED
        BY <2>7, <3>2, <4>1 DEF AttachFile, Checking
    <3> QED
      BY <2>8, <3>1, <3>2
  <2>9. CASE Detach(t)
    <3> DEFINE columns == [task[t].copy[r] EXCEPT !.status = "Processing", !.revised = None]
               x == [task[t] EXCEPT !.pc = "drop"]
    <3>1. /\ task[t].pc = "detach" /\ setting.level0 /\ task[t].copy[r].revised = Clone(t)
          /\ task[t].copy[r].task = t
      BY <2>1, <2>9 DEF Detach, ValidationSound, Revised, Refiling, Checking
    <3>2. /\ rows' = rows /\ upload' = [upload EXCEPT ![r] = columns]
          /\ task' = [task EXCEPT ![t] = x] /\ trees' = trees
      BY <2>1, <2>9, <3>1 DEF Detach, SaveRow, TaskGoesTo, treeVars
    <3>3. /\ columns.revised = None /\ columns.status = "Processing" /\ columns.task = t
      BY <1>1, <3>1 DEF Columns
    <3> HIDE DEF columns
    <3>4. /\ x \in TaskState /\ x.pc = "drop" /\ x.kind = "validate" /\ x.row = r
          /\ x.copy = task[t].copy
      BY <1>1 DEF TaskState, ValidatePC, Refiling
    <3> HIDE DEF x
    <3>5. task'[t] = x
      BY <1>1, <3>2
    <3>6. /\ upload'[r] = columns /\ \A s \in RowId \ {r} : upload'[s] = upload[s]
      <4> HIDE DEF r
      <4> QED
        BY <1>1, <3>2
    <3>7. ValidationSound(t)'
      BY <2>1, <3>1, <3>2, <3>3, <3>4, <3>5, <3>6 DEF ValidationSound,
         Revised, Refiling, Checking
    <3> QED
      BY <1>1, <2>2, <3>1, <3>2, <3>3, <3>4, <3>6, <3>7 DEF Checking, Refiling
  <2>10. CASE DropRevision(t)
    <3> DEFINE copy == [task[t].copy EXCEPT ![r].revised = None]
               x == [task[t] EXCEPT !.pc = "store", !.copy = copy]
    <3>1. /\ task[t].pc = "drop" /\ setting.level0 /\ task[t].copy[r].revised = Clone(t)
          /\ task[t].copy[r].task = t /\ upload[r].task = t
          /\ upload[r].revised = None /\ upload[r].status = "Processing"
      BY <2>1, <2>10 DEF DropRevision, ValidationSound, Revised, Refiling, Checking
    <3>2. /\ trees' = trees \ {Clone(t)} /\ upload' = Unrevised({Clone(t)})
          /\ rows' = rows
          /\ task' = [task EXCEPT ![t].pc = "store", ![t].copy[r].revised = None]
      BY <2>10, <3>1 DEF DropRevision, DeleteTrees
    <3>3. \A s \in RowId : upload'[s] = upload[s]
      <4>1. \A s \in RowId : upload[s].revised # Clone(t)
        BY <1>3, <3>1, Revisions DEF BaseInv, FilesInv, UploadAttached, Attached
      <4> QED
        BY <3>2, <4>1 DEF Unrevised
    <3>4. /\ copy \in [RowId -> Columns] /\ copy[r].revised = None
          /\ copy[r].task = t
      <4>1. [task[t].copy[r] EXCEPT !.revised = None] \in Columns
        BY <1>1 DEF Columns
      <4>2. copy[r] = [task[t].copy[r] EXCEPT !.revised = None]
        BY <1>1
      <4>3. copy \in [RowId -> Columns]
        BY <1>1, <4>1
      <4> QED
        BY <1>1, <3>1, <4>2, <4>3 DEF Columns
    <3>5. task' = [task EXCEPT ![t] = x]
      BY <1>1, <3>2 DEF TaskState
    <3> HIDE DEF copy
    <3>6. /\ x \in TaskState /\ x.pc = "store" /\ x.kind = "validate" /\ x.row = r
          /\ x.copy = copy
      BY <1>1, <3>4 DEF TaskState, ValidatePC, Refiling
    <3> HIDE DEF x
    <3>7. task'[t] = x
      BY <1>1, <3>5
    <3>8. UNCHANGED rows /\ trees' = trees \ {Clone(t)}
      BY <3>2
    <3>9. ValidationSound(t)'
      BY <1>1, <2>1, <3>1, <3>3, <3>4, <3>6, <3>7, <3>8 DEF ValidationSound,
         Revised, Refiling, Checking
    <3> QED
      BY <1>1, <1>3, <2>2, <3>1, <3>3, <3>5, <3>6, <3>8, <3>9 DEF Checking, Refiling
  <2>11. CASE StoreCountry(t)
    <3> DEFINE pc == IF country[r] \notin setting.degenerate THEN "attachFile" ELSE "verdict"
               x == [task[t] EXCEPT !.pc = pc]
    <3>1. /\ task[t].pc = "store" /\ setting.level0 /\ task[t].copy[r].revised = None
          /\ task[t].copy[r].task = t /\ upload[r].task = t
          /\ upload[r].revised = None /\ upload[r].status = "Processing"
      BY <2>1, <2>11 DEF StoreCountry, ValidationSound, Revised, Refiling, Checking
    <3>2. /\ UNCHANGED <<rows, upload>> /\ trees' \subseteq trees \cup {Filed(t)}
          /\ task' = [task EXCEPT ![t] = x]
      BY <2>1, <2>11 DEF StoreCountry, TaskGoesTo, rowVars
    <3>3. /\ pc \in {"attachFile", "verdict"}
          /\ pc = "verdict" => country[r] \in setting.degenerate
      OBVIOUS
    <3> HIDE DEF pc
    <3>4. /\ x \in TaskState /\ x.pc = pc /\ x.kind = "validate" /\ x.row = r
          /\ x.copy = task[t].copy
      BY <1>1, <3>3 DEF TaskState, ValidatePC, Settled, Refiling, Checking
    <3> HIDE DEF x
    <3>5. task'[t] = x
      BY <1>1, <3>2
    <3>6. ValidationSound(t)'
      BY <1>1, <2>1, <3>1, <3>2, <3>3, <3>4, <3>5 DEF ValidationSound,
         Revised, Refiling, Checking
    <3> QED
      BY <1>1, <1>3, <2>2, <3>1, <3>2, <3>3, <3>4, <3>6 DEF Checking, Refiling
  <2>12. CASE CheckFeatures(t)
    <3> DEFINE x == [task[t] EXCEPT !.pc = "verdict"]
    <3>1. task[t].pc = "check"
      BY <2>12 DEF CheckFeatures
    <3>2. CASE TaskGoesTo(t, "verdict")
      <4>1. task' = [task EXCEPT ![t] = x] /\ UNCHANGED <<rows, upload, trees>>
        BY <2>12, <3>2 DEF CheckFeatures, TaskGoesTo, rowVars, treeVars
      <4>2. /\ x \in TaskState /\ x.pc = "verdict" /\ x.kind = "validate" /\ x.row = r
            /\ x.copy = task[t].copy
        BY <1>1 DEF TaskState, ValidatePC, Settled, Checking
      <4> HIDE DEF x
      <4>3. task'[t] = x
        BY <1>1, <4>1
      <4>4. ValidationSound(t)'
        BY <1>1, <2>1, <3>1, <4>1, <4>2, <4>3 DEF ValidationSound, Revised,
           Refiling, Checking
      <4>5. upload[r].status = "Processing"
        BY <2>1, <3>1 DEF ValidationSound
      <4>6. ~ setting.level0 => task[t].copy[r].revised = Clone(t)
        BY <1>2, <3>1 DEF TurnsInv, TasksInv, Checking
      <4> QED
        BY <1>1, <2>2, <3>1, <4>1, <4>2, <4>4, <4>5, <4>6 DEF Checking
    <3>3. CASE TaskEnds(t, "failed")
      <4>1. UNCHANGED <<rowVars, treeVars>>
        BY <2>12 DEF CheckFeatures
      <4> QED
        BY <1>1, <1>2, <3>3, <4>1, TurnsValidationOver
    <3> QED
      BY <2>12, <3>2, <3>3 DEF CheckFeatures
  <2>13. ASSUME NEW verdict \in {"Valid", "Error"}, FinishValidation(t, verdict)
         PROVE  TurnsInv'
    <3> DEFINE columns == [task[t].copy[r] EXCEPT !.status = verdict]
               x == [NoTask EXCEPT !.kind = task[t].kind, !.pc = "done", !.row = task[t].row]
    <3>1. /\ task[t].pc = "verdict"
          /\ task[t].copy[r].revised # None \/ country[r] \in setting.degenerate
          /\ columns.revised = None => verdict = "Error"
      BY <1>3, <2>1, <2>13 DEF FinishValidation, ValidationSound, Revised, Checking
    <3>2. CASE Fetchable(columns)
      <4>1. /\ rows' = rows /\ upload' = [upload EXCEPT ![r] = columns]
            /\ task' = [task EXCEPT ![t] = x] /\ trees' = trees
        BY <2>1, <2>13, <3>2 DEF FinishValidation, SaveRow, TaskEnds, treeVars
      <4>2. columns.revised = task[t].copy[r].revised /\ columns.status = verdict
        BY <1>1 DEF Columns
      <4> HIDE DEF columns
      <4>3. x \in TaskState /\ x.pc = "done" /\ x.kind = "validate" /\ x.row = r
        BY <1>1, BlankTypes DEF NoTask, TaskState, PreprocessPC
      <4> HIDE DEF x
      <4>4. /\ upload'[r] = columns /\ \A s \in RowId \ {r} : upload'[s] = upload[s]
        <5> HIDE DEF r
        <5> QED
          BY <1>1, <4>1
      <4> QED
        BY <1>1, <2>2, <3>1, <4>1, <4>2, <4>3, <4>4 DEF Checking
    <3>3. CASE ~ Fetchable(columns)
      <4>1. TaskEnds(t, "failed") /\ UNCHANGED <<rowVars, treeVars>>
        BY <2>13, <3>3 DEF FinishValidation, rowVars, treeVars
      <4> QED
        BY <1>1, <1>2, <4>1, TurnsValidationOver
    <3> QED
      BY <3>2, <3>3
  <2> QED
    BY <2>4, <2>5, <2>6, <2>8, <2>9, <2>10, <2>11, <2>12, <2>13
<1> QED
  BY <1>4, <1>5

\* Who sends a request, or handles one, is the only one to.
LEMMA MyTurn ==
    ASSUME BaseInv, TurnsInv, NEW q \in Request,
           Waiting(q) \/ (MaySend(q) /\ \A p \in Request : ~ Waiting(p))
    PROVE  /\ \A p \in Request \ {q} : ~ Waiting(p)
           /\ MaySend(q) => ~ Waiting(q) /\ request[q].kept = {}
           /\ session.status \notin ReadOnly
           /\ request \in [Request -> RequestState] /\ request[q] \in RequestState
           /\ TurnSound(q)
           /\ request[q].pc # "savePreprocess" =>
                \A t \in TaskId : Preprocessing(t) => session.task = t
           /\ request[q].pc # "saveValidate" =>
                \A t \in TaskId : Validating(t) =>
                  \A p \in Request : ~ Saving(p, "saveValidate", t)
<1>1. /\ \A p \in Request \ {q} : ~ Waiting(p)
      /\ MaySend(q) => ~ Waiting(q) /\ request[q].kept = {}
      /\ session.status \notin ReadOnly
  BY DEF MaySend, Waiting, TurnsInv, RequestsInv, TurnSound, UploadsInv
<1>2. \A p \in Request, pc \in RequestPC \ {"unsent", "done"}, t \in TaskId :
        Saving(p, pc, t) => p = q
  BY <1>1 DEF Saving, Waiting
<1>3. /\ request \in [Request -> RequestState] /\ request[q] \in RequestState
      /\ TurnSound(q)
  BY DEF BaseInv, TypesInv, TurnsInv, RequestsInv
<1>4. request[q].pc # "savePreprocess" =>
        \A t \in TaskId : Preprocessing(t) => session.task = t
  BY <1>2 DEF TurnsInv, TasksInv, PreprocessingSound, Saving, RequestPC
<1>5. request[q].pc # "saveValidate" =>
        \A t \in TaskId : Validating(t) => \A p \in Request : ~ Saving(p, "saveValidate", t)
  BY <1>2 DEF Saving, RequestPC
<1> QED
  BY <1>1, <1>3, <1>4, <1>5

LEMMA TurnTaken ==
    ASSUME BaseInv, TurnsInv, UNCHANGED setting,
           NEW q \in Request, NEW turn \in RequestState,
           \A p \in Request \ {q} : ~ Waiting(p),
           request' = [request EXCEPT ![q] = turn], TurnSound(q)'
    PROVE  /\ RequestsInv'
           /\ request'[q] = turn /\ \A p \in Request \ {q} : request'[p] = request[p]
<1>1. /\ request'[q] = turn /\ \A p \in Request \ {q} : request'[p] = request[p]
  BY DEF BaseInv, TypesInv
<1>2. ASSUME NEW p \in Request PROVE TurnSound(p)'
  <2>1. CASE p # q
    BY <1>1, <2>1 DEF TurnsInv, RequestsInv, TurnSound, Waiting
  <2> QED
    BY <2>1
<1> QED
  BY <1>1, <1>2 DEF RequestsInv, Waiting

\* A request that reads, or saves the session, goes on.
LEMMA TurnsRequestOnly ==
    ASSUME BaseInv, TurnsInv, UNCHANGED setting,
           NEW q \in Request, NEW turn \in RequestState,
           \A p \in Request \ {q} : ~ Waiting(p), session.status \notin ReadOnly,
           request' = [request EXCEPT ![q] = turn], TurnSound(q)',
           request[q].pc \notin {"saveValidate", "delete"},
           UNCHANGED <<rowVars, treeVars, task, revoked>>,
           session'.ready = session.ready,
           session'.status \notin ReadOnly,
           \A t \in TaskId : Preprocessing(t) => session'.task = t
    PROVE  TurnsInv'
<1>1. RequestsInv' /\ \A p \in Request \ {q} : request'[p] = request[p]
  BY TurnTaken
<1>2. UNCHANGED <<rows, upload, country, trees, task, revoked>>
  BY DEF rowVars, treeVars
<1>3. \A t \in TaskId : /\ Validating(t)' <=> Validating(t)
                        /\ Preprocessing(t)' <=> Preprocessing(t)
  BY <1>2 DEF Validating, Preprocessing, Live
<1>4. TasksInv'
  <2>1. ASSUME NEW t \in TaskId, Validating(t)' PROVE ValidationSound(t)'
    <3>1. ValidationSound(t)
      BY <1>3, <2>1 DEF TurnsInv, TasksInv
    <3>2. \A p \in Request : Saving(p, "saveValidate", t) => Saving(p, "saveValidate", t)'
      BY <1>1 DEF Saving
    <3> QED
      BY <1>2, <3>1, <3>2 DEF ValidationSound, Revised
  <2>2. ASSUME NEW t \in TaskId, Preprocessing(t)' PROVE PreprocessingSound(t)'
    BY <1>2, <1>3, <2>2 DEF TurnsInv, TasksInv, PreprocessingSound
  <2> QED
    BY <1>2, <1>3, <2>1, <2>2 DEF TurnsInv, TasksInv, Live
<1>5. UploadsInv'
  <2>1. Deleting => Deleting'
    BY <1>1, <1>2 DEF Deleting
  <2>2. ASSUME NEW r \in RowId PROVE UploadSound(r)'
    BY <1>2, <2>1 DEF TurnsInv, UploadsInv, UploadSound, ReadOnly
  <2> QED
    BY <1>2, <2>2 DEF TurnsInv, UploadsInv
<1> QED
  BY <1>1, <1>4, <1>5 DEF TurnsInv

\* A step after which nobody is at work on the uploads but a request
LEMMA TurnsIdle ==
    ASSUME BaseInv, TurnsInv, UNCHANGED setting,
           NEW q \in Request, NEW turn \in RequestState,
           \A p \in Request \ {q} : ~ Waiting(p),
           request' = [request EXCEPT ![q] = turn], TurnSound(q)',
           UNCHANGED task, revoked \subseteq revoked', Idle',
           session'.status \notin ReadOnly \/ turn.pc = "done",
           \A r \in RowId : UploadSound(r)',
           \A r, s \in rows' : country'[r] = country'[s] => r = s
    PROVE  TurnsInv'
<1>1. /\ RequestsInv' /\ request'[q] = turn
      /\ \A p \in Request \ {q} : request'[p] = request[p]
  BY TurnTaken
<1>2. TasksInv'
  <2>1. \A t \in TaskId : Live(t, "validate")' => Live(t, "validate")
    BY DEF Live
  <2> QED
    BY <2>1 DEF TurnsInv, TasksInv, Idle
<1>3. UploadsInv'
  BY <1>1 DEF UploadsInv, Waiting
<1> QED
  BY <1>1, <1>2, <1>3 DEF TurnsInv

LEMMA TurnsSends ==
    ASSUME BaseInv, TurnsInv, UNCHANGED setting, NEW q \in Request,
           \A p \in Request : ~ Waiting(p), SendPreprocess(q) => ~ PreprocessingAsked,
           \/ SendPreprocess(q)
           \/ \E C \in SUBSET setting.files : SendValidate(q, C)
           \/ \E back, cancel \in BOOLEAN : SendReset(q, back, cancel)
    PROVE  TurnsInv'
<1>1. /\ MaySend(q)
      /\ UNCHANGED <<session, rowVars, treeVars, task, revoked>>
      /\ UNCHANGED <<session, rows, upload, country, trees, task, revoked>>
  BY DEF SendPreprocess, SendValidate, SendReset, rowVars, treeVars
<1>2. /\ request[q].pc = "unsent" /\ request[q].kept = {}
      /\ session.status \notin ReadOnly
      /\ request \in [Request -> RequestState] /\ request[q] \in RequestState
      /\ \A t \in TaskId : Preprocessing(t) => session.task = t
      /\ \A t \in TaskId : Validating(t) =>
           \A p \in Request : ~ Saving(p, "saveValidate", t)
      /\ session.task \in TaskId \cup {None}
      /\ rows \subseteq RowId /\ upload \in [RowId -> Columns]
  BY <1>1, MyTurn DEF MaySend, BaseInv, TypesInv, TypeOK
<1>3. ASSUME NEW turn \in RequestState, request' = [request EXCEPT ![q] = turn], TurnSound(q)'
      PROVE  TurnsInv'
  BY <1>1, <1>2, <1>3, TurnsRequestOnly
<1>4. \A t \in TaskId : /\ Validating(t)' <=> Validating(t)
                        /\ Preprocessing(t)' <=> Preprocessing(t)
  BY <1>1 DEF Validating, Preprocessing, Live
<1>5. CASE SendPreprocess(q)
  <2> DEFINE turn == [request[q] EXCEPT !.pc = "queue", !.task = session.task]
  <2>1. turn \in RequestState /\ turn.pc = "queue"
    BY <1>2 DEF RequestState, RequestPC
  <2>2. request' = [request EXCEPT ![q] = turn] /\ ~ session.ready
    BY <1>5 DEF SendPreprocess
  <2> HIDE DEF turn
  <2>3. request'[q] = turn
    BY <1>2, <2>2
  <2>4. ASSUME NEW t \in TaskId, Preprocessing(t) PROVE FALSE
    <3>1. Runnable(t)
      BY <2>4 DEF Runnable, IdUnsaved, Preprocessing, Live, Waiting
    <3> QED
      BY <1>5, <2>4, <3>1 DEF PreprocessingAsked, Preprocessing, Live
  <2>5. \A t \in TaskId : ~ Validating(t)
    BY <2>2, KindsApart
  <2>6. TurnSound(q)'
    BY <1>1, <1>4, <2>1, <2>2, <2>3, <2>4, <2>5 DEF TurnSound, Idle
  <2> QED
    BY <1>3, <2>1, <2>2, <2>6
<1>6. ASSUME NEW C \in SUBSET setting.files, SendValidate(q, C) PROVE TurnsInv'
  <2> DEFINE turn == [request[q] EXCEPT !.pc = "start", !.todo = C]
  <2>1. turn \in RequestState /\ turn.pc = "start" /\ turn.kept = {}
    <3>1. setting.files \subseteq Country
      BY SessionAssumption DEF BaseInv, TypesInv, TypeOK, Circumstances
    <3> QED
      BY <1>2, <3>1 DEF RequestState, RequestPC
  <2>2. request' = [request EXCEPT ![q] = turn] /\ session.ready /\ ~ HasResult
    BY <1>6 DEF SendValidate
  <2> HIDE DEF turn
  <2>3. request'[q] = turn
    BY <1>2, <2>2
  <2>4. TurnSound(q)'
    BY <1>1, <2>1, <2>2, <2>3 DEF TurnSound, SelectedSound, HasResult
  <2> QED
    BY <1>3, <2>1, <2>2, <2>4
<1>7. ASSUME NEW back \in BOOLEAN, NEW cancel \in BOOLEAN, SendReset(q, back, cancel)
      PROVE  TurnsInv'
  <2> DEFINE goBack == back \/ ~ HasResult
             reset == [Unsent EXCEPT !.pc = "reset", !.todo = rows, !.copy = upload,
                         !.task = session.task, !.back = goBack, !.cancel = cancel]
             stop == [Unsent EXCEPT !.pc = "stop", !.todo = {}, !.copy = NoCopies,
                         !.task = session.task, !.back = goBack, !.cancel = cancel]
  <2>1. goBack \in BOOLEAN
    BY DEF HasResult
  <2>2. /\ HasResult => request' = [request EXCEPT ![q] = reset]
        /\ ~ HasResult => request' = [request EXCEPT ![q] = stop]
    BY <1>7 DEF SendReset
  <2> HIDE DEF goBack
  <2>3. /\ reset \in RequestState /\ reset.pc = "reset"
        /\ reset.todo = rows /\ reset.copy = upload
        /\ stop \in RequestState /\ stop.pc = "stop" /\ stop.task = session.task
    BY <1>2, <2>1, BlankTypes, ZenonT(40) DEF RequestState, RequestPC, Unsent
  <2> HIDE DEF reset, stop
  <2>4. CASE HasResult
    <3>1. request'[q] = reset /\ request' = [request EXCEPT ![q] = reset]
      BY <1>2, <2>2, <2>4
    <3>2. session.ready
      BY <1>2, <2>4 DEF HasResult, TurnsInv, UploadsInv, UploadSound
    <3>3. ASSUME NEW t \in TaskId, Validating(t)
          PROVE  /\ task[t].row \in rows
                 /\ \/ upload[task[t].row].task = t
                    \/ upload[task[t].row].revised = Clone(t) /\ ~ setting.level0
      BY <1>2, <3>3 DEF TurnsInv, TasksInv, ValidationSound, Revised, Checking
    <3>4. TurnSound(q)'
      BY <1>1, <1>4, <2>3, <3>1, <3>2, <3>3 DEF TurnSound, ResetSound
    <3> QED
      BY <1>3, <2>3, <3>1, <3>4
  <2>5. CASE ~ HasResult
    <3>1. request'[q] = stop /\ request' = [request EXCEPT ![q] = stop]
      BY <1>2, <2>2, <2>5
    <3>2. \A t \in TaskId : ~ Validating(t)
      BY <2>5, KindsApart DEF HasResult
    <3>3. TurnSound(q)'
      BY <1>2, <1>4, <2>3, <3>1, <3>2 DEF TurnSound
    <3> QED
      BY <1>3, <2>3, <3>1, <3>3
  <2> QED
    BY <2>4, <2>5
<1> QED
  BY <1>5, <1>6, <1>7

\* What is left of the other uploads has the session's status instead.
LEMMA TurnsSendToReview ==
    ASSUME BaseInv, TurnsInv, UNCHANGED setting, NEW q \in Request, NEW U \in SUBSET RowId,
           \A p \in Request : ~ Waiting(p), SendToReview(q, U)
    PROVE  TurnsInv'
<1> DEFINE gone == {upload[r].revised : r \in rows \ U} \ {None}
<1>1. /\ MaySend(q) /\ U # {} /\ U \subseteq {r \in rows : Importable(r)}
      /\ \A r \in rows : upload[r].status \notin {"Started", "Processing"}
      /\ request' = [request EXCEPT ![q] = Answered]
      /\ session' = [session EXCEPT !.status = "Reviewing"]
      /\ trees' \subseteq trees
      /\ upload' = [r \in RowId |-> IF r \in U THEN [upload[r] EXCEPT !.status = "Reviewing"]
                                    ELSE Unrevised(gone)[r]]
      /\ UNCHANGED <<rows, country, task, revoked>>
  BY DEF SendToReview
<1> HIDE DEF gone
<1>2. /\ session.status \notin ReadOnly
      /\ request \in [Request -> RequestState]
      /\ session \in [status : SessionStatus, ready : BOOLEAN, task : TaskId \cup {None}]
      /\ rows \subseteq RowId /\ upload \in [RowId -> Columns]
      /\ \A r \in RowId : UploadSound(r)
  BY <1>1, MyTurn DEF TurnsInv, UploadsInv, BaseInv, TypesInv, TypeOK
<1>3. session.ready /\ session'.ready /\ session'.status = "Reviewing"
  BY <1>1, <1>2 DEF UploadSound, Importable
<1>4. Idle'
  <2>1. \A t \in TaskId : ~ Preprocessing(t) /\ ~ Validating(t)
    BY <1>1, <1>3, KindsApart
  <2> QED
    BY <1>1, <2>1 DEF Idle, Validating, Preprocessing, Live
<1>5. Deleting => Deleting'
  <2>1. request'[q].pc = "done" /\ \A p \in Request \ {q} : request'[p] = request[p]
    BY <1>1, <1>2, BlankTypes
  <2> QED
    BY <1>1, <1>2, <2>1 DEF Deleting, Waiting
<1>6. ASSUME NEW r \in RowId PROVE UploadSound(r)'
  <2>1. UploadSound(r)
    BY <1>2
  <2>2. CASE r \in U
    <3>1. /\ upload'[r].status = "Reviewing" /\ upload'[r].revised = upload[r].revised
          /\ Importable(r)
      BY <1>1, <1>2, <2>2 DEF Columns
    <3>2. IsNew(r)' <=> IsNew(r)
      BY <1>1 DEF IsNew
    <3> QED
      BY <1>1, <1>2, <1>3, <1>5, <2>1, <3>1, <3>2 DEF UploadSound, Importable,
         ReadOnly
  <2>3. CASE r \notin U
    <3>1. /\ upload'[r].status = upload[r].status
          /\ upload'[r].revised \in {upload[r].revised, None}
      <4>1. upload'[r] = Unrevised(gone)[r]
        BY <1>1, <2>3 DEF Importable
      <4>2. Unrevised(gone)[r].revised \in {upload[r].revised, None}
        <5>1. upload[r] \in Columns
          BY <1>2
        <5> QED
          BY <5>1 DEF Unrevised, Columns
      <4> QED
        BY <4>1, <4>2, UnrevisedKept
    <3> QED
      BY <1>2, <1>3, <1>5, <2>1, <3>1 DEF UploadSound, ReadOnly
  <2> QED
    BY <2>2, <2>3
<1>7. TurnSound(q)'
  BY <1>1, <1>2, BlankTypes DEF TurnSound
<1>8. \A r, s \in rows' : country'[r] = country'[s] => r = s
  BY <1>1 DEF TurnsInv, UploadsInv
<1> QED
  BY <1>1, <1>2, <1>4, <1>6, <1>7, <1>8, BlankTypes, TurnsIdle

LEMMA TurnsRequestOnlySteps ==
    ASSUME BaseInv, TurnsInv, UNCHANGED setting, NEW q \in Request,
           \/ SavePreprocessTask(q) \/ ReadOthers(q)
           \/ \E c \in Country : StartFails(q, c)
           \/ \E r \in RowId : LoopFails(q, r)
    PROVE  TurnsInv'
<1>1. /\ Waiting(q) /\ request[q].pc \in {"savePreprocess", "others", "start", "clear", "reset"}
      /\ UNCHANGED <<rowVars, treeVars, task, revoked>>
      /\ UNCHANGED <<rows, upload, country, trees, task, revoked>>
  BY DEF SavePreprocessTask, ReadOthers, StartFails, LoopFails, Waiting,
     rowVars, treeVars
<1>2. /\ \A p \in Request \ {q} : ~ Waiting(p)
      /\ session.status \notin ReadOnly
      /\ request \in [Request -> RequestState] /\ request[q] \in RequestState
      /\ session \in [status : SessionStatus, ready : BOOLEAN, task : TaskId \cup {None}]
      /\ TurnSound(q)
      /\ request[q].pc # "savePreprocess" =>
           \A t \in TaskId : Preprocessing(t) => session.task = t
      /\ upload \in [RowId -> Columns] /\ rows \subseteq RowId
  BY <1>1, MyTurn DEF BaseInv, TypesInv, TypeOK
<1>3. ASSUME request' = [request EXCEPT ![q] = Answered] PROVE TurnsInv'
  <2>1. TurnSound(q)'
    BY <1>2, <1>3, BlankTypes DEF TurnSound
  <2>2. CASE SavePreprocessTask(q)
    <3>1. /\ session'.ready = session.ready /\ session'.status = session.status
          /\ session'.task = request[q].task
      BY <1>2, <2>2 DEF SavePreprocessTask
    <3>2. \A t \in TaskId : Preprocessing(t) => session'.task = t
      BY <1>2, <2>2, <3>1 DEF SavePreprocessTask, TurnSound
    <3> QED
      BY <1>1, <1>2, <1>3, <2>1, <3>1, <3>2, BlankTypes, TurnsRequestOnly
  <2>3. CASE ~ SavePreprocessTask(q)
    <3>1. session' = session /\ request[q].pc # "savePreprocess"
      BY <2>3 DEF ReadOthers, StartFails, LoopFails
    <3> QED
      BY <1>1, <1>2, <1>3, <2>1, <3>1, BlankTypes, TurnsRequestOnly
  <2> QED
    BY <2>2, <2>3
<1>4. CASE \/ SavePreprocessTask(q)
           \/ \E c \in Country : StartFails(q, c)
           \/ \E r \in RowId : LoopFails(q, r)
  BY <1>3, <1>4 DEF SavePreprocessTask, StartFails, LoopFails
<1>5. CASE ReadOthers(q)
  <2> DEFINE clear == [Unsent EXCEPT !.pc = "clear", !.todo = rows \ request[q].kept,
                                     !.copy = upload]
  <2>1. /\ clear \in RequestState /\ clear.pc = "clear"
        /\ clear.todo = rows \ request[q].kept
    BY <1>2, BlankTypes DEF RequestState, RequestPC, Unsent
  <2>2. \/ request' = [request EXCEPT ![q] = Answered]
        \/ request' = [request EXCEPT ![q] = clear]
    BY <1>5 DEF ReadOthers
  <2> HIDE DEF clear
  <2>3. session' = session /\ request[q].pc = "others"
    BY <1>5 DEF ReadOthers
  <2>4. ASSUME request' = [request EXCEPT ![q] = clear] PROVE TurnsInv'
    <3>1. request'[q] = clear
      BY <1>2, <2>4
    <3>2. session.ready /\ \A r \in clear.todo : r \in rows /\ upload[r].status = ""
      BY <1>2, <2>1, <2>3 DEF TurnSound, SelectedSound
    <3>3. TurnSound(q)'
      BY <1>1, <2>1, <2>3, <3>1, <3>2 DEF TurnSound, ClearSound
    <3> QED
      BY <1>1, <1>2, <2>1, <2>3, <2>4, <3>3, TurnsRequestOnly
  <2> QED
    BY <1>3, <2>2, <2>4
<1> QED
  BY <1>4, <1>5

\* The preprocessing that is queued is the only task that is not over.
LEMMA TurnsQueuePreprocess ==
    ASSUME BaseInv, TurnsInv, UNCHANGED setting, NEW q \in Request, NEW t \in TaskId,
           QueuePreprocess(q, t)
    PROVE  TurnsInv'
<1> DEFINE turn == [request[q] EXCEPT !.pc = "savePreprocess", !.task = t]
           x == [NoTask EXCEPT !.kind = "preprocess", !.pc = "queued", !.row = None]
<1>1. /\ request[q].pc = "queue" /\ Waiting(q) /\ task[t].kind = "none"
      /\ request' = [request EXCEPT ![q] = turn]
      /\ task' = [task EXCEPT ![t] = x]
      /\ revoked \subseteq revoked'
      /\ UNCHANGED <<session, rows, upload, country, trees>>
  BY DEF QueuePreprocess, FreshTask, Revoke, Queue, Waiting, rowVars, treeVars
<1>2. /\ \A p \in Request \ {q} : ~ Waiting(p)
      /\ session.status \notin ReadOnly /\ ~ session.ready /\ Idle
      /\ request[q] \in RequestState
      /\ task \in [TaskId -> TaskState] /\ task[t] = NoTask
  BY <1>1, MyTurn DEF BaseInv, TypesInv, TaskSound, TurnSound
<1>3. /\ turn \in RequestState /\ turn.pc = "savePreprocess" /\ turn.task = t
      /\ x.kind = "preprocess" /\ x.pc = "queued" /\ x.seen = {}
  BY <1>2 DEF RequestState, RequestPC, NoTask
<1> HIDE DEF turn, x
<1>4. task'[t] = x /\ \A i \in TaskId \ {t} : task'[i] = task[i]
  BY <1>1, <1>2
<1>5. request'[q] = turn
  BY <1>1 DEF BaseInv, TypesInv
<1>6. /\ \A i \in TaskId : ~ Validating(i)' /\ (Preprocessing(i)' => i = t)
      /\ \A i \in TaskId : Live(i, "validate")' => i # t /\ Live(i, "validate")
  BY <1>1, <1>2, <1>3, <1>4 DEF Idle, Validating, Preprocessing, Live
<1>7. RequestsInv'
  <2>1. TurnSound(q)'
    BY <1>3, <1>5, <1>6 DEF TurnSound
  <2> QED
    BY <1>1, <1>2, <1>3, <2>1, TurnTaken
<1>8. TasksInv'
  <2>1. PreprocessingSound(t)'
    <3>1. Saving(q, "savePreprocess", t)'
      BY <1>3, <1>5 DEF Saving
    <3> QED
      BY <1>1, <1>2, <1>3, <1>4, <3>1 DEF PreprocessingSound
  <2> QED
    BY <1>4, <1>6, <2>1 DEF TurnsInv, TasksInv
<1>9. UploadsInv'
  <2>1. Deleting => Deleting'
    BY <1>1, <1>2, <1>4 DEF Deleting, Waiting, NoTask, BaseInv, TypesInv
  <2> QED
    BY <1>1, <1>2, <2>1 DEF TurnsInv, UploadsInv, UploadSound
<1> QED
  BY <1>7, <1>8, <1>9 DEF TurnsInv

LEMMA TurnsResetSteps ==
    ASSUME BaseInv, TurnsInv, UNCHANGED setting, NEW q \in Request,
           StopPreprocessing(q) \/ DeleteUploads(q) \/ SavePending(q) \/ SaveCanceled(q)
    PROVE  TurnsInv'
<1>1. /\ request[q].pc \in {"stop", "delete", "pending", "cancel"} /\ Waiting(q)
      /\ UNCHANGED <<country, task>> /\ revoked \subseteq revoked' /\ trees' \subseteq trees
  BY DEF StopPreprocessing, DeleteUploads, SavePending, SaveCanceled, Waiting,
     Revoke, DeleteTrees, rowVars, treeVars
<1>2. /\ \A p \in Request \ {q} : ~ Waiting(p)
      /\ session.status \notin ReadOnly
      /\ request \in [Request -> RequestState] /\ request[q] \in RequestState
      /\ session \in [status : SessionStatus, ready : BOOLEAN, task : TaskId \cup {None}]
      /\ TurnSound(q)
      /\ upload \in [RowId -> Columns] /\ rows \subseteq RowId
      /\ \A r \in RowId : UploadSound(r)
      /\ \A r, s \in rows : country[r] = country[s] => r = s
  BY <1>1, MyTurn DEF BaseInv, TypesInv, TypeOK, TurnsInv, UploadsInv
<1>3. Idle => Idle'
  BY <1>1 DEF Idle, Validating, Preprocessing, Live
<1>4. CASE StopPreprocessing(q)
  <2> DEFINE turn == [request[q] EXCEPT !.pc = "delete", !.task = None]
             gone == {upload[r].revised : r \in rows} \ {None}
  <2>1. /\ turn \in RequestState /\ turn.pc = "delete"
        /\ request' = [request EXCEPT ![q] = turn]
    BY <1>2, <1>4 DEF StopPreprocessing, RequestState, RequestPC
  <2> HIDE DEF turn
  <2>2. /\ revoked' = revoked \cup ({request[q].task} \ {None})
        /\ upload' = Unrevised(gone)
        /\ request[q].pc = "stop"
        /\ UNCHANGED <<session, rows, country, task>>
    BY <1>4 DEF StopPreprocessing, Revoke, DeleteTrees
  <2> HIDE DEF gone
  <2>3. request'[q] = turn
    BY <1>2, <2>1
  <2>4. Idle'
    <3>1. ASSUME NEW t \in TaskId, Preprocessing(t) PROVE t \in revoked'
      <4>1. t = request[q].task /\ t # None
        BY <1>2, <2>2, <3>1, BlankTypes DEF TurnSound
      <4> QED
        BY <2>2, <4>1
    <3>2. \A t \in TaskId : ~ Validating(t)
      BY <1>2, <2>2 DEF TurnSound
    <3> QED
      BY <1>1, <2>2, <3>1, <3>2 DEF Idle, Validating, Preprocessing, Live
  <2>5. ASSUME NEW r \in RowId PROVE UploadSound(r)'
    <3>1. /\ upload'[r].status = upload[r].status
          /\ upload'[r].revised \in {upload[r].revised, None}
      <4>1. upload[r] \in Columns
        BY <1>2
      <4>2. Unrevised(gone)[r].revised \in {upload[r].revised, None}
        BY <4>1 DEF Unrevised, Columns
      <4> QED
        BY <2>2, <4>2, UnrevisedKept
    <3>2. Deleting'
      BY <2>1, <2>3 DEF Deleting
    <3> QED
      BY <1>2, <2>2, <3>1, <3>2 DEF UploadSound
  <2>6. TurnSound(q)'
    BY <2>1, <2>3, <2>4 DEF TurnSound
  <2> QED
    BY <1>1, <1>2, <2>1, <2>2, <2>4, <2>5, <2>6, TurnsIdle
<1>5. CASE DeleteUploads(q)
  <2> DEFINE turn == [request[q] EXCEPT !.pc = "pending"]
  <2>1. /\ turn \in RequestState /\ turn.pc = "pending"
        /\ request' = [request EXCEPT ![q] = turn]
    BY <1>2, <1>5 DEF DeleteUploads, RequestState, RequestPC
  <2> HIDE DEF turn
  <2>2. /\ rows' = {} /\ upload' = NoCopies
        /\ request[q].pc = "delete"
        /\ UNCHANGED <<session, country, task>>
    BY <1>5 DEF DeleteUploads
  <2>3. request'[q] = turn
    BY <1>2, <2>1
  <2>4. Idle'
    BY <1>2, <1>3, <2>2 DEF TurnSound
  <2>5. /\ \A r \in RowId : UploadSound(r)'
        /\ \A r \in RowId : upload'[r].status = ""
    BY <2>2, BlankTypes DEF UploadSound
  <2>6. TurnSound(q)'
    BY <2>1, <2>3, <2>4, <2>5 DEF TurnSound
  <2> QED
    BY <1>1, <1>2, <2>1, <2>2, <2>4, <2>5, <2>6, TurnsIdle
<1>6. CASE SavePending(q) \/ SaveCanceled(q)
  <2> DEFINE cancel == [Unsent EXCEPT !.pc = "cancel"]
  <2>1. cancel \in RequestState /\ cancel.pc = "cancel"
    BY BlankTypes DEF RequestState, RequestPC, Unsent
  <2>2. /\ request' = [request EXCEPT ![q] = cancel] \/ request' = [request EXCEPT ![q] = Answered]
        /\ request[q].pc \in {"pending", "cancel"}
        /\ UNCHANGED <<rows, upload, country, trees, task, revoked>>
    BY <1>6 DEF SavePending, SaveCanceled, rowVars, treeVars
  <2>3. /\ session'.ready = FALSE => session.ready = FALSE \/ request[q].pc = "pending"
        /\ session'.ready \in BOOLEAN
        /\ session'.status = "Pending" \/ request' = [request EXCEPT ![q] = Answered]
    BY <1>2, <1>6 DEF SavePending, SaveCanceled
  <2> HIDE DEF cancel
  <2>4. PICK turn \in RequestState : /\ request' = [request EXCEPT ![q] = turn]
                                     /\ turn.pc \in {"cancel", "done"}
                                     /\ session'.status = "Pending" \/ turn.pc = "done"
    BY <2>1, <2>2, <2>3, BlankTypes
  <2>5. request'[q] = turn
    BY <1>2, <2>4
  <2>6. Idle'
    BY <1>2, <1>3, <2>2 DEF TurnSound
  <2>7. Deleting => Deleting'
    BY <1>2, <2>2, <2>4, <2>5 DEF Deleting
  <2>8. ASSUME NEW r \in RowId PROVE UploadSound(r)'
    BY <1>2, <2>2, <2>3, <2>7 DEF UploadSound, TurnSound, ReadOnly
  <2>9. TurnSound(q)'
    BY <2>4, <2>5, <2>6 DEF TurnSound
  <2> QED
    BY <1>1, <1>2, <2>2, <2>4, <2>6, <2>8, <2>9, TurnsIdle, ZenonT(40) DEF ReadOnly
<1> QED
  BY <1>4, <1>5, <1>6

\* No validation of the row is under way, so the new one is the only one.
LEMMA TurnsStartValidation ==
    ASSUME BaseInv, TurnsInv, UNCHANGED setting, NEW q \in Request, NEW c \in Country,
           NEW r \in RowId, NEW t \in TaskId, StartValidation(q, c, r, t)
    PROVE  TurnsInv'
<1> DEFINE turn == [request[q] EXCEPT !.pc = "saveValidate", !.todo = @ \ {c},
                                      !.kept = @ \cup {r}, !.row = r, !.task = t]
           x == [NoTask EXCEPT !.kind = "validate", !.pc = "queued", !.row = r]
<1>1. /\ request[q].pc = "start" /\ Waiting(q) /\ c \in request[q].todo /\ FreshTask(t)
      /\ RowsOf(c) = {r} \/ (RowsOf(c) = {} /\ FreshRow(r))
      /\ rows' = rows \cup {r} /\ country' = [country EXCEPT ![r] = c]
      /\ upload' = [upload EXCEPT ![r].status = "Started"]
      /\ request' = [request EXCEPT ![q] = turn]
      /\ task' = [task EXCEPT ![t] = x]
      /\ revoked \subseteq revoked'
      /\ UNCHANGED <<session, trees>>
  BY DEF StartValidation, Revoke, Queue, Waiting, treeVars
<1>2. /\ \A p \in Request \ {q} : ~ Waiting(p)
      /\ session.status \notin ReadOnly /\ session.ready
      /\ SelectedSound(request[q])
      /\ request[q] \in RequestState /\ request \in [Request -> RequestState]
      /\ task \in [TaskId -> TaskState] /\ task[t] = NoTask
      /\ \A i \in TaskId : Validating(i) =>
           \A p \in Request : ~ Saving(p, "saveValidate", i)
      /\ \A a, b \in rows : country[a] = country[b] => a = b
      /\ rows \subseteq RowId /\ upload \in [RowId -> Columns]
      /\ country \in [RowId -> Country \cup {None}]
  BY <1>1, MyTurn DEF BaseInv, TypesInv, TypeOK, TaskSound, TurnSound,
     SelectedSound, FreshTask, TurnsInv, UploadsInv
<1>3. /\ turn \in RequestState /\ turn.pc = "saveValidate" /\ turn.task = t /\ turn.row = r
      /\ turn.todo = request[q].todo \ {c} /\ turn.kept = request[q].kept \cup {r}
      /\ x.kind = "validate" /\ x.pc = "queued" /\ x.row = r
  BY <1>2 DEF RequestState, RequestPC, NoTask
<1> HIDE DEF turn, x
<1>4. /\ task'[t] = x /\ \A i \in TaskId \ {t} : task'[i] = task[i]
      /\ request'[q] = turn
  BY <1>1, <1>2
<1>5. r \notin request[q].kept /\ upload[r].status = ""
  <2>1. CASE RowsOf(c) = {r}
    <3>1. r \in rows /\ country[r] = c
      BY <2>1 DEF RowsOf
    <3> QED
      BY <1>1, <1>2, <3>1 DEF SelectedSound
  <2>2. CASE FreshRow(r)
    <3>1. r \notin rows
      BY <2>2 DEF FreshRow, BaseInv, TypesInv, TypeOK
    <3> QED
      BY <1>2, <3>1, BlankTypes DEF SelectedSound, BaseInv, TypesInv
  <2> QED
    BY <1>1, <2>1, <2>2
<1>6. /\ upload'[r].status = "Started" /\ upload'[r].revised = None
      /\ \A s \in RowId \ {r} : upload'[s] = upload[s]
  <2>1. upload[r].revised = None
    BY <1>5 DEF TurnsInv, UploadsInv, UploadSound
  <2> QED
    BY <1>1, <1>2, <2>1 DEF Columns
<1>7. /\ \A i \in TaskId : ~ Preprocessing(i)'
      /\ \A i \in TaskId \ {t} : Validating(i)' => Validating(i) /\ task[i].row # r
      /\ \A i \in TaskId \ {t} : Live(i, "validate")' => Live(i, "validate")
  <2>1. /\ \A i \in TaskId : ~ Preprocessing(i)
        /\ \A i \in TaskId : Validating(i) => task[i].row # r
    BY <1>2, <1>5, KindsApart
  <2> QED
    BY <1>1, <1>2, <1>3, <1>4, <2>1 DEF Validating, Preprocessing, Live
<1>8. \A a \in rows : country'[a] = country[a] /\ (country[a] = c => a = r)
  <2>1. \A a \in rows : country[a] = c => a = r
    BY <1>1 DEF RowsOf
  <2> QED
    BY <1>1, <1>2, <2>1 DEF RowsOf, FreshRow, BaseInv, TypesInv, TypeOK
<1>9. country'[r] = c
  BY <1>1, <1>2
<1>10. TurnSound(q)'
  <2>1. \A s \in rows' \ turn.kept : upload'[s].status = ""
    BY <1>1, <1>2, <1>3, <1>6 DEF SelectedSound
  <2>2. \A s \in turn.kept : s \in rows' /\ country'[s] \notin turn.todo
    BY <1>1, <1>2, <1>3, <1>8, <1>9 DEF SelectedSound
  <2>3. /\ task'[turn.task].kind = "validate" /\ task'[turn.task].row = turn.row
        /\ turn.task \in TaskId
        /\ \A i \in TaskId : Validating(i)' /\ task'[i].row = turn.row => i = turn.task
    BY <1>3, <1>4, <1>7
  <2>4. session'.ready
    BY <1>1, <1>2
  <2> QED
    BY <1>3, <1>4, <1>7, <2>1, <2>2, <2>3, <2>4 DEF TurnSound, SelectedSound,
       SavingSound
<1>11. RequestsInv'
  BY <1>1, <1>2, <1>3, <1>10, TurnTaken
<1>12. TasksInv'
  <2>1. ValidationSound(t)'
    <3>1. Saving(q, "saveValidate", t)'
      BY <1>3, <1>4 DEF Saving
    <3> QED
      BY <1>1, <1>3, <1>4, <1>6, <3>1 DEF ValidationSound, Revised, Refiling,
         Checking
  <2>2. ASSUME NEW i \in TaskId \ {t}, Validating(i)' PROVE ValidationSound(i)'
    <3>1. /\ Validating(i) /\ ValidationSound(i) /\ task'[i] = task[i] /\ task[i].row # r
          /\ \A p \in Request : ~ Saving(p, "saveValidate", i)
      BY <1>2, <1>4, <1>7, <2>2 DEF TurnsInv, TasksInv
    <3>2. task[i].row \in rows /\ task[i].row \in RowId
      BY <3>1, KindsApart
    <3>3. country'[task[i].row] = country[task[i].row]
      BY <1>1, <1>2, <3>1, <3>2
    <3> QED
      BY <1>1, <1>6, <3>1, <3>2, <3>3 DEF ValidationSound, Revised
  <2>3. \A i, j \in TaskId : Validating(i)' /\ Validating(j)' /\ task'[i].row = task'[j].row
                               => i = j
    BY <1>3, <1>4, <1>7 DEF TurnsInv, TasksInv
  <2>4. \A i \in TaskId :
          Live(i, "validate")' /\ task'[i].pc \in Checking /\ ~ setting'.level0 =>
            task'[i].copy[task'[i].row].revised = Clone(i)
    BY <1>3, <1>4, <1>7 DEF TurnsInv, TasksInv, Checking
  <2> QED
    BY <1>7, <2>1, <2>2, <2>3, <2>4 DEF TasksInv
<1>13. UploadsInv'
  <2>1. Deleting => Deleting'
    BY <1>1, <1>2, <1>4 DEF Deleting, Waiting, NoTask
  <2>2. ASSUME NEW s \in RowId PROVE UploadSound(s)'
    BY <1>1, <1>2, <1>6, <2>1 DEF TurnsInv, UploadsInv, UploadSound, IsNew
  <2>3. \A a, b \in rows' : country'[a] = country'[b] => a = b
    BY <1>1, <1>2, <1>8, <1>9
  <2> QED
    BY <1>1, <1>2, <2>2, <2>3 DEF UploadsInv
<1> QED
  BY <1>11, <1>12, <1>13 DEF TurnsInv

\* The id that is saved is the one of the only validation of the row.
LEMMA TurnsSaveValidateTask ==
    ASSUME BaseInv, TurnsInv, UNCHANGED setting, NEW q \in Request, SaveValidateTask(q)
    PROVE  TurnsInv'
<1> DEFINE r == request[q].row
           t == request[q].task
           goes == [request[q] EXCEPT !.pc = IF request[q].todo = {} THEN "others" ELSE "start",
                                      !.row = None, !.task = None]
<1>1. /\ request[q].pc = "saveValidate" /\ Waiting(q)
      /\ UNCHANGED <<session, rows, country, trees, task, revoked>>
      /\ \/ /\ r \in rows
            /\ upload' = [upload EXCEPT ![r].task = t]
            /\ request' = [request EXCEPT ![q] = goes]
         \/ /\ r \notin rows /\ UNCHANGED upload
            /\ request' = [request EXCEPT ![q] = Answered]
  BY DEF SaveValidateTask, Waiting, treeVars
<1>2. /\ \A p \in Request \ {q} : ~ Waiting(p)
      /\ session.status \notin ReadOnly
      /\ request[q] \in RequestState /\ request \in [Request -> RequestState]
      /\ SelectedSound(request[q]) /\ SavingSound(request[q]) /\ session.ready
      /\ rows \subseteq RowId /\ upload \in [RowId -> Columns]
  BY <1>1, MyTurn DEF BaseInv, TypesInv, TypeOK, TurnSound, SelectedSound
<1>3. \A s \in RowId : /\ upload'[s].status = upload[s].status
                       /\ upload'[s].revised = upload[s].revised
                       /\ s # r => upload'[s] = upload[s]
  BY <1>1, <1>2 DEF Columns
<1>4. goes \in RequestState /\ goes.pc \in {"others", "start"}
      /\ goes.todo = request[q].todo /\ goes.kept = request[q].kept
  <2> DEFINE pc == IF request[q].todo = {} THEN "others" ELSE "start"
  <2>1. pc \in {"others", "start"}
    OBVIOUS
  <2> HIDE DEF pc
  <2> QED
    BY <1>2, <2>1 DEF RequestState, RequestPC
<1> HIDE DEF goes
<1>5. /\ \A i \in TaskId : /\ Validating(i)' <=> Validating(i)
                           /\ Live(i, "validate")' <=> Live(i, "validate")
                           /\ ~ Preprocessing(i)'
      /\ \A i \in TaskId : Validating(i) => task[i].row \in rows /\ task[i].row \in RowId
  <2>1. /\ \A i \in TaskId : ~ Preprocessing(i)
        /\ \A i \in TaskId : Validating(i) => task[i].row \in rows /\ task[i].row \in RowId
    BY <1>2, KindsApart
  <2> QED
    BY <1>1, <2>1 DEF Validating, Preprocessing, Live
<1>6. PICK turn \in {goes, Answered} : /\ request' = [request EXCEPT ![q] = turn]
                                       /\ turn = Answered => r \notin rows
  BY <1>1, <1>4, BlankTypes
<1>7. turn \in RequestState /\ turn.pc \in {"others", "start", "done"}
  BY <1>4, BlankTypes
<1>8. request'[q] = turn
  BY <1>2, <1>6
<1>9. TurnSound(q)'
  <2>1. /\ session'.ready
        /\ \A s \in rows' \ request[q].kept : upload'[s].status = ""
        /\ \A s \in request[q].kept : s \in rows' /\ country'[s] \notin request[q].todo
    BY <1>1, <1>2, <1>3 DEF SelectedSound
  <2> QED
    BY <1>4, <1>6, <1>7, <1>8, <2>1, BlankTypes DEF TurnSound, SelectedSound
<1>10. RequestsInv'
  BY <1>2, <1>6, <1>7, <1>9, TurnTaken
<1>11. TasksInv'
  <2>1. ASSUME NEW i \in TaskId, Validating(i)' PROVE ValidationSound(i)'
    <3>1. Validating(i) /\ ValidationSound(i) /\ task[i].row \in RowId /\ task[i].row \in rows
      BY <1>5, <2>1 DEF TurnsInv, TasksInv
    <3>2. upload[task[i].row].task = i \/ (\E p \in Request : Saving(p, "saveValidate", i))
            => upload'[task[i].row].task = i
      <4>1. CASE task[i].row = r
        <5>1. i = t
          BY <3>1, <4>1, <1>2 DEF SavingSound
        <5>2. upload'[r].task = t
          BY <1>1, <1>2, <3>1, <4>1 DEF Columns
        <5> QED
          BY <4>1, <5>1, <5>2
      <4>2. CASE task[i].row # r
        <5>1. i # t
          BY <1>2, <4>2 DEF SavingSound
        <5>2. \A p \in Request : ~ Saving(p, "saveValidate", i)
          BY <1>2, <5>1 DEF Saving, Waiting
        <5> QED
          BY <1>3, <3>1, <4>2, <5>2
      <4> QED
        BY <4>1, <4>2
    <3> HIDE DEF r, t
    <3> QED
      BY <1>1, <1>3, <3>1, <3>2 DEF ValidationSound, Revised
  <2> QED
    BY <1>1, <1>5, <2>1 DEF TurnsInv, TasksInv
<1>12. UploadsInv'
  <2>1. Deleting => Deleting'
    BY <1>1, <1>2 DEF Deleting, Waiting
  <2>2. ASSUME NEW s \in RowId PROVE UploadSound(s)'
    BY <1>1, <1>3, <2>1 DEF TurnsInv, UploadsInv, UploadSound, IsNew
  <2> QED
    BY <1>1, <1>2, <2>2 DEF TurnsInv, UploadsInv
<1> QED
  BY <1>10, <1>11, <1>12 DEF TurnsInv

\* The task that is revoked, or the revision that is deleted, is the one of
\* the validation of the row.
LEMMA TurnsClearUpload ==
    ASSUME BaseInv, TurnsInv, UNCHANGED setting, NEW q \in Request, NEW r \in RowId,
           ClearOther(q, r) \/ ResetUpload(q, r)
    PROVE  TurnsInv'
<1> DEFINE copy == request[q].copy[r]
           gone == {copy.revised} \ {None}
           goes == [request[q] EXCEPT !.todo = @ \ {r}]
           stop == [request[q] EXCEPT !.pc = "stop", !.copy = NoCopies, !.todo = {}]
           cancel == [Unsent EXCEPT !.pc = "cancel"]
<1>1. /\ request[q].pc \in {"clear", "reset"} /\ Waiting(q)
      /\ r \in request[q].todo /\ Fetchable(copy)
      /\ revoked' = revoked \cup ({copy.task} \ {None})
      /\ rows' = rows \cup {r}
      /\ trees' = trees \ {copy.revised}
      /\ upload' = [Unrevised(gone) EXCEPT ![r] = Blank]
      /\ UNCHANGED <<session, country, task>>
  BY DEF ClearOther, ResetUpload, ClearUpload, Revoke, Waiting
<1>2. /\ \A p \in Request \ {q} : ~ Waiting(p)
      /\ session.status \notin ReadOnly
      /\ request[q] \in RequestState /\ request \in [Request -> RequestState]
      /\ TurnSound(q) /\ session.ready
      /\ rows \subseteq RowId /\ upload \in [RowId -> Columns]
      /\ r \in rows
      /\ \A i \in TaskId : Validating(i) =>
           \A p \in Request : ~ Saving(p, "saveValidate", i)
  BY <1>1, MyTurn DEF BaseInv, TypesInv, TypeOK, TurnSound, ClearSound, ResetSound
<1>3. \/ request[q].todo # {r} /\ request' = [request EXCEPT ![q] = goes]
      \/ /\ request[q].todo = {r} /\ request[q].pc = "reset"
         /\ request' = [request EXCEPT ![q] = stop]
      \/ /\ request[q].todo = {r} /\ request[q].pc = "reset"
         /\ request' = [request EXCEPT ![q] = cancel]
      \/ request' = [request EXCEPT ![q] = Answered]
  <2>1. CASE request[q].todo # {r}
    BY <2>1 DEF ClearOther, ResetUpload, ClearUpload, NextUpload
  <2>2. CASE request[q].todo = {r}
    BY <2>2 DEF ClearOther, ResetUpload, ClearUpload, NextUpload, AfterReset
  <2> QED
    BY <2>1, <2>2
<1>4. /\ goes \in RequestState /\ goes.pc = request[q].pc
      /\ goes.todo = request[q].todo \ {r} /\ goes.copy = request[q].copy
      /\ stop \in RequestState /\ stop.pc = "stop"
      /\ cancel \in RequestState /\ cancel.pc = "cancel"
  BY <1>2, BlankTypes DEF RequestState, RequestPC, Unsent
<1> HIDE DEF goes, stop, cancel
<1>5. /\ upload'[r] = Blank
      /\ \A s \in RowId \ {r} : upload'[s] = upload[s]
  <2>1. \A s \in RowId \ {r} : upload[s].revised \notin gone
    <3>1. copy \in Columns /\ Attached(copy, r)
      BY <1>2 DEF RequestState, BaseInv, FilesInv, RequestAttached
    <3> QED
      BY <3>1 DEF Attached, BaseInv, FilesInv, UploadAttached
  <2> HIDE DEF gone
  <2>2. Unrevised(gone) \in [RowId -> Columns]
    BY UnrevisedKept
  <2> QED
    BY <1>1, <2>1, <2>2 DEF Unrevised
<1>6. \A i \in TaskId : /\ ~ Preprocessing(i)'
                        /\ Live(i, "validate")' => Live(i, "validate")
                        /\ Validating(i)' => Validating(i) /\ task[i].row # r
  <2> TAKE i \in TaskId
  <2>1. ~ Preprocessing(i)
    BY <1>2, KindsApart
  <2>2. ~ Preprocessing(i)' /\ (Live(i, "validate")' => Live(i, "validate"))
    BY <1>1, <2>1 DEF Preprocessing, Live
  <2>3. Validating(i)' => Validating(i)
    BY <1>1 DEF Validating, Live
  <2>4. ASSUME Validating(i), task[i].row = r, Validating(i)' PROVE FALSE
    <3>1. request[q].pc = "reset"
      BY <1>1, <1>2, <2>4, KindsApart DEF TurnSound, ClearSound
    <3>2. copy.task = i \/ (copy.revised = Clone(i) /\ ~ setting.level0)
      BY <1>2, <2>4, <3>1 DEF TurnSound, ResetSound
    <3>3. i # None /\ Clone(i) # None
      BY BlankTypes, Revisions
    <3>4. /\ i \notin revoked'
          /\ task[i].pc \in Checking /\ ~ setting.level0 => Clone(i) \in trees'
      BY <1>1, <2>4 DEF Validating, Live
    <3>5. copy.revised = Clone(i) /\ ~ setting.level0
      BY <1>1, <3>2, <3>3, <3>4
    <3>6. task[i].pc \in Refiling \cup Settled
      <4>1. Attached(copy, r)
        BY DEF BaseInv, FilesInv, RequestAttached
      <4> QED
        BY <3>3, <3>5, <4>1, Revisions DEF Attached
    <3>7. task[i].pc \in Checking
      <4>1. task[i].pc \notin Refiling
        BY <2>4, <3>5 DEF TurnsInv, TasksInv, ValidationSound
      <4> QED
        BY <2>4, <3>6, <4>1 DEF Validating, Live, Ended, Settled
    <3> QED
      BY <1>1, <3>4, <3>5, <3>7
  <2> QED
    BY <2>2, <2>3, <2>4
<1> HIDE DEF copy, gone
<1>7. rows' = rows
  BY <1>1, <1>2
<1>8. PICK turn \in {goes, stop, cancel, Answered} :
        /\ request' = [request EXCEPT ![q] = turn]
        /\ turn \in {stop, cancel} => request[q].todo = {r} /\ request[q].pc = "reset"
  BY <1>1, <1>3, <1>4, BlankTypes
<1>9. turn \in RequestState /\ request'[q] = turn /\ turn.pc # "delete"
  BY <1>1, <1>2, <1>4, <1>8, BlankTypes
<1>10. TurnSound(q)'
  <2>1. CASE turn = Answered
    BY <1>9, <2>1, BlankTypes DEF TurnSound
  <2>2. CASE turn \in {stop, cancel}
    <3>1. \A i \in TaskId : ~ Validating(i)'
      <4>1. \A i \in TaskId : Validating(i) => task[i].row \in {r}
        BY <1>2, <1>8, <2>2 DEF TurnSound, ResetSound
      <4> QED
        BY <1>6, <4>1
    <3>2. Idle'
      BY <1>6, <3>1 DEF Idle
    <3> QED
      BY <1>4, <1>6, <1>9, <2>2, <3>1, <3>2 DEF TurnSound
  <2>3. CASE turn = goes /\ request[q].pc = "clear"
    <3>1. \A s \in request[q].todo \ {r} : s \in rows' /\ upload'[s].status = ""
      BY <1>2, <1>5, <1>7, <2>3 DEF TurnSound, ClearSound
    <3> QED
      BY <1>1, <1>2, <1>4, <1>9, <2>3, <3>1 DEF TurnSound, ClearSound
  <2>4. CASE turn = goes /\ request[q].pc = "reset"
    <3>1. request[q].todo \ {r} \subseteq rows'
      BY <1>2, <1>7, <2>4 DEF TurnSound, ResetSound
    <3>2. ASSUME NEW i \in TaskId, Validating(i)'
          PROVE  /\ task'[i].row \in goes.todo
                 /\ \/ goes.copy[task'[i].row].task = i
                    \/ goes.copy[task'[i].row].revised = Clone(i) /\ ~ setting.level0
      BY <1>1, <1>2, <1>4, <1>6, <2>4, <3>2 DEF TurnSound, ResetSound
    <3> QED
      BY <1>1, <1>2, <1>4, <1>9, <2>4, <3>1, <3>2 DEF TurnSound, ResetSound
  <2> QED
    BY <1>1, <1>8, <2>1, <2>2, <2>3, <2>4
<1>11. RequestsInv'
  BY <1>2, <1>8, <1>9, <1>10, TurnTaken
<1>12. TasksInv'
  <2>1. ASSUME NEW i \in TaskId, Validating(i)' PROVE ValidationSound(i)'
    <3>1. /\ Validating(i) /\ ValidationSound(i) /\ task[i].row # r
          /\ task[i].row \in RowId /\ \A p \in Request : ~ Saving(p, "saveValidate", i)
      BY <1>2, <1>6, <2>1, KindsApart DEF TurnsInv, TasksInv
    <3> QED
      BY <1>1, <1>5, <1>7, <3>1 DEF ValidationSound, Revised
  <2> QED
    BY <1>1, <1>6, <2>1 DEF TurnsInv, TasksInv
<1>13. UploadsInv'
  <2>1. Deleting => Deleting'
    BY <1>1, <1>2, <1>8 DEF Deleting, Waiting
  <2>2. ASSUME NEW s \in RowId PROVE UploadSound(s)'
    <3>1. CASE s = r
      BY <1>5, <3>1, BlankTypes DEF UploadSound
    <3>2. CASE s # r
      BY <1>1, <1>5, <2>1, <3>2 DEF TurnsInv, UploadsInv, UploadSound, IsNew
    <3> QED
      BY <3>1, <3>2
  <2> QED
    BY <1>1, <1>2, <1>7, <2>2 DEF TurnsInv, UploadsInv
<1> QED
  BY <1>11, <1>12, <1>13 DEF TurnsInv

LEMMA NextIsLucky ==
    ASSUME BaseInv, Next, met' = {}
    PROVE  /\ met = {} /\ UNCHANGED setting
           /\ \A q \in Request : met' = met \cup SendMeets(request'[q].pc = "queue") =>
                /\ \A p \in Request : ~ Waiting(p)
                /\ SendPreprocess(q) => ~ PreprocessingAsked
           /\ \A t \in TaskId : met' = met \cup TaskMeets(t) => Timely(t)
<1>1. met = {} /\ UNCHANGED setting
  BY DEF Next
<1>2. ASSUME NEW q \in Request, met' = met \cup SendMeets(request'[q].pc = "queue")
      PROVE  /\ \A p \in Request : ~ Waiting(p)
             /\ SendPreprocess(q) => ~ PreprocessingAsked
  <2>1. "overlap" \notin SendMeets(request'[q].pc = "queue")
    BY <1>2
  <2>2. "askedTwice" \notin SendMeets(request'[q].pc = "queue")
    BY <1>2
  <2>3. SendPreprocess(q) => request'[q].pc = "queue"
    BY DEF SendPreprocess, BaseInv, TypesInv, RequestState
  <2> QED
    BY <2>1, <2>2, <2>3 DEF SendMeets
<1>3. ASSUME NEW t \in TaskId, met' = met \cup TaskMeets(t) PROVE Timely(t)
  <2>1. "lateKill" \notin TaskMeets(t) /\ "lostId" \notin TaskMeets(t)
    BY <1>3
  <2> QED
    BY <2>1 DEF TaskMeets, Timely
<1> QED
  BY <1>1, <1>2, <1>3

LEMMA TurnsStep ==
    ASSUME BaseInv, TurnsInv, Next, met' = {}
    PROVE  TurnsInv'
<1>1. ASSUME NEW q \in Request, Send(q), met' = met \cup SendMeets(request'[q].pc = "queue")
      PROVE  TurnsInv'
  BY <1>1, NextIsLucky, TurnsSends, TurnsSendToReview DEF Send
<1>2. ASSUME NEW q \in Request, RequestStep(q) PROVE TurnsInv'
  <2>1. UNCHANGED setting
    BY NextIsLucky
  <2> QED
    BY <1>2, <2>1, TurnsQueuePreprocess, TurnsRequestOnlySteps,
       TurnsStartValidation, TurnsSaveValidateTask, TurnsClearUpload,
       TurnsResetSteps DEF RequestStep
<1>3. ASSUME NEW t \in TaskId, TaskStep(t), met' = met \cup TaskMeets(t)
      PROVE  TurnsInv'
  BY <1>3, NextIsLucky, TurnsPreprocessSteps, TurnsValidateSteps DEF TaskStep
<1> QED
  BY <1>1, <1>2, <1>3 DEF Next

LEMMA TurnsInit == Init => TurnsInv
<1> SUFFICES ASSUME Init PROVE TurnsInv
  OBVIOUS
<1>1. /\ \A t \in TaskId : task[t].kind = "none"
      /\ \A q \in Request : request[q].pc = "unsent" /\ request[q].kept = {}
      /\ rows = {} /\ session.status = "Pending" /\ ~ session.ready
      /\ \A r \in RowId : upload[r].status = "" /\ upload[r].revised = None
  BY BlankTypes DEF Init, NoTask, Unsent
<1>2. \A t \in TaskId : ~ Preprocessing(t) /\ ~ Validating(t) /\ ~ Live(t, "validate")
  BY <1>1 DEF Validating, Preprocessing, Live
<1>3. TasksInv
  BY <1>2 DEF TasksInv
<1>4. RequestsInv
  BY <1>1 DEF RequestsInv, TurnSound, Waiting
<1>5. UploadsInv
  BY <1>1, <1>2 DEF UploadsInv, UploadSound, ReadOnly
<1> QED
  BY <1>3, <1>4, <1>5 DEF TurnsInv

\* Preprocessing, validation and review take turns, and a request that stops
\* the tasks at work finds each of them, by its id or by its revision, until the
\* first time that a request is sent before the last was answered, that
\* preprocessing is asked for while a task of it waits or runs, that a task takes
\* a step after it was revoked, or that a validation of a session with a file
\* of level 0 takes one before its id is saved.
THEOREM TurnsInvariant == Spec => [](met = {} => TurnsInv)
<1> DEFINE Inv == met = {} => TurnsInv
<1>1. Init => Inv
  BY TurnsInit
<1>2. BaseInv /\ Inv /\ [Next]_<<vars, setting, met>> => Inv'
  <2> SUFFICES ASSUME BaseInv, Inv, [Next]_<<vars, setting, met>>, met' = {} PROVE TurnsInv'
    OBVIOUS
  <2>1. UNCHANGED setting /\ TurnsInv
    BY NextIsLucky DEF Next
  <2>2. CASE Next
    BY <2>1, <2>2, TurnsStep
  <2>3. CASE UNCHANGED vars
    <3>1. UNCHANGED <<session, rows, upload, country, trees, task, revoked, request>>
      BY <2>3 DEF vars, rowVars, treeVars
    <3>2. TasksInv'
      <4>1. \A t \in TaskId : /\ Validating(t)' <=> Validating(t)
                              /\ Preprocessing(t)' <=> Preprocessing(t)
                              /\ ValidationSound(t)' <=> ValidationSound(t)
                              /\ PreprocessingSound(t)' <=> PreprocessingSound(t)
        BY <2>1, <3>1 DEF Validating, Preprocessing, Live, ValidationSound, Revised,
           PreprocessingSound, Saving
      <4> QED
        BY <2>1, <3>1, <4>1 DEF TurnsInv, TasksInv, Live
    <3>3. RequestsInv'
      <4>1. /\ Idle' <=> Idle
            /\ \A t \in TaskId : /\ Validating(t)' <=> Validating(t)
                                 /\ Preprocessing(t)' <=> Preprocessing(t)
        BY <2>1, <3>1 DEF Idle, Validating, Preprocessing, Live
      <4>2. ASSUME NEW q \in Request PROVE TurnSound(q)'
        <5>1. TurnSound(q) /\ request'[q] = request[q]
          BY <2>1, <3>1 DEF TurnsInv, RequestsInv
        <5>2. /\ SelectedSound(request[q]) => SelectedSound(request[q])'
              /\ ClearSound(request[q]) => ClearSound(request[q])'
          BY <3>1 DEF SelectedSound, ClearSound
        <5>3. SavingSound(request[q]) => SavingSound(request[q])'
          BY <3>1, <4>1 DEF SavingSound
        <5>4. ResetSound(request[q]) => ResetSound(request[q])'
          BY <2>1, <3>1, <4>1 DEF ResetSound
        <5> QED
          BY <3>1, <4>1, <5>1, <5>2, <5>3, <5>4 DEF TurnSound
      <4> QED
        BY <2>1, <3>1, <4>2 DEF TurnsInv, RequestsInv, Waiting
    <3>4. UploadsInv'
      BY <2>1, <3>1 DEF TurnsInv, UploadsInv, UploadSound, IsNew, Deleting,
         Idle, Waiting, Validating, Preprocessing, Live
    <3> QED
      BY <3>2, <3>3, <3>4 DEF TurnsInv
  <2> QED
    BY <2>2, <2>3
<1> QED
  BY <1>1, <1>2, BaseInvariant, PTL DEF Spec

\* update_or_create finds one upload of a country at most: preprocessing,
\* which deletes them all first, and validation do not both create one.
THEOREM OnePerCountry == Spec => []OneUploadPerCountry
<1>1. BaseInv /\ (met = {} => TurnsInv) => OneUploadPerCountry
  <2> SUFFICES ASSUME BaseInv, met = {} => TurnsInv, met = {}, NEW c \in Country
               PROVE  Cardinality(RowsOf(c)) <= 1
    BY DEF OneUploadPerCountry
  <2>1. \A r, s \in RowsOf(c) : r = s
    BY DEF TurnsInv, UploadsInv, RowsOf
  <2>2. CASE RowsOf(c) = {}
    BY <2>2, FS_EmptySet
  <2>3. ASSUME NEW r \in RowsOf(c) PROVE Cardinality(RowsOf(c)) <= 1
    <3>1. RowsOf(c) = {r}
      BY <2>1
    <3>2. Cardinality({r}) = 1
      BY FS_Singleton
    <3> QED
      BY <3>1, <3>2
  <2> QED
    BY <2>2, <2>3
<1> QED
  BY <1>1, BaseInvariant, TurnsInvariant, PTL

\* Whatever is offered for review has a revision, unless somebody who deletes
\* the uploads is at work, or was killed at it.
THEOREM VerdictsHaveRevision == Spec => []VerdictHasRevision
<1>1. BaseInv /\ (met = {} => TurnsInv) => VerdictHasRevision
  <2>1. BaseInv => rows \subseteq RowId
    BY DEF BaseInv, TypesInv, TypeOK
  <2> QED
    BY <2>1 DEF VerdictHasRevision, TurnsInv, UploadsInv, UploadSound, Deleting
<1> QED
  BY <1>1, BaseInvariant, TurnsInvariant, PTL

LEMMA RequestWaits ==
    ASSUME NEW q \in Request, RequestStep(q)
    PROVE  Waiting(q)
<1>1. CASE \/ \E t \in TaskId : QueuePreprocess(q, t)
           \/ SavePreprocessTask(q) \/ SaveValidateTask(q) \/ ReadOthers(q)
           \/ StopPreprocessing(q) \/ DeleteUploads(q) \/ SavePending(q) \/ SaveCanceled(q)
  BY <1>1 DEF Waiting, QueuePreprocess, SavePreprocessTask, SaveValidateTask,
     ReadOthers, StopPreprocessing, DeleteUploads, SavePending, SaveCanceled
<1>2. CASE \E c \in Country : \/ StartFails(q, c)
                              \/ \E r \in RowId, t \in TaskId : StartValidation(q, c, r, t)
  BY <1>2 DEF Waiting, StartFails, StartValidation
<1>3. CASE \E r \in RowId : ClearOther(q, r) \/ ResetUpload(q, r) \/ LoopFails(q, r)
  BY <1>3 DEF Waiting, ClearOther, ResetUpload, LoopFails
<1> QED
  BY <1>1, <1>2, <1>3 DEF RequestStep

\* The steps of a task that write to the uploads find its own, or none that
\* has a result.
LEMMA TaskWrites ==
    ASSUME BaseInv, TurnsInv, NEW t \in TaskId, Timely(t), UNCHANGED setting, TaskStep(t)
    PROVE  \/ Preprocessing(t)
           \/ /\ Validating(t)
              /\ \A s \in RowId : upload'[s] = upload[s] \/ s = task[t].row
           \/ UNCHANGED <<session, rowVars, treeVars>>
<1>1. CASE \/ StartPreprocessing(t) \/ RemoveUploads(t) \/ MarkPreProcessing(t)
           \/ \E c \in Country : MatchFails(t, c) \/ \E r \in RowId : MatchCountry(t, c, r)
           \/ PreprocessingBreaks(t) \/ SaveLevelNames(t) \/ FinishPreprocessing(t)
  <2>1. Runnable(t)
    BY <1>1 DEF StartPreprocessing, RemoveUploads, MarkPreProcessing, MatchFails,
       MatchCountry, PreprocessingBreaks, SaveLevelNames, FinishPreprocessing
  <2>2. \/ task[t].kind = "preprocess"
        \/ task[t].pc \in {"delete", "match", "names", "finish"}
    BY <1>1 DEF StartPreprocessing, RemoveUploads, MarkPreProcessing, MatchFails,
       MatchCountry, PreprocessingBreaks, SaveLevelNames, FinishPreprocessing
  <2> QED
    BY <2>1, <2>2, KindOf, RunnableLive DEF Preprocessing
<1>2. CASE \/ ReadUpload(t) \/ MarkProcessing(t)
           \/ CloneCountry(t) \/ CorrectClone(t) \/ AttachClone(t)
           \/ Detach(t) \/ DropRevision(t) \/ StoreCountry(t) \/ AttachFile(t)
           \/ CheckFeatures(t)
           \/ \E verdict \in {"Valid", "Error"} : FinishValidation(t, verdict)
  <2>1. upload \in [RowId -> Columns]
    BY DEF BaseInv, TypesInv, TypeOK
  <2>2. CASE DropRevision(t) /\ Validating(t)
    <3>1. /\ upload' = Unrevised({task[t].copy[task[t].row].revised})
          /\ task[t].copy[task[t].row].revised = Clone(t)
      BY <2>2 DEF DropRevision, DeleteTrees, TurnsInv, TasksInv,
         ValidationSound, Checking
    <3>2. \A s \in RowId : upload[s].revised = Clone(t) => s = task[t].row
      BY Revisions DEF BaseInv, FilesInv, UploadAttached, Attached
    <3> QED
      BY <2>2, <3>1, <3>2 DEF Unrevised
  <2>3. CASE ~ DropRevision(t)
    <3>1. \A s \in RowId : upload'[s] = upload[s] \/ s = task[t].row
      BY <1>2, <2>1, <2>3 DEF ReadUpload, MarkProcessing, CloneCountry,
         CorrectClone, AttachClone, AttachFile, Attach, Detach, StoreCountry,
         CheckFeatures, FinishValidation, SaveRow, rowVars
    <3> QED
      BY <1>2, <3>1, TurnsStopped
  <2> QED
    BY <1>2, <2>2, <2>3, TurnsStopped
<1> QED
  BY <1>1, <1>2 DEF TaskStep

\* Nothing is written to a session that was canceled or sent to review, nor
\* to its uploads: every task that could was stopped before.
THEOREM ReadOnlyStays == Spec => ReadOnlyFrozen
<1>1. BaseInv /\ (met = {} => TurnsInv) /\ [Next]_<<vars, setting, met>>
        => [met' = {} /\ session.status \in ReadOnly =>
              UNCHANGED <<session, rows, upload, trees>>]_vars
  <2> SUFFICES ASSUME BaseInv, TurnsInv, Next, met' = {}, session.status \in ReadOnly
               PROVE  UNCHANGED <<session, rows, upload, trees>>
    BY NextIsLucky DEF vars
  <2>1. Idle /\ \A q \in Request : ~ Waiting(q) /\ ~ MaySend(q)
    BY DEF TurnsInv, UploadsInv, MaySend
  <2>2. \A q \in Request : ~ Send(q)
    BY <2>1 DEF Send, SendPreprocess, SendValidate, SendReset, SendToReview
  <2>3. \A q \in Request : ~ RequestStep(q)
    BY <2>1, RequestWaits
  <2>4. ASSUME NEW t \in TaskId, TaskStep(t), met' = met \cup TaskMeets(t)
        PROVE  UNCHANGED <<session, rows, upload, trees>>
    BY <2>1, <2>4, NextIsLucky, TaskWrites DEF Idle, rowVars, treeVars
  <2> QED
    BY <2>2, <2>3, <2>4 DEF Next
<1> QED
  BY <1>1, BaseInvariant, TurnsInvariant, PTL DEF Spec, ReadOnlyFrozen

\* An upload that was reset gets no result until it is validated again: no
\* validation that was under way ends with a verdict on it.
THEOREM ResetsStand == Spec => ResetStands
<1>1. BaseInv /\ (met = {} => TurnsInv) /\ [Next]_<<vars, setting, met>>
        => [met' = {} => \A r \in RowId : upload[r].status = "" =>
              upload'[r].status \in {"", "Started"}]_upload
  <2> SUFFICES ASSUME BaseInv, TurnsInv, Next, met' = {},
                      NEW r \in RowId, upload[r].status = ""
               PROVE  upload'[r].status \in {"", "Started"}
    BY NextIsLucky DEF vars, rowVars
  <2>1. upload \in [RowId -> Columns] /\ TurnsInv'
    BY TurnsStep DEF BaseInv, TypesInv, TypeOK
  <2>2. \A T : Unrevised(T) \in [RowId -> Columns] /\ Unrevised(T)[r].status = ""
    BY UnrevisedKept
  <2>3. ASSUME NEW q \in Request, Send(q) PROVE upload'[r].status = ""
    <3>1. ASSUME NEW U \in SUBSET RowId, SendToReview(q, U) PROVE upload'[r].status = ""
      <4>1. /\ r \notin U
            /\ upload'[r] = Unrevised({upload[s].revised : s \in rows \ U} \ {None})[r]
        BY <3>1 DEF SendToReview, Importable
      <4> QED
        BY <2>2, <4>1
    <3> QED
      BY <2>3, <3>1 DEF Send, SendPreprocess, SendValidate, SendReset, rowVars
  <2>4. ASSUME NEW q \in Request, RequestStep(q) PROVE upload'[r].status \in {"", "Started"}
    <3>1. ASSUME NEW s \in RowId, ClearOther(q, s) \/ ResetUpload(q, s)
          PROVE  upload'[r].status = ""
      <4>1. PICK T : upload' = [Unrevised(T) EXCEPT ![s] = Blank]
        BY <3>1 DEF ClearOther, ResetUpload, ClearUpload
      <4> QED
        BY <2>2, <4>1, BlankTypes
    <3>2. CASE StopPreprocessing(q) \/ DeleteUploads(q)
      BY <2>2, <3>2, BlankTypes DEF StopPreprocessing, DeleteTrees, DeleteUploads
    <3>3. ASSUME NEW c \in Country, NEW s \in RowId, NEW t \in TaskId,
                 StartValidation(q, c, s, t)
          PROVE  upload'[r].status \in {"", "Started"}
      <4>1. upload' = [upload EXCEPT ![s].status = "Started"]
        BY <3>3 DEF StartValidation
      <4> QED
        BY <2>1, <4>1 DEF Columns
    <3>4. CASE SaveValidateTask(q)
      <4>1. \/ upload' = [upload EXCEPT ![request[q].row].task = request[q].task]
            \/ UNCHANGED upload
        BY <3>4 DEF SaveValidateTask
      <4>2. upload[r] \in Columns
        BY <2>1
      <4>3. \/ upload'[r] = [upload[r] EXCEPT !.task = request[q].task]
            \/ upload'[r] = upload[r]
        BY <2>1, <4>1
      <4> QED
        BY <4>2, <4>3 DEF Columns
    <3> QED
      BY <2>4, <3>1, <3>2, <3>3, <3>4 DEF RequestStep, QueuePreprocess,
         SavePreprocessTask, StartFails, ReadOthers, LoopFails, SavePending,
         SaveCanceled, rowVars
  <2>5. ASSUME NEW t \in TaskId, TaskStep(t), met' = met \cup TaskMeets(t)
        PROVE  upload'[r].status = ""
    <3> Timely(t) /\ UNCHANGED setting
      BY <2>5, NextIsLucky
    <3>1. CASE Preprocessing(t)
      <4>1. ~ session.ready /\ ~ Validating(t)
        BY <3>1, KindsApart
      <4>2. CASE \/ MarkPreProcessing(t) \/ FinishPreprocessing(t) \/ PreprocessingBreaks(t)
                 \/ \E c \in Country : \/ MatchFails(t, c)
                                       \/ \E s \in RowId : MatchCountry(t, c, s)
        BY <4>2 DEF MarkPreProcessing, FinishPreprocessing,
           PreprocessingBreaks, MatchFails, MatchCountry, rowVars
      <4>3. CASE StartPreprocessing(t) \/ RemoveUploads(t) \/ SaveLevelNames(t)
        <5>1. ~ session'.ready
          BY <4>1, <4>3 DEF StartPreprocessing, RemoveUploads, SaveLevelNames
        <5> QED
          BY <2>1, <5>1 DEF TurnsInv, UploadsInv, UploadSound
      <4>4. CASE \/ ReadUpload(t) \/ MarkProcessing(t)
                 \/ CloneCountry(t) \/ CorrectClone(t) \/ AttachClone(t)
                 \/ Detach(t) \/ DropRevision(t) \/ StoreCountry(t) \/ AttachFile(t)
                 \/ CheckFeatures(t)
                 \/ \E verdict \in {"Valid", "Error"} : FinishValidation(t, verdict)
        BY <4>1, <4>4, TurnsStopped DEF rowVars
      <4> QED
        BY <2>5, <4>2, <4>3, <4>4 DEF TaskStep
    <3>2. CASE Validating(t) /\ \A s \in RowId : upload'[s] = upload[s] \/ s = task[t].row
      BY <3>2, KindsApart
    <3> QED
      BY <2>5, <3>1, <3>2, TaskWrites DEF rowVars
  <2> QED
    BY <2>3, <2>4, <2>5 DEF Next
<1> QED
  BY <1>1, BaseInvariant, TurnsInvariant, PTL DEF Spec, ResetStands
=============================================================================
