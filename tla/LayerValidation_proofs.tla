------------------------ MODULE LayerValidation_proofs ------------------------
(***************************************************************************)
(* Proofs about the validation of an upload, whatever the files, the       *)
(* countries and the parameters of the session are:                        *)
(*                                                                         *)
(* 1. What is offered for import repeats nothing that was stored when it   *)
(*    was checked (NothingTwice).  The code compares a unit with what is   *)
(*    stored when it is read, stores it later, and looks for units within  *)
(*    others at the end of a file.  IInv follows what is known in between: *)
(*    what the errors of an upload say of each comparison (Pairs), which   *)
(*    comparisons cannot be missing (Pending, Covered), and which files    *)
(*    are still to be closed (Enclosed).                                   *)
(*                                                                         *)
(* 2. The tree offered is what the files say of the country (TreeIsFile),  *)
(*    down to the level that was offered for it (OfferedReached).          *)
(*    TreesInv says how much of the tree is there while the files are      *)
(*    read: as long as no error was found that nobody can bypass, what the *)
(*    task is past was stored if it belongs to the country (Built), once,  *)
(*    below a unit that no code is shared with (OneOfACode).               *)
(*                                                                         *)
(* 3. A country without faults is valid (FlawlessValid): the units of the  *)
(*    other trees are none of its own, so that none of them is near one    *)
(*    (FlawlessInv).                                                       *)
(*                                                                         *)
(* What the files hang below a country is a recursive function on levels;  *)
(* that its equation has a solution is proved first (SequenceExists), and  *)
(* facts about all levels by the least one that would be an exception      *)
(* (AllNumbers).                                                           *)
(***************************************************************************)
EXTENDS LayerValidation, FiniteSetTheorems, WellFoundedInduction, TLAPS

Task == [pc : {"idle", "read", "store", "verdict"}, level : Nat, index : Nat]
Row == [status : UploadStatus, max : Nat, errors : SUBSET ErrorType]

\* The types the proof needs
Typed ==
    /\ setting \in Setting
    /\ upload \in [Country -> Row] /\ task \in [Country -> Task]
    /\ \A r \in rows : r.upload \in Country /\ upload[r.upload].status # ""

\* A task that runs has its upload marked; a valid upload has no errors.
Marked ==
    \A c \in Country : /\ task[c].pc # "idle" => upload[c].status = "Processing"
                       /\ upload[c].status = "Valid" => upload[c].errors = {}

\* One validation at a time
Turn == \A c, d \in Country : task[c].pc # "idle" /\ task[d].pc # "idle" => c = d

\* Counts, under the parameters p of a session
CountsIn(p, P) ==
    \E Q \in Parts(P) : /\ Cardinality(Q) > p.tolerance
                        /\ p.threshold = 0 \/ Cardinality(Q) < p.threshold

\* What the errors E of an upload say of a unit f and another one g, if not all
\* is well, under the parameters p of the session
Reported(p, f, g, E) ==
    /\ f.code = g.code => "CodeMissing" \in E \/ "DuplicatedCode" \in E
    /\ Sound(f) /\ Sound(g)
         => \/ Within(f, g) \/ Within(g, f)
            \/ /\ ~ f.place \subseteq g.place /\ ~ g.place \subseteq f.place
               /\ ~ CountsIn(p, f.place \cap g.place)
            \/ "DuplicatedGeometry" \in E \/ "Overlap" \in E

Errors(r) == upload[r.upload].errors

\* What a unit repeats of those that it was checked against is reported.
Pairs ==
    \A p \in compared :
        /\ p[2] \in rows
        /\ p[1].upload \in Country
        /\ Reported(setting, Layer(p[1].level)[p[1].index], UnitOf(p[2]),
                    upload[p[1].upload].errors)

\* Of two units that can be told apart in time, one was checked when the other
\* was stored.
Ordered(r, s) == setting.inTurn \/ r.upload = s.upload

Covered ==
    \A r, s \in rows : /\ r.level = s.level /\ r.index > 0 /\ s.index > 0
                       /\ r # s /\ Ordered(r, s)
                       => Compared(r, s) \/ Compared(s, r)

\* The unit that is about to be stored was checked against all of them.
Pending ==
    \A c \in Country : task[c].pc = "store" =>
        /\ task[c].level = 0 => "NotWithinParent" \in upload[c].errors
        /\ \A s \in InFile(task[c].level) :
             setting.inTurn \/ s.upload = c =>
               <<[upload |-> c, level |-> task[c].level, index |-> task[c].index], s>>
                 \in compared

\* Countries are never within the parent they do not have.
Orphaned == \A r \in rows : r.level = 0 /\ r.index > 0 => "NotWithinParent" \in Errors(r)

\* The file of the level is still open, or will never be closed.
Open(c, l) ==
    \/ task[c].pc \in {"read", "store"} /\ task[c].level = l
    \/ task[c].pc = "idle" /\ upload[c].status = "Processing"

\* A unit within one that was there when it was checked, or one of its own
\* upload, is reported when the file is closed.
Enclosed ==
    \A r, s \in rows :
        /\ r.level = s.level /\ r.level # 0 /\ r.index > 0 /\ s.index > 0
        /\ r.upload = s.upload \/ Compared(r, s)
        /\ Sound(UnitOf(r)) /\ Sound(UnitOf(s)) /\ Within(UnitOf(r), UnitOf(s))
        => "Within" \in Errors(r) \/ Open(r.upload, r.level)

IInv ==
    /\ Typed /\ Marked /\ Pairs /\ Covered /\ Pending /\ Orphaned /\ Enclosed
    /\ setting.inTurn => Turn

-----------------------------------------------------------------------------
(* What one comparison reports                                             *)

LEMMA UnitTyped ==
    ASSUME setting \in Setting, NEW l, NEW i \in DOMAIN Layer(l)
    PROVE  Layer(l)[i] \in Feature
<1>1. l \in DOMAIN setting.layers
  BY DEF Layer
<1>2. setting.layers[l] \in Seq(Feature)
  BY <1>1, ValidationAssumption
<1>3. QED
  BY <1>1, <1>2 DEF Layer

LEMMA LevelsTyped ==
    ASSUME setting \in Setting
    PROVE  DOMAIN setting.layers \subseteq Nat
BY ValidationAssumption

\* A unit whose geometry is read is reported if it clashes with a stored one.
LEMMA Checked ==
    ASSUME setting \in Setting, NEW c, NEW l, NEW i \in DOMAIN Layer(l),
           NEW doubt \in BOOLEAN, Parses(Layer(l)[i]), NEW s \in InFile(l)
    PROVE  Reported(setting, Layer(l)[i], UnitOf(s), ErrorsOf(c, l, i, doubt))
<1> DEFINE f == Layer(l)[i]
           g == UnitOf(s)
<1>1. ASSUME f.code = g.code
      PROVE  \/ "CodeMissing" \in AttributeErrors(c, l, f)
             \/ "DuplicatedCode" \in AttributeErrors(c, l, f)
  <2>1. CASE f.code = NoCode
    BY <2>1 DEF AttributeErrors, If
  <2>2. CASE f.code # NoCode
    <3>1. \E r \in InFile(l) : UnitOf(r).code = f.code
      BY <1>1
    <3>2. QED
      BY <2>2, <3>1 DEF AttributeErrors, If
  <2>3. QED
    BY <2>1, <2>2
<1>2. ASSUME Sound(f), Sound(g)
      PROVE  \/ Within(f, g) \/ Within(g, f)
             \/ /\ ~ f.place \subseteq g.place /\ ~ g.place \subseteq f.place
                /\ ~ CountsIn(setting, f.place \cap g.place)
             \/ "DuplicatedGeometry" \in GeometryErrors(l, f, doubt)
             \/ "Overlap" \in GeometryErrors(l, f, doubt)
  <2>1. g \in {UnitOf(r) : r \in InFile(l)}
    OBVIOUS
  <2>2. CASE f.place = g.place
    <3>1. \E h \in {UnitOf(r) : r \in InFile(l)} : Sound(h) /\ h.place = f.place
      BY <1>2, <2>1, <2>2
    <3>2. QED
      BY <1>2, <3>1 DEF GeometryErrors, If
  <2>3. CASE f.place # g.place /\ (f.place \subseteq g.place \/ g.place \subseteq f.place)
    BY <2>3 DEF Within
  <2>4. CASE Overlapping(f, g)
    <3>1. \E h \in {UnitOf(r) : r \in InFile(l)} :
            IF Sound(h) THEN Overlapping(f, h)
            ELSE doubt /\ Box(f.place) \cap Box(h.place) # {}
      BY <1>2, <2>1, <2>4
    <3>2. QED
      BY <1>2, <3>1 DEF GeometryErrors, If
  <2>5. Overlapping(f, g) <=> /\ ~ f.place \subseteq g.place /\ ~ g.place \subseteq f.place
                              /\ CountsIn(setting, f.place \cap g.place)
    BY DEF Overlapping, Counts, CountsIn
  <2>6. QED
    BY <2>2, <2>3, <2>4, <2>5
<1>3. /\ AttributeErrors(c, l, f) \subseteq ErrorsOf(c, l, i, doubt)
      /\ GeometryErrors(l, f, doubt) \subseteq ErrorsOf(c, l, i, doubt)
  BY DEF ErrorsOf
<1>4. QED
  BY <1>1, <1>2, <1>3 DEF Reported

\* More errors report no less.
LEMMA ReportedMore ==
    ASSUME NEW p, NEW f, NEW g, NEW E, NEW F, E \subseteq F, Reported(p, f, g, E)
    PROVE  Reported(p, f, g, F)
BY DEF Reported

\* Errors have a name.
LEMMA ErrorsTyped ==
    ASSUME NEW c, NEW l, NEW i, NEW doubt
    PROVE  ErrorsOf(c, l, i, doubt) \subseteq ErrorType
<1> DEFINE f == Layer(l)[i]
<1>1. AttributeErrors(c, l, f) \subseteq ErrorType
  BY DEF AttributeErrors, If, ErrorType, Flaw, Relational
<1>2. GeometryErrors(l, f, doubt) \subseteq ErrorType
  BY DEF GeometryErrors, If, ErrorType, Flaw, Relational
<1>3. HierarchyErrors(l, f, Parents(c, l, i)) \subseteq ErrorType
  BY DEF HierarchyErrors, If, ErrorType, Flaw, Relational
<1>4. {"Degenerate"} \subseteq ErrorType
  BY DEF ErrorType, Flaw
<1>5. QED
  BY <1>1, <1>2, <1>3, <1>4 DEF ErrorsOf

-----------------------------------------------------------------------------
(* Steps                                                                   *)

LEMMA InitHolds == Init => IInv
<1> SUFFICES ASSUME Init
             PROVE  IInv
  OBVIOUS
<1> USE DEF Init
<1>1. Typed
  BY DEF Typed, Row, Task, Blank, Idle, UploadStatus
<1>2. Marked /\ Turn
  BY DEF Marked, Turn, Blank, Idle
<1>3. Pairs /\ Covered /\ Pending /\ Orphaned /\ Enclosed
  BY DEF Pairs, Covered, Pending, Orphaned, Enclosed, Idle
<1>4. QED
  BY <1>1, <1>2, <1>3 DEF IInv

\* The files stay.
LEMMA SameUnits ==
    ASSUME setting' = setting
    PROVE  /\ \A l : Layer(l)' = Layer(l)
           /\ \A r : UnitOf(r)' = UnitOf(r)
BY DEF Layer, UnitOf

LEMMA StutterHolds ==
    ASSUME IInv, UNCHANGED <<setting, upload, task, rows, compared>>
    PROVE  IInv'
<1>1. Typed' /\ Marked' /\ (Turn => Turn')
  BY DEF IInv, Typed, Marked, Turn
<1>2. \A l : InFile(l)' = InFile(l)
  BY DEF InFile
<1>3. Pending'
  BY <1>2 DEF IInv, Pending
<1>4. Pairs' /\ Covered'
  BY SameUnits DEF IInv, Pairs, Covered, Ordered, Compared
<1>5. Orphaned' /\ Enclosed'
  BY SameUnits DEF IInv, Orphaned, Enclosed, Errors, Open, Compared
<1>6. QED
  BY <1>1, <1>3, <1>4, <1>5 DEF IInv

\* A validation that is asked for, or taken back, starts from nothing.
LEMMA BlankHolds ==
    ASSUME IInv, setting' = setting, task' = task, rows' = {}, compared' = {},
           upload' \in [Country -> Row],
           \A c \in Country : /\ task[c].pc = "idle"
                              /\ upload'[c].status \in {"", "Started"}
    PROVE  IInv'
<1>1. Typed' /\ Marked' /\ Turn'
  BY DEF IInv, Typed, Marked, Turn
<1>2. Pairs' /\ Covered' /\ Pending' /\ Orphaned' /\ Enclosed'
  BY DEF Pairs, Covered, Pending, Orphaned, Enclosed
<1>3. QED
  BY <1>1, <1>2 DEF IInv

LEMMA ValidateHolds ==
    ASSUME IInv, setting' = setting, NEW C, Validate(C)
    PROVE  IInv'
<1>1. rows = {} /\ compared = {} /\ \A c \in Country : task[c].pc = "idle"
  BY DEF IInv, Typed, Marked, Pairs, Validate
<1>2. PICK level \in [C -> DOMAIN setting.layers] :
        upload' = [c \in Country |-> IF c \in C
                     THEN [Blank EXCEPT !.status = "Started", !.max = level[c]]
                     ELSE Blank]
  BY DEF Validate
<1>3. \A c \in C : level[c] \in Nat
  BY LevelsTyped DEF IInv, Typed
<1>4. /\ upload' \in [Country -> Row]
      /\ \A c \in Country : upload'[c].status \in {"", "Started"}
  BY <1>2, <1>3 DEF Row, Blank, UploadStatus
<1>5. QED
  BY <1>1, <1>4, BlankHolds DEF Validate

LEMMA ResetHolds ==
    ASSUME IInv, setting' = setting, Reset
    PROVE  IInv'
<1>1. \A c \in Country : task[c].pc = "idle"
  BY DEF Reset, AtWork
<1>2. /\ upload' \in [Country -> Row]
      /\ \A c \in Country : upload'[c].status \in {"", "Started"}
  BY DEF Reset, Row, Blank, UploadStatus
<1>3. QED
  BY <1>1, <1>2, BlankHolds DEF Reset

-----------------------------------------------------------------------------
(* Steps of a task                                                         *)

\* Errors are added and no unit is: what is known of pairs stays known.
LEMMA PairsKept ==
    ASSUME Typed, Pairs, setting' = setting, compared' = compared, rows \subseteq rows',
           \A c \in Country : upload[c].errors \subseteq upload'[c].errors
    PROVE  Pairs'
<1> SUFFICES ASSUME NEW p \in compared
             PROVE  /\ p[2] \in rows' /\ p[1].upload \in Country
                    /\ Reported(setting, Layer(p[1].level)[p[1].index], UnitOf(p[2]),
                                upload'[p[1].upload].errors)
  BY SameUnits DEF Pairs
<1>1. /\ p[2] \in rows /\ p[1].upload \in Country
      /\ Reported(setting, Layer(p[1].level)[p[1].index], UnitOf(p[2]),
                  upload[p[1].upload].errors)
  BY DEF Pairs
<1>2. QED
  BY <1>1, ReportedMore

LEMMA CoveredKept ==
    ASSUME Covered, setting' = setting,
           \A r \in rows' : r.index > 0 => r \in rows,
           \A r, s \in rows' : r \in rows /\ s \in rows /\ Compared(r, s) => Compared(r, s)'
    PROVE  Covered'
BY DEF Covered, Ordered

LEMMA OrphanedKept ==
    ASSUME Typed, Orphaned,
           \A c \in Country : upload[c].errors \subseteq upload'[c].errors,
           \A r \in rows' : r.index > 0 => r \in rows
    PROVE  Orphaned'
<1>1. \A r \in rows : Errors(r) \subseteq Errors(r)'
  BY DEF Errors, Typed
<1>2. QED
  BY <1>1 DEF Orphaned

\* ... and while no file is closed, so does what is known of units that enclose
\* each other.
LEMMA EnclosedKept ==
    ASSUME Typed, Enclosed, setting' = setting,
           \A c \in Country : upload[c].errors \subseteq upload'[c].errors,
           \A r \in rows' : r.index > 0 => r \in rows,
           \A r, s \in rows' : /\ r \in rows /\ s \in rows /\ Compared(r, s)'
                               => Compared(r, s) \/ Open(r.upload, r.level)',
           \A c \in Country : \A l : Open(c, l) => Open(c, l)'
    PROVE  Enclosed'
<1> SUFFICES ASSUME NEW r \in rows', NEW s \in rows',
                    r.level = s.level, r.level # 0, r.index > 0, s.index > 0,
                    r.upload = s.upload \/ Compared(r, s)',
                    Sound(UnitOf(r)), Sound(UnitOf(s)), Within(UnitOf(r), UnitOf(s))
             PROVE  "Within" \in upload'[r.upload].errors \/ Open(r.upload, r.level)'
  BY SameUnits DEF Enclosed, Errors
<1>1. r \in rows /\ s \in rows /\ r.upload \in Country
  BY DEF Typed
<1>2. CASE Open(r.upload, r.level)'
  BY <1>2
<1>3. CASE r.upload = s.upload \/ Compared(r, s)
  <2>1. "Within" \in upload[r.upload].errors \/ Open(r.upload, r.level)
    BY <1>1, <1>3 DEF Enclosed, Errors
  <2>2. QED
    BY <1>1, <2>1
<1>4. QED
  BY <1>1, <1>2, <1>3

LEMMA NextLevelTyped ==
    ASSUME Typed, NEW c \in Country, NEW l, NEW tree, NextLevel(c, l, tree)
    PROVE  /\ task' \in [Country -> Task] /\ task'[c].pc \in {"read", "verdict"}
           /\ \A d \in Country \ {c} : task'[d] = task[d]
<1>1. CASE \E k \in LevelsOf(c) :
             task' = [task EXCEPT ![c] = [pc |-> "read", level |-> k, index |-> 0]]
  <2>1. PICK k \in LevelsOf(c) :
          task' = [task EXCEPT ![c] = [pc |-> "read", level |-> k, index |-> 0]]
    BY <1>1
  <2>2. k \in Nat
    BY LevelsTyped DEF Typed, LevelsOf
  <2>3. [pc |-> "read", level |-> k, index |-> 0] \in Task
    BY <2>2 DEF Task
  <2>4. QED
    BY <2>1, <2>3 DEF Typed
<1>2. CASE task' = [task EXCEPT ![c] = [Idle EXCEPT !.pc = "verdict"]]
  BY <1>2 DEF Typed, Task, Idle
<1>3. QED
  BY <1>1, <1>2 DEF NextLevel

\* A step of the task of c that leaves "store" and stores nothing keeps what is
\* known of the other tasks.
LEMMA PendingKept ==
    ASSUME Typed, Pending, setting' = setting, NEW c \in Country,
           \A r \in rows' : r.index > 0 => r \in rows,
           \A d \in Country \ {c} : task'[d] = task[d] /\ upload'[d] = upload[d],
           \A p \in compared : p[2] \in rows' => p \in compared',
           task'[c].pc # "store"
    PROVE  Pending'
<1> SUFFICES ASSUME NEW d \in Country, task'[d].pc = "store"
             PROVE  /\ task'[d].level = 0 => "NotWithinParent" \in upload'[d].errors
                    /\ \A s \in InFile(task[d].level)' :
                         setting.inTurn \/ s.upload = d =>
                           <<[upload |-> d, level |-> task'[d].level,
                              index |-> task'[d].index], s>> \in compared'
  BY DEF Pending
<1>1. d # c /\ task'[d] = task[d] /\ upload'[d] = upload[d]
  OBVIOUS
<1>2. \A s \in InFile(task[d].level)' : s \in InFile(task[d].level) /\ s \in rows'
  BY <1>1 DEF InFile
<1>3. ASSUME NEW s \in InFile(task[d].level)', setting.inTurn \/ s.upload = d
      PROVE  <<[upload |-> d, level |-> task'[d].level,
                index |-> task'[d].index], s>> \in compared'
  <2> DEFINE p == <<[upload |-> d, level |-> task[d].level, index |-> task[d].index], s>>
  <2>1. p \in compared /\ p[2] \in rows'
    BY <1>1, <1>2, <1>3 DEF Pending
  <2>2. QED
    BY <1>1, <2>1
<1>4. QED
  BY <1>1, <1>3 DEF Pending

LEMMA BeginHolds ==
    ASSUME IInv, setting' = setting, NEW c \in Country, Begin(c)
    PROVE  IInv'
<1> USE DEF IInv
<1>1. /\ upload[c].status = "Started" /\ task[c].pc = "idle"
      /\ upload' = [upload EXCEPT ![c].status = "Processing"]
      /\ compared' = compared /\ rows \subseteq rows'
  BY DEF Begin, Marked
<1>2. /\ task' \in [Country -> Task] /\ task'[c].pc \in {"read", "verdict"}
      /\ \A d \in Country \ {c} : task'[d] = task[d]
  <2>1. \E tree : NextLevel(c, -1, tree)
    BY DEF Begin
  <2>2. QED
    BY <2>1, NextLevelTyped
<1>3. \A r \in rows' : \/ r \in rows
                       \/ r.index = 0 /\ r.upload = c
  BY DEF Begin, Clone
<1>4. /\ upload' \in [Country -> Row]
      /\ \A d \in Country : /\ upload'[d].errors = upload[d].errors
                            /\ d # c => upload'[d] = upload[d]
      /\ upload'[c].status = "Processing"
  BY <1>1 DEF Typed, Row, UploadStatus
<1>5. Typed' /\ Marked'
  <2>1. Typed'
    BY <1>2, <1>3, <1>4 DEF Typed
  <2>2. Marked'
    BY <1>2, <1>4 DEF Marked
  <2>3. QED
    BY <2>1, <2>2
<1>6. setting.inTurn => Turn'
  <2>1. setting.inTurn => \A d \in Country : task[d].pc = "idle"
    BY DEF Begin
  <2>2. QED
    BY <1>2, <2>1 DEF Turn
<1>7. Pairs'
  BY <1>1, <1>4, PairsKept
<1>8. \A r \in rows' : r.index > 0 => r \in rows
  BY <1>3
<1>9. \A r, s : Compared(r, s)' <=> Compared(r, s)
  BY <1>1 DEF Compared
<1>10. Covered' /\ Orphaned'
  BY <1>4, <1>8, <1>9, CoveredKept, OrphanedKept
<1>11. Pending'
  BY <1>1, <1>2, <1>4, <1>8, PendingKept
<1>12. Enclosed'
  <2>1. \A d \in Country : \A l : Open(d, l) => Open(d, l)'
    BY <1>1, <1>2, <1>4 DEF Open
  <2>2. QED
    BY <1>4, <1>8, <1>9, <2>1, EnclosedKept
<1>13. QED
  BY <1>5, <1>6, <1>7, <1>10, <1>11, <1>12

LEMMA CheckUnitHolds ==
    ASSUME IInv, setting' = setting, NEW c \in Country, NEW i, NEW doubt \in BOOLEAN,
           CheckUnit(c, i, doubt)
    PROVE  IInv'
<1> DEFINE l == task[c].level
           E == ErrorsOf(c, l, i, doubt)
           unit == [upload |-> c, level |-> l, index |-> i]
<1> USE DEF IInv
<1>1. /\ task[c].pc = "read" /\ upload[c].status = "Processing"
      /\ i \in DOMAIN Layer(l)
      /\ upload' = [upload EXCEPT ![c].errors = @ \cup E]
      /\ rows' \subseteq rows
      /\ task' = [task EXCEPT ![c].index = i,
                              ![c].pc = IF Parses(Layer(l)[i]) THEN "store" ELSE "read"]
  BY DEF CheckUnit, Left, Marked
<1>2. i \in Nat
  <2>1. l \in DOMAIN setting.layers
    BY <1>1 DEF Layer
  <2>2. setting.layers[l] \in Seq(Feature)
    BY <2>1, ValidationAssumption DEF Typed
  <2>3. QED
    BY <1>1, <2>1, <2>2 DEF Layer
<1>3. /\ upload' \in [Country -> Row]
      /\ upload'[c].status = "Processing" /\ upload'[c].errors = upload[c].errors \cup E
      /\ \A d \in Country \ {c} : upload'[d] = upload[d]
  <2>1. E \subseteq ErrorType
    BY ErrorsTyped
  <2>2. QED
    BY <1>1, <2>1 DEF Typed, Row
<1>4. /\ task' \in [Country -> Task]
      /\ task'[c].level = l /\ task'[c].index = i
      /\ task'[c].pc = IF Parses(Layer(l)[i]) THEN "store" ELSE "read"
      /\ \A d \in Country \ {c} : task'[d] = task[d]
  BY <1>1, <1>2 DEF Typed, Task
<1>5. compared' = {p \in compared : p[2] \in rows'}
                  \cup {<<unit, s>> : s \in {r \in InFile(l) \cap rows' : Parses(Layer(l)[i])}}
  BY DEF CheckUnit
<1>6. Typed' /\ Marked'
  <2>1. Typed'
    BY <1>1, <1>3, <1>4 DEF Typed
  <2>2. Marked'
    BY <1>1, <1>3, <1>4 DEF Marked
  <2>3. QED
    BY <2>1, <2>2
<1>7. setting.inTurn => Turn'
  BY <1>1, <1>4 DEF Turn
<1>8. Pairs'
  <2> SUFFICES ASSUME NEW p \in compared'
               PROVE  /\ p[2] \in rows' /\ p[1].upload \in Country
                      /\ Reported(setting, Layer(p[1].level)[p[1].index], UnitOf(p[2]),
                                  upload'[p[1].upload].errors)
    BY SameUnits DEF Pairs
  <2>1. CASE p \in compared /\ p[2] \in rows'
    <3>1. /\ p[1].upload \in Country
          /\ Reported(setting, Layer(p[1].level)[p[1].index], UnitOf(p[2]),
                      upload[p[1].upload].errors)
      BY <2>1 DEF Pairs
    <3>2. upload[p[1].upload].errors \subseteq upload'[p[1].upload].errors
      BY <1>3, <3>1
    <3>3. QED
      BY <2>1, <3>1, <3>2, ReportedMore
  <2>2. ASSUME NEW s \in InFile(l) \cap rows', Parses(Layer(l)[i]), p = <<unit, s>>
        PROVE  /\ p[2] \in rows' /\ p[1].upload \in Country
               /\ Reported(setting, Layer(p[1].level)[p[1].index], UnitOf(p[2]),
                           upload'[p[1].upload].errors)
    <3>1. Reported(setting, Layer(l)[i], UnitOf(s), E)
      BY <1>1, <2>2, Checked DEF Typed
    <3>2. Reported(setting, Layer(l)[i], UnitOf(s), upload'[c].errors)
      BY <1>3, <3>1, ReportedMore
    <3>3. /\ p[2] = s /\ p[1].upload = c /\ p[1].level = l /\ p[1].index = i
      BY <2>2
    <3>4. QED
      BY <2>2, <3>2, <3>3
  <2>3. QED
    BY <1>5, <2>1, <2>2
<1>9. \A r, s \in rows' : Compared(r, s) => Compared(r, s)'
  <2> SUFFICES ASSUME NEW r \in rows', NEW s \in rows', <<Name(r), s>> \in compared
               PROVE  <<Name(r), s>> \in compared'
    BY DEF Compared, Name
  <2>1. <<Name(r), s>>[2] = s
    OBVIOUS
  <2>2. QED
    BY <1>5, <2>1
<1>10. Covered' /\ Orphaned'
  <2>1. \A r \in rows' : r.index > 0 => r \in rows
    BY <1>1
  <2>2. \A d \in Country : upload[d].errors \subseteq upload'[d].errors
    BY <1>3
  <2>3. QED
    BY <1>9, <2>1, <2>2, CoveredKept, OrphanedKept
<1>11. Pending'
  <2> SUFFICES ASSUME NEW d \in Country, task'[d].pc = "store"
               PROVE  /\ task'[d].level = 0 => "NotWithinParent" \in upload'[d].errors
                      /\ \A s \in InFile(task[d].level)' :
                           setting.inTurn \/ s.upload = d =>
                             <<[upload |-> d, level |-> task'[d].level,
                                index |-> task'[d].index], s>> \in compared'
    BY DEF Pending
  <2>1. CASE d = c
    <3>1. Parses(Layer(l)[i])
      BY <1>4, <2>1
    <3>2. l = 0 => "NotWithinParent" \in upload'[c].errors
      BY <1>3, <3>1 DEF ErrorsOf, HierarchyErrors, If
    <3>3. ASSUME NEW s \in InFile(l)'
          PROVE  <<unit, s>> \in compared'
      <4>1. s \in InFile(l) \cap rows'
        BY <1>1, <1>4, <3>3 DEF InFile
      <4>2. QED
        BY <1>5, <3>1, <4>1
    <3>4. QED
      BY <1>4, <2>1, <3>2, <3>3
  <2>2. CASE d # c
    <3>1. task'[d] = task[d] /\ upload'[d] = upload[d]
      BY <1>3, <1>4, <2>2
    <3>2. ASSUME NEW s \in InFile(task[d].level)', setting.inTurn \/ s.upload = d
          PROVE  <<[upload |-> d, level |-> task'[d].level,
                    index |-> task'[d].index], s>> \in compared'
      <4> DEFINE p == <<[upload |-> d, level |-> task[d].level, index |-> task[d].index], s>>
      <4>1. s \in InFile(task[d].level) /\ s \in rows'
        BY <1>1, <3>1, <3>2 DEF InFile
      <4>2. p \in compared /\ p[2] \in rows'
        BY <3>1, <3>2, <4>1 DEF Pending
      <4>3. QED
        BY <1>5, <3>1, <4>2
    <3>3. task'[d].level = 0 => "NotWithinParent" \in upload'[d].errors
      BY <3>1 DEF Pending
    <3>4. QED
      BY <3>2, <3>3
  <2>3. QED
    BY <2>1, <2>2
<1>12. Enclosed'
  <2>1. task'[c].pc \in {"read", "store"}
    BY <1>4
  <2>2. \A d \in Country : \A k : Open(d, k) => Open(d, k)'
    BY <1>1, <1>3, <1>4, <2>1 DEF Open
  <2>3. ASSUME NEW r \in rows', NEW s \in rows', Compared(r, s)'
        PROVE  Compared(r, s) \/ Open(r.upload, r.level)'
    <3>1. <<Name(r), s>> \in compared'
      BY <2>3 DEF Compared, Name
    <3>2. CASE <<Name(r), s>> \in compared
      BY <3>2 DEF Compared
    <3>3. CASE \E t : <<Name(r), s>> = <<unit, t>>
      <4>1. Name(r) = unit
        BY <3>3
      <4>2. r.upload = c /\ r.level = l
        BY <4>1 DEF Name
      <4>3. QED
        BY <1>4, <2>1, <4>2 DEF Open
    <3>4. QED
      BY <1>5, <3>1, <3>2, <3>3
  <2>4. \A d \in Country : upload[d].errors \subseteq upload'[d].errors
    BY <1>3
  <2>5. \A r \in rows' : r.index > 0 => r \in rows
    BY <1>1
  <2>6. QED
    BY <2>2, <2>3, <2>4, <2>5, EnclosedKept
<1>13. QED
  BY <1>6, <1>7, <1>8, <1>10, <1>11, <1>12

LEMMA TypeFailsHolds ==
    ASSUME IInv, setting' = setting, NEW c \in Country, TypeFails(c)
    PROVE  IInv'
<1> USE DEF IInv
<1>1. /\ task[c].pc = "store" /\ upload[c].status = "Processing"
      /\ task' = [task EXCEPT ![c] = Idle]
      /\ upload' = upload /\ rows' = rows /\ compared' = compared
  BY DEF TypeFails, Marked
<1>2. /\ task' \in [Country -> Task] /\ task'[c].pc = "idle"
      /\ \A d \in Country \ {c} : task'[d] = task[d]
  BY <1>1 DEF Typed, Task, Idle
<1>3. Typed' /\ Marked' /\ (setting.inTurn => Turn')
  <2>1. Typed' /\ Marked'
    BY <1>1, <1>2 DEF Typed, Marked
  <2>2. QED
    BY <1>1, <1>2, <2>1 DEF Turn
<1>4. Pairs'
  BY <1>1, PairsKept
<1>5. \A r, s : Compared(r, s)' <=> Compared(r, s)
  BY <1>1 DEF Compared
<1>6. Covered' /\ Orphaned'
  BY <1>1, <1>5, CoveredKept, OrphanedKept
<1>7. Pending'
  BY <1>1, <1>2, PendingKept
<1>8. Enclosed'
  <2>1. \A d \in Country : \A l : Open(d, l) => Open(d, l)'
    BY <1>1, <1>2 DEF Open
  <2>2. QED
    BY <1>1, <1>5, <2>1, EnclosedKept
<1>9. QED
  BY <1>3, <1>4, <1>6, <1>7, <1>8

LEMMA StoreUnitHolds ==
    ASSUME IInv, setting' = setting, NEW c \in Country, StoreUnit(c)
    PROVE  IInv'
<1> DEFINE l == task[c].level
           f == Layer(l)[task[c].index]
<1> USE DEF IInv
<1>1. PICK n : /\ rows' = rows \cup {n}
               /\ n.upload = c /\ n.level = l /\ n.index = task[c].index
  <2> DEFINE P == Parents(c, l, task[c].index)
             m == [upload |-> c, level |-> l, index |-> task[c].index,
                   parent |-> IF P = {} THEN 0 ELSE Newest(P).index]
  <2>1. rows' = rows \cup {m}
    BY DEF StoreUnit
  <2>2. m.upload = c /\ m.level = l /\ m.index = task[c].index
    OBVIOUS
  <2>3. QED
    BY <2>1, <2>2
<1>2. /\ task[c].pc = "store" /\ upload[c].status = "Processing" /\ upload' = upload
      /\ task' = [task EXCEPT ![c].pc = "read"] /\ compared' = compared
  BY DEF StoreUnit, Marked
<1>3. /\ task' \in [Country -> Task] /\ task'[c].level = l /\ task'[c].pc = "read"
      /\ \A d \in Country \ {c} : task'[d] = task[d]
  BY <1>2 DEF Typed, Task
<1>4. Typed' /\ Marked' /\ (setting.inTurn => Turn')
  <2>1. Typed'
    BY <1>1, <1>2, <1>3 DEF Typed
  <2>2. Marked'
    BY <1>2, <1>3 DEF Marked
  <2>3. setting.inTurn => Turn'
    BY <1>2, <1>3 DEF Turn
  <2>4. QED
    BY <2>1, <2>2, <2>3
<1>5. Pairs'
  BY <1>1, <1>2, PairsKept
<1>6. \A r, s : Compared(r, s)' <=> Compared(r, s)
  BY <1>2 DEF Compared
<1>7. Covered'
  <2>1. ASSUME NEW s \in rows, s.level = l, s.index > 0, Ordered(n, s)
        PROVE  Compared(n, s)
    <3>1. s \in InFile(l) /\ (setting.inTurn \/ s.upload = c)
      BY <1>1, <2>1 DEF InFile, Ordered
    <3>2. <<[upload |-> c, level |-> l, index |-> task[c].index], s>> \in compared
      BY <1>2, <3>1 DEF Pending
    <3>3. QED
      BY <1>1, <3>2 DEF Compared, Name
  <2> SUFFICES ASSUME NEW r \in rows', NEW s \in rows',
                      r.level = s.level, r.index > 0, s.index > 0, r # s, Ordered(r, s)
               PROVE  Compared(r, s) \/ Compared(s, r)
    BY <1>6 DEF Covered, Ordered
  <2>2. Ordered(s, r)
    BY DEF Ordered
  <2>3. CASE r \in rows /\ s \in rows
    BY <2>3 DEF Covered
  <2>4. CASE r = n /\ s \in rows
    BY <1>1, <2>1, <2>4
  <2>5. CASE s = n /\ r \in rows
    BY <1>1, <2>1, <2>2, <2>5
  <2>6. QED
    BY <1>1, <2>3, <2>4, <2>5
<1>8. Pending'
  <2> SUFFICES ASSUME NEW d \in Country, task'[d].pc = "store"
               PROVE  /\ task'[d].level = 0 => "NotWithinParent" \in upload'[d].errors
                      /\ \A s \in InFile(task[d].level)' :
                           setting.inTurn \/ s.upload = d =>
                             <<[upload |-> d, level |-> task'[d].level,
                                index |-> task'[d].index], s>> \in compared'
    BY DEF Pending
  <2>1. d # c /\ task'[d] = task[d]
    BY <1>3
  <2>2. ~ setting.inTurn
    BY <1>2, <2>1 DEF Turn
  <2>3. ASSUME NEW s \in InFile(task[d].level)', s.upload = d
        PROVE  s \in InFile(task[d].level)
    BY <1>1, <2>1, <2>3 DEF InFile
  <2>4. QED
    BY <1>2, <2>1, <2>2, <2>3 DEF Pending
<1>9. Orphaned'
  BY <1>1, <1>2 DEF Orphaned, Pending, Errors
<1>10. Enclosed'
  <2> SUFFICES ASSUME NEW r \in rows', NEW s \in rows',
                      r.level = s.level, r.level # 0, r.index > 0, s.index > 0,
                      r.upload = s.upload \/ Compared(r, s),
                      Sound(UnitOf(r)), Sound(UnitOf(s)), Within(UnitOf(r), UnitOf(s))
               PROVE  "Within" \in upload[r.upload].errors \/ Open(r.upload, r.level)'
    BY <1>2, <1>6, SameUnits DEF Enclosed, Errors
  <2>1. CASE r.upload = c /\ r.level = l
    BY <1>3, <2>1 DEF Open
  <2>2. CASE r \in rows /\ s \in rows
    <3>1. "Within" \in upload[r.upload].errors \/ Open(r.upload, r.level)
      BY <2>2 DEF Enclosed, Errors
    <3>2. r.upload \in Country
      BY <2>2 DEF Typed
    <3>3. Open(r.upload, r.level) => Open(r.upload, r.level)'
      BY <1>2, <1>3, <3>2 DEF Open
    <3>4. QED
      BY <3>1, <3>3
  <2>3. CASE s \notin rows
    <3>1. s = n
      BY <1>1, <2>3
    <3>2. ~ Compared(r, s)
      <4>1. ASSUME <<Name(r), s>> \in compared
            PROVE  FALSE
        <5>1. <<Name(r), s>>[2] \in rows
          BY <4>1 DEF Pairs
        <5>2. QED
          BY <2>3, <5>1
      <4>2. QED
        BY <4>1 DEF Compared
    <3>3. QED
      BY <1>1, <2>1, <3>1, <3>2
  <2>4. QED
    BY <1>1, <2>1, <2>2, <2>3
<1>11. QED
  BY <1>4, <1>5, <1>7, <1>8, <1>9, <1>10

LEMMA CloseLevelHolds ==
    ASSUME IInv, setting' = setting, NEW c \in Country, CloseLevel(c)
    PROVE  IInv'
<1> DEFINE l == task[c].level
           E == If(l > 0 /\ WithinOthers(c, l) # {}, "Within")
<1> USE DEF IInv
<1>1. /\ task[c].pc = "read" /\ upload[c].status = "Processing" /\ rows' = rows
      /\ upload' = [upload EXCEPT ![c].errors = @ \cup E] /\ compared' = compared
  BY DEF CloseLevel, Marked
<1>2. /\ upload' \in [Country -> Row]
      /\ upload'[c].status = "Processing" /\ upload'[c].errors = upload[c].errors \cup E
      /\ \A d \in Country \ {c} : upload'[d] = upload[d]
  <2>1. E \subseteq ErrorType
    BY DEF If, ErrorType, Relational
  <2>2. QED
    BY <1>1, <2>1 DEF Typed, Row
<1>3. /\ task' \in [Country -> Task] /\ task'[c].pc \in {"read", "verdict"}
      /\ \A d \in Country \ {c} : task'[d] = task[d]
  <2>1. \E k, tree : NextLevel(c, k, tree)
    BY DEF CloseLevel
  <2>2. QED
    BY <2>1, NextLevelTyped
<1>4. Typed' /\ Marked' /\ (setting.inTurn => Turn')
  <2>1. Typed'
    BY <1>1, <1>2, <1>3 DEF Typed
  <2>2. Marked'
    BY <1>2, <1>3 DEF Marked
  <2>3. setting.inTurn => Turn'
    BY <1>1, <1>3 DEF Turn
  <2>4. QED
    BY <2>1, <2>2, <2>3
<1>5. \A d \in Country : upload[d].errors \subseteq upload'[d].errors
  BY <1>2
<1>6. \A r, s : Compared(r, s)' <=> Compared(r, s)
  BY <1>1 DEF Compared
<1>7. Pairs' /\ Covered' /\ Orphaned'
  BY <1>1, <1>5, <1>6, PairsKept, CoveredKept, OrphanedKept
<1>8. Pending'
  BY <1>1, <1>2, <1>3, PendingKept
<1>9. Enclosed'
  <2> SUFFICES ASSUME NEW r \in rows, NEW s \in rows,
                      r.level = s.level, r.level # 0, r.index > 0, s.index > 0,
                      r.upload = s.upload \/ Compared(r, s),
                      Sound(UnitOf(r)), Sound(UnitOf(s)), Within(UnitOf(r), UnitOf(s))
               PROVE  "Within" \in upload'[r.upload].errors \/ Open(r.upload, r.level)'
    BY <1>1, <1>6, SameUnits DEF Enclosed, Errors
  <2>1. r.upload \in Country
    BY DEF Typed
  <2>2. "Within" \in upload[r.upload].errors \/ Open(r.upload, r.level)
    BY DEF Enclosed, Errors
  <2>3. CASE r.upload = c /\ r.level = l
    <3>1. r \in WithinOthers(c, l)
      BY <2>3 DEF WithinOthers, InFile
    <3>2. l > 0
      <4>1. task[c] \in Task
        BY DEF Typed
      <4>2. l \in Nat
        BY <4>1 DEF Task
      <4>3. QED
        BY <2>3, <4>2
    <3>3. "Within" \in E
      BY <3>1, <3>2 DEF If
    <3>4. QED
      BY <1>2, <2>3, <3>3
  <2>4. CASE r.upload = c /\ r.level # l
    <3>1. ~ Open(r.upload, r.level)
      BY <1>1, <2>4 DEF Open
    <3>2. QED
      BY <1>5, <2>1, <2>2, <3>1
  <2>5. CASE r.upload # c
    BY <1>2, <1>3, <2>1, <2>2, <2>5 DEF Open
  <2>6. QED
    BY <2>3, <2>4, <2>5
<1>10. QED
  BY <1>4, <1>7, <1>8, <1>9

LEMMA FinishHolds ==
    ASSUME IInv, setting' = setting, NEW c \in Country, Finish(c)
    PROVE  IInv'
<1> DEFINE E == upload[c].errors \cup If(~ Known(c) /\ TreeOf(c) = {}, "CodeMissing")
<1> USE DEF IInv
<1>1. /\ task[c].pc = "verdict" /\ upload[c].status = "Processing" /\ rows' = rows
      /\ upload' = [upload EXCEPT ![c].errors = E,
                                  ![c].status = IF E = {} THEN "Valid" ELSE "Error"]
      /\ task' = [task EXCEPT ![c] = Idle] /\ compared' = compared
  BY DEF Finish, Marked
<1>2. /\ upload' \in [Country -> Row]
      /\ upload'[c].errors = E /\ upload'[c].status = IF E = {} THEN "Valid" ELSE "Error"
      /\ \A d \in Country \ {c} : upload'[d] = upload[d]
  <2>1. E \subseteq ErrorType
    BY DEF Typed, Row, If, ErrorType, Relational
  <2>2. QED
    BY <1>1, <2>1, ZenonT(40) DEF Typed, Row, UploadStatus
<1>3. /\ task' \in [Country -> Task] /\ task'[c].pc = "idle"
      /\ \A d \in Country \ {c} : task'[d] = task[d]
  BY <1>1 DEF Typed, Task, Idle
<1>4. Typed' /\ Marked' /\ (setting.inTurn => Turn')
  <2>1. Typed'
    <3>1. upload'[c].status # ""
      BY <1>2
    <3>2. QED
      BY <1>1, <1>2, <1>3, <3>1 DEF Typed
  <2>2. Marked'
    BY <1>2, <1>3 DEF Marked
  <2>3. setting.inTurn => Turn'
    BY <1>1, <1>3 DEF Turn
  <2>4. QED
    BY <2>1, <2>2, <2>3
<1>5. \A d \in Country : upload[d].errors \subseteq upload'[d].errors
  BY <1>2
<1>6. \A r, s : Compared(r, s)' <=> Compared(r, s)
  BY <1>1 DEF Compared
<1>7. Pairs' /\ Covered' /\ Orphaned'
  BY <1>1, <1>5, <1>6, PairsKept, CoveredKept, OrphanedKept
<1>8. Pending'
  BY <1>1, <1>2, <1>3, PendingKept
<1>9. Enclosed'
  <2>1. \A d \in Country : \A l : Open(d, l) => Open(d, l)'
    BY <1>1, <1>2, <1>3 DEF Open
  <2>2. QED
    BY <1>1, <1>5, <1>6, <2>1, EnclosedKept
<1>10. QED
  BY <1>4, <1>7, <1>8, <1>9

LEMMA NextHolds == IInv /\ [Next]_<<vars, setting>> => IInv'
<1> SUFFICES ASSUME IInv, [Next]_<<vars, setting>>
             PROVE  IInv'
  OBVIOUS
<1>1. CASE UNCHANGED <<vars, setting>>
  BY <1>1, StutterHolds DEF vars
<1>2. ASSUME setting' = setting, Preprocess \/ PrepareValidation
      PROVE  IInv'
  BY <1>2, StutterHolds DEF Preprocess, PrepareValidation
<1>3. ASSUME setting' = setting, NEW C, Validate(C)
      PROVE  IInv'
  BY <1>3, ValidateHolds
<1>4. ASSUME setting' = setting, Reset
      PROVE  IInv'
  BY <1>4, ResetHolds
<1>5. ASSUME setting' = setting, NEW c \in Country, TaskStep(c)
      PROVE  IInv'
  BY <1>5, BeginHolds, CheckUnitHolds, TypeFailsHolds, StoreUnitHolds, CloseLevelHolds,
     FinishHolds DEF TaskStep
<1>6. QED
  BY <1>1, <1>2, <1>3, <1>4, <1>5 DEF Next

-----------------------------------------------------------------------------
(* The theorem                                                             *)

\* What may be imported has no error that blocks it, and its task ended.
LEMMA OfferedClean ==
    ASSUME IInv, NEW r \in rows, Offered(r)
    PROVE  Errors(r) \subseteq Allowable /\ \A l : ~ Open(r.upload, l)
<1>1. r.upload \in Country /\ upload[r.upload].status \in {"Valid", "Error"}
  BY DEF IInv, Typed, Offered, Importable
<1>2. \A l : ~ Open(r.upload, l)
  BY <1>1 DEF IInv, Marked, Open
<1>3. Errors(r) \subseteq Allowable
  BY <1>1 DEF IInv, Marked, Offered, Importable, Errors
<1>4. QED
  BY <1>2, <1>3

LEMMA NothingTwiceFollows == IInv => NothingTwice
<1> SUFFICES ASSUME IInv, NEW l \in DOMAIN setting.layers,
                    NEW r \in InFile(l), NEW s \in InFile(l), r # s
             PROVE  /\ setting.inTurn \/ r.upload = s.upload
                         => Compared(r, s) \/ Compared(s, r)
                    /\ Compared(r, s) /\ Offered(r) =>
                         /\ UnitOf(r).code # UnitOf(s).code
                         /\ Sound(UnitOf(r)) /\ Sound(UnitOf(s)) =>
                              \/ r.upload # s.upload /\ Within(UnitOf(s), UnitOf(r))
                              \/ /\ ~ UnitOf(r).place \subseteq UnitOf(s).place
                                 /\ ~ UnitOf(s).place \subseteq UnitOf(r).place
                                 /\ ~ Counts(UnitOf(r).place \cap UnitOf(s).place)
  BY DEF NothingTwice
<1> USE DEF IInv
<1>1. /\ r \in rows /\ s \in rows /\ r.level = l /\ s.level = l
      /\ r.index > 0 /\ s.index > 0
  BY DEF InFile
<1>2. setting.inTurn \/ r.upload = s.upload => Compared(r, s) \/ Compared(s, r)
  BY <1>1 DEF Covered, Ordered
<1>3. ASSUME Compared(r, s), Offered(r)
      PROVE  /\ UnitOf(r).code # UnitOf(s).code
             /\ Sound(UnitOf(r)) /\ Sound(UnitOf(s)) =>
                  \/ r.upload # s.upload /\ Within(UnitOf(s), UnitOf(r))
                  \/ /\ ~ UnitOf(r).place \subseteq UnitOf(s).place
                     /\ ~ UnitOf(s).place \subseteq UnitOf(r).place
                     /\ ~ Counts(UnitOf(r).place \cap UnitOf(s).place)
  <2>1. Errors(r) \subseteq Allowable /\ ~ Open(r.upload, r.level)
    BY <1>1, <1>3, OfferedClean
  <2>2. \A e \in {"CodeMissing", "DuplicatedCode", "DuplicatedGeometry", "Overlap",
                  "Within", "NotWithinParent"} : e \notin Errors(r)
    BY <2>1 DEF Allowable
  <2>3. Reported(setting, UnitOf(r), UnitOf(s), Errors(r))
    <3> DEFINE p == <<Name(r), s>>
    <3>1. p \in compared /\ p[1] = Name(r) /\ p[2] = s
      BY <1>3 DEF Compared
    <3>2. Reported(setting, Layer(p[1].level)[p[1].index], UnitOf(p[2]),
                   upload[p[1].upload].errors)
      BY <3>1 DEF Pairs
    <3>3. /\ p[1].level = r.level /\ p[1].index = r.index /\ p[1].upload = r.upload
      BY <3>1 DEF Name
    <3>4. UnitOf(r) = Layer(r.level)[r.index]
      BY <1>1 DEF UnitOf
    <3>5. QED
      BY <3>1, <3>2, <3>3, <3>4 DEF Errors
  <2>4. UnitOf(r).code # UnitOf(s).code
    BY <2>2, <2>3 DEF Reported
  <2>5. ASSUME Sound(UnitOf(r)), Sound(UnitOf(s))
        PROVE  \/ r.upload # s.upload /\ Within(UnitOf(s), UnitOf(r))
               \/ /\ ~ UnitOf(r).place \subseteq UnitOf(s).place
                  /\ ~ UnitOf(s).place \subseteq UnitOf(r).place
                  /\ ~ Counts(UnitOf(r).place \cap UnitOf(s).place)
    <3>1. l # 0
      BY <1>1, <2>2 DEF Orphaned
    <3>2. ~ Within(UnitOf(r), UnitOf(s))
      BY <1>1, <1>3, <2>1, <2>2, <2>5, <3>1 DEF Enclosed
    <3>3. ASSUME Within(UnitOf(s), UnitOf(r))
          PROVE  r.upload # s.upload
      <4>1. SUFFICES ASSUME r.upload = s.upload
                     PROVE  FALSE
        OBVIOUS
      <4>2. Errors(s) = Errors(r) /\ ~ Open(s.upload, s.level)
        BY <1>1, <2>1, <4>1 DEF Errors
      <4>3. QED
        BY <1>1, <2>2, <2>5, <3>1, <3>3, <4>1, <4>2 DEF Enclosed
    <3>4. \A P : Counts(P) <=> CountsIn(setting, P)
      BY DEF Counts, CountsIn
    <3>5. QED
      BY <2>2, <2>3, <2>5, <3>2, <3>3, <3>4 DEF Reported
  <2>6. QED
    BY <2>4, <2>5
<1>4. QED
  BY <1>2, <1>3

\* However many files, countries and units there are, whatever overlaps count
\* and however the validations interleave: what a user may send to review
\* repeats no code and no ground of the units that were stored when it was
\* checked, except that it may enclose one of another upload; and of two units
\* of one upload, or of validations that follow each other, one was checked
\* when the other was stored.
THEOREM ImportedOnce == Spec => []NothingTwice
<1>1. Init => IInv
  BY InitHolds
<1>2. IInv /\ [Next]_<<vars, setting>> => IInv'
  BY NextHolds
<1>3. IInv => NothingTwice
  BY NothingTwiceFollows
<1>4. QED
  BY <1>1, <1>2, <1>3, PTL DEF Spec
-----------------------------------------------------------------------------
(* The tree of an upload, while it is built                                *)

Blocking == {"CodeMissing", "ParentMissing", "DuplicatedCode"}

\* No error that even a superuser cannot bypass was found so far.
Clean(c) == upload[c].errors \cap Blocking = {}

Stored(c, l, i) == {r \in TreeOf(c) : r.level = l /\ r.index = i}

\* A unit was stored below its parent if it should be; if not, it is known why.
Right(c, l, i) ==
    LET f == Layer(l)[i]
    IN  /\ Stored(c, l, i) # {} <=> Parses(f) /\ Included(c, l, i)
        /\ l > 0 => \A r \in Stored(c, l, i) :
                      \E p \in Named(c, l, f.parent) : p.index = r.parent
        /\ ~ Parses(f) /\ Included(c, l, i) => "Degenerate" \in upload[c].errors
        /\ l = 0 /\ Stored(c, l, i) # {} => "NotWithinParent" \in upload[c].errors

Reads(c) == task[c].pc \in {"read", "store"}

\* The validation of c is past the unit.
Past(c, l, i) ==
    \/ upload[c].status \in {"Valid", "Error"} \/ task[c].pc = "verdict"
    \/ /\ Reads(c)
       /\ \/ l < task[c].level
          \/ l = task[c].level /\ i < task[c].index
          \/ task[c].pc = "read" /\ l = task[c].level /\ i = task[c].index

\* A new country that is in no file has no tree: no other file was read.
NotFound(c) == TreeOf(c) = {} /\ ~ Known(c)

Built(c) ==
    \A l \in LevelsOf(c) : \A i \in DOMAIN Layer(l) :
      Past(c, l, i) => Right(c, l, i) \/ (l > 0 /\ NotFound(c))

\* A code names one unit of a level.
OneOfACode(c) ==
    \A r, s \in TreeOf(c) : r.level = s.level /\ UnitOf(r).code = UnitOf(s).code => r = s

\* Nothing is stored that was not read.
NothingAhead(c) ==
    Reads(c) =>
      /\ \A r \in TreeOf(c) :
           /\ r.level <= task[c].level
           /\ r.level = task[c].level =>
                r.index < task[c].index \/ (task[c].pc = "read" /\ r.index = task[c].index)
      /\ task[c].level > 0 => TreeOf(c) # {}

\* The unit about to be stored
AboutToStore(c) ==
    LET l == task[c].level
        f == Layer(l)[task[c].index]
    IN  task[c].pc = "store" =>
          /\ Included(c, l, task[c].index) /\ f.code # NoCode
          /\ \A r \in TreeOf(c) : r.level = l => UnitOf(r).code # f.code
          /\ l > 0 => Named(c, l, f.parent) # {}

HasRoot(c) ==
    /\ upload[c].status \in {"Processing", "Valid", "Error"} /\ Known(c) /\ ~ Countries
         => Clone(c) \in rows
    /\ upload[c].status \in {"Valid", "Error"} => ~ NotFound(c)

Tree(c) ==
    Clean(c) => /\ Built(c) /\ OneOfACode(c) /\ NothingAhead(c)
                /\ AboutToStore(c) /\ HasRoot(c)

Reading(c) ==
    /\ Reads(c) => task[c].level \in LevelsOf(c)
    /\ task[c].pc = "store" =>
         LET l == task[c].level
             i == task[c].index
         IN  /\ i \in DOMAIN Layer(l) /\ Parses(Layer(l)[i])
             /\ l = 0 => Layer(0)[i].code = c /\ "NotWithinParent" \in upload[c].errors

\* What is stored are units of the files, and clones of known countries.
RowsTyped ==
    \A r \in rows :
      /\ r.upload \in Country /\ r.level \in Nat /\ r.index \in Nat
      /\ IF r.index = 0 THEN r = Clone(r.upload) /\ Known(r.upload) /\ ~ Countries
                        ELSE r.index \in DOMAIN Layer(r.level)
      /\ r.level = 0 => UnitOf(r).code = r.upload

NoCountryTwice ==
    \A i, j \in DOMAIN Layer(0) :
      Layer(0)[i].code = Layer(0)[j].code /\ Layer(0)[i].code # NoCode => i = j

Findings ==
    /\ Parseable
    /\ matched = [c \in Country |-> Children(c)]
    /\ offered = [c \in Country |-> OfferedLevel(c)]

\* Only what preprocessing found is validated.
Prepared ==
    /\ session \in {"Pending", "PreProcessing", "Ready"}
    /\ session # "Pending" => NoCountryTwice
    /\ session = "Ready" => Findings
    /\ \A c \in Country : upload[c].status # "" =>
         session = "Ready" /\ c \in Uploaded /\ upload[c].max <= offered[c]

Begun ==
    \A c \in Country : upload[c].status = "Started" => TreeOf(c) = {} /\ upload[c].errors = {}

TreesInv ==
    /\ RowsTyped /\ Prepared /\ Begun
    /\ \A c \in Country : Reading(c) /\ Tree(c)

\* Units are numbered from 1, and only files have some.
LEMMA UnitNumbers ==
    ASSUME setting \in Setting, NEW l
    PROVE  /\ Layer(l) \in Seq(Feature)
           /\ DOMAIN Layer(l) \subseteq Nat \ {0}
           /\ DOMAIN Layer(l) # {} => l \in DOMAIN setting.layers /\ l \in Nat
<1>1. CASE l \in DOMAIN setting.layers
  <2>1. setting.layers[l] \in Seq(Feature) /\ l \in Nat
    BY <1>1, ValidationAssumption
  <2>2. Layer(l) = setting.layers[l]
    BY <1>1 DEF Layer
  <2>3. QED
    BY <1>1, <2>1, <2>2
<1>2. CASE l \notin DOMAIN setting.layers
  <2>1. Layer(l) = <<>>
    BY <1>2 DEF Layer
  <2>2. QED
    BY <2>1
<1>3. QED
  BY <1>1, <1>2

\* What is known of the tree of an upload depends on nothing else.
LEMMA SameTree ==
    ASSUME NEW c \in Country, setting' = setting, matched' = matched,
           TreeOf(c)' = TreeOf(c)
    PROVE  /\ \A l : Layer(l)' = Layer(l)
           /\ \A r : UnitOf(r)' = UnitOf(r)
           /\ \A l, i : Stored(c, l, i)' = Stored(c, l, i)
           /\ \A l : ParentRows(c, l)' = ParentRows(c, l)
           /\ \A l, x : Named(c, l, x)' = Named(c, l, x)
           /\ \A l, i : Included(c, l, i)' = Included(c, l, i)
           /\ NotFound(c)' = NotFound(c)
           /\ Known(c)' = Known(c) /\ Countries' = Countries
           /\ Clone(c)' = Clone(c) /\ (Clone(c) \in rows' <=> Clone(c) \in rows)
<1>1. /\ \A l : Layer(l)' = Layer(l)
      /\ \A r : UnitOf(r)' = UnitOf(r)
  BY SameUnits
<1>2. \A l, i : Stored(c, l, i)' = Stored(c, l, i)
  BY DEF Stored
<1>3. \A l : ParentRows(c, l)' = ParentRows(c, l)
  BY DEF ParentRows
<1>4. \A l, x : Named(c, l, x)' = Named(c, l, x)
  BY <1>1, <1>3 DEF Named
<1>5. \A l, i : Included(c, l, i)' = Included(c, l, i)
  BY <1>1, <1>4 DEF Included
<1>6. NotFound(c)' = NotFound(c) /\ Known(c)' = Known(c) /\ Countries' = Countries
  BY DEF NotFound, Known, Countries
<1>7. Clone(c)' = Clone(c) /\ (Clone(c) \in rows' <=> Clone(c) \in rows)
  BY DEF Clone, TreeOf
<1> QED
  BY <1>1, <1>2, <1>3, <1>4, <1>5, <1>6, <1>7

\* What becomes of one upload leaves the trees of the others alone.
LEMMA OtherTree ==
    ASSUME NEW c \in Country, setting' = setting, matched' = matched,
           TreeOf(c)' = TreeOf(c), upload'[c] = upload[c], task'[c] = task[c]
    PROVE  /\ Reading(c) => Reading(c)'
           /\ Tree(c) => Tree(c)'
<1> USE SameTree
<1>1. Reading(c) => Reading(c)'
  BY DEF Reading, Reads, LevelsOf, Parses
<1>2. Clean(c)' = Clean(c)
  BY DEF Clean
<1>3. Built(c) => Built(c)'
  <2>1. \A l, i : Right(c, l, i)' = Right(c, l, i)
    BY DEF Right, Parses
  <2>2. \A l, i : Past(c, l, i)' = Past(c, l, i)
    BY DEF Past, Reads
  <2>3. LevelsOf(c)' = LevelsOf(c)
    BY DEF LevelsOf
  <2> QED
    BY <2>1, <2>2, <2>3 DEF Built
<1>4. (OneOfACode(c) => OneOfACode(c)') /\ (NothingAhead(c) => NothingAhead(c)')
  BY DEF OneOfACode, NothingAhead, Reads
<1>5. AboutToStore(c) => AboutToStore(c)'
  BY DEF AboutToStore
<1>6. HasRoot(c) => HasRoot(c)'
  BY DEF HasRoot
<1> QED
  BY <1>1, <1>2, <1>3, <1>4, <1>5, <1>6 DEF Tree

\* A validation that did not begin has nothing to show for it.
LEMMA BlankTree ==
    ASSUME NEW c \in Country, TreeOf(c) = {}, task[c].pc = "idle",
           upload[c].status \in {"", "Started"}
    PROVE  Reading(c) /\ Tree(c)
<1>1. Reading(c)
  BY DEF Reading, Reads
<1>2. Built(c)
  BY DEF Built, Past, Reads
<1>3. OneOfACode(c) /\ NothingAhead(c) /\ AboutToStore(c) /\ HasRoot(c)
  BY DEF OneOfACode, NothingAhead, AboutToStore, HasRoot, Reads
<1> QED
  BY <1>1, <1>2, <1>3 DEF Tree

LEMMA BlankTreeNext ==
    ASSUME NEW c \in Country, TreeOf(c)' = {}, task'[c].pc = "idle",
           upload'[c].status \in {"", "Started"}
    PROVE  (Reading(c) /\ Tree(c))'
<1>1. Reading(c)'
  BY DEF Reading, Reads
<1>2. Built(c)'
  BY DEF Built, Past, Reads
<1>3. (OneOfACode(c) /\ NothingAhead(c) /\ AboutToStore(c) /\ HasRoot(c))'
  BY DEF OneOfACode, NothingAhead, AboutToStore, HasRoot, Reads
<1> QED
  BY <1>1, <1>2, <1>3 DEF Tree

\* Which file is read next, if any
LEMMA Next_Level ==
    ASSUME Typed, NEW c \in Country, NEW l, NEW tree, NextLevel(c, l, tree)
    PROVE  /\ \A d \in Country \ {c} : task'[d] = task[d]
           /\ \/ /\ task'[c].pc = "read" /\ task'[c].index = 0
                 /\ task'[c].level \in LevelsOf(c) /\ task'[c].level > l
                 /\ task'[c].level = 0 \/ tree # {}
                 /\ \A j \in LevelsOf(c) :
                      j > l /\ (j = 0 \/ tree # {}) => task'[c].level <= j
              \/ /\ task'[c].pc = "verdict"
                 /\ \A j \in LevelsOf(c) : ~ (j > l /\ (j = 0 \/ tree # {}))
<1> DEFINE left == {k \in LevelsOf(c) : k > l /\ (k = 0 \/ tree # {})}
<1>1. CASE \E k \in left :
             /\ \A j \in left : k <= j
             /\ task' = [task EXCEPT ![c] = [pc |-> "read", level |-> k, index |-> 0]]
  <2>1. PICK k \in left :
          /\ \A j \in left : k <= j
          /\ task' = [task EXCEPT ![c] = [pc |-> "read", level |-> k, index |-> 0]]
    BY <1>1
  <2>2. /\ task'[c] = [pc |-> "read", level |-> k, index |-> 0]
        /\ \A d \in Country \ {c} : task'[d] = task[d]
    BY <2>1 DEF Typed
  <2> QED
    BY <2>1, <2>2
<1>2. CASE left = {} /\ task' = [task EXCEPT ![c] = [Idle EXCEPT !.pc = "verdict"]]
  <2>1. /\ task'[c].pc = "verdict"
        /\ \A d \in Country \ {c} : task'[d] = task[d]
    BY <1>2 DEF Typed, Idle
  <2> QED
    BY <1>2, <2>1
<1> QED
  BY <1>1, <1>2 DEF NextLevel

\* Levels and states of a task
LEMMA TaskTyped ==
    ASSUME Typed, NEW c \in Country
    PROVE  /\ LevelsOf(c) \subseteq Nat /\ LevelsOf(c) \subseteq DOMAIN setting.layers
           /\ task[c].level \in Nat /\ task[c].index \in Nat
           /\ task[c].pc \in {"idle", "read", "store", "verdict"}
           /\ upload[c].status \in UploadStatus /\ upload[c].max \in Nat
           /\ Countries => 0 \in LevelsOf(c)
<1>1. DOMAIN setting.layers \subseteq Nat
  BY LevelsTyped DEF Typed
<1>2. task[c] \in Task /\ upload[c] \in Row
  BY DEF Typed
<1> QED
  BY <1>1, <1>2 DEF LevelsOf, Countries, Task, Row

\* The parent of a unit that is stored is the only one its name and its place
\* leave, so nothing is deleted for it.
LEMMA OneParent ==
    ASSUME Typed, RowsTyped, NEW c \in Country, OneOfACode(c),
           NEW l \in Nat \ {0}, NEW i, Included(c, l, i),
           Named(c, l, Layer(l)[i].parent) # {}
    PROVE  \E p \in Named(c, l, Layer(l)[i].parent) :
             Parents(c, l, i) = {p} /\ Newest(Parents(c, l, i)) = p
<1> DEFINE P == Parents(c, l, i)
           N == Named(c, l, Layer(l)[i].parent)
<1>1. PICK p : p \in N
  OBVIOUS
<1>2. N \subseteq ParentRows(c, l) /\ ParentRows(c, l) \subseteq rows
  BY DEF Named, ParentRows, TreeOf
<1>3. \A r \in N : r = p
  BY <1>1 DEF Named, ParentRows, OneOfACode
<1>4. P = {p}
  <2>1. CASE l = 1 /\ matched[c] # {}
    <3>1. P = ParentRows(c, 1)
      BY <2>1 DEF Parents
    <3>2. \A r \in P : r = p
      <4> SUFFICES ASSUME NEW r \in ParentRows(c, 1)
                   PROVE  r = p
        BY <3>1
      <4>1. p \in ParentRows(c, 1)
        BY <1>1, <1>2, <2>1
      <4>2. /\ r \in TreeOf(c) /\ r \in rows /\ r.level = 0 /\ r.upload = c
            /\ p \in TreeOf(c) /\ p \in rows /\ p.level = 0 /\ p.upload = c
        BY <4>1 DEF ParentRows, TreeOf
      <4>3. UnitOf(r).code = c /\ UnitOf(p).code = c
        BY <4>2 DEF RowsTyped
      <4> QED
        BY <4>2, <4>3 DEF OneOfACode
    <3> QED
      BY <1>1, <1>2, <2>1, <3>1, <3>2
  <2>2. CASE ~ (l = 1 /\ matched[c] # {})
    BY <1>1, <1>3, <2>2 DEF Parents
  <2> QED
    BY <2>1, <2>2
<1>5. Newest({p}) = p
  <2>1. p.index \in Nat
    BY <1>1, <1>2 DEF RowsTyped
  <2>2. \A s \in {p} : s.index <= p.index
    BY <2>1
  <2> QED
    BY <2>2 DEF Newest
<1> QED
  BY <1>1, <1>4, <1>5

-----------------------------------------------------------------------------
(* Requests                                                                *)

LEMMA InitTrees == Init => TreesInv
<1> SUFFICES ASSUME Init
             PROVE  TreesInv
  OBVIOUS
<1> USE DEF Init
<1>1. RowsTyped /\ Prepared /\ Begun
  BY DEF RowsTyped, Prepared, Begun, Blank
<1>2. ASSUME NEW c \in Country
      PROVE  Reading(c) /\ Tree(c)
  <2>1. TreeOf(c) = {} /\ task[c].pc = "idle" /\ upload[c].status = ""
    BY DEF TreeOf, Idle, Blank
  <2> QED
    BY <2>1, BlankTree
<1> QED
  BY <1>1, <1>2 DEF TreesInv

\* Rows that stay are what they were.
LEMMA FewerRows ==
    ASSUME RowsTyped, setting' = setting, rows' \subseteq rows
    PROVE  RowsTyped'
BY SameUnits DEF RowsTyped, Clone, Known, Countries

\* What preprocessing finds depends on the files and the parameters only.
LEMMA SameFindings ==
    ASSUME setting' = setting
    PROVE  /\ (Parseable' <=> Parseable) /\ (Countries' <=> Countries)
           /\ \A l : CodesOf(l)' = CodesOf(l)
           /\ \A c : Children(c)' = Children(c) /\ OfferedLevel(c)' = OfferedLevel(c)
<1>1. /\ (Parseable' <=> Parseable) /\ (Countries' <=> Countries)
      /\ \A l : CodesOf(l)' = CodesOf(l)
  BY SameUnits DEF Parseable, CodesOf, Countries, Parses
<1>2. \A c : Children(c)' = Children(c) /\ OfferedLevel(c)' = OfferedLevel(c)
  BY SameUnits DEF Ground, Children, OfferedLevel, Near, MatchedParent, Share, Box, Reaches,
     Below, Countries, CodesOf, Layer
<1> QED
  BY <1>1, <1>2

LEMMA PreparedKept ==
    ASSUME Prepared, setting' = setting, UNCHANGED <<session, prepared>>,
           \A c \in Country : upload'[c].status # "" =>
             \/ upload[c].status # "" /\ upload'[c].max = upload[c].max
             \/ session = "Ready" /\ c \in Uploaded /\ upload'[c].max <= offered[c]
    PROVE  Prepared'
<1> USE DEF prepared
<1>1. Uploaded' = Uploaded
  BY SameFindings DEF Uploaded
<1>2. NoCountryTwice => NoCountryTwice'
  <2>1. Layer(0)' = Layer(0)
    BY SameUnits
  <2> QED
    BY <2>1 DEF NoCountryTwice
<1>3. Findings => Findings'
  BY SameFindings DEF Findings
<1> QED
  BY <1>1, <1>2, <1>3 DEF Prepared

LEMMA StutterTrees ==
    ASSUME IInv, TreesInv, UNCHANGED <<vars, setting>>
    PROVE  TreesInv'
<1> USE DEF vars, prepared
<1>1. RowsTyped'
  BY FewerRows DEF TreesInv
<1>2. Prepared'
  BY PreparedKept DEF TreesInv
<1>5. \A c \in Country : TreeOf(c)' = TreeOf(c)
  BY DEF TreeOf
<1>6. Begun'
  BY <1>5 DEF TreesInv, Begun
<1> QED
  BY <1>1, <1>2, <1>5, <1>6, OtherTree DEF TreesInv

LEMMA PreprocessTrees ==
    ASSUME IInv, TreesInv, setting' = setting, Preprocess
    PROVE  TreesInv'
<1> USE DEF Preprocess, prepared
<1>1. RowsTyped'
  BY FewerRows DEF TreesInv
<1>2. Prepared'
  <2>1. NoCountryTwice'
    BY SameUnits DEF NoCountryTwice
  <2> QED
    BY <2>1 DEF TreesInv, Prepared
<1>3. \A c \in Country : TreeOf(c)' = TreeOf(c)
  BY DEF TreeOf
<1>4. Begun'
  BY <1>3 DEF TreesInv, Begun
<1> QED
  BY <1>1, <1>2, <1>3, <1>4, OtherTree DEF TreesInv

\* As long as no validation is asked for there are no trees.
LEMMA NoTrees ==
    ASSUME IInv, \A c \in Country : upload[c].status = ""
    PROVE  /\ rows = {} /\ \A c \in Country : TreeOf(c) = {} /\ task[c].pc = "idle"
BY DEF IInv, Typed, Marked, TreeOf

LEMMA PrepareValidationTrees ==
    ASSUME IInv, TreesInv, setting' = setting, PrepareValidation
    PROVE  TreesInv'
<1> USE DEF PrepareValidation
<1>1. \A c \in Country : upload[c].status = ""
  BY DEF TreesInv, Prepared
<1>2. /\ rows' = {} /\ \A c \in Country : /\ TreeOf(c)' = {} /\ task'[c].pc = "idle"
                                         /\ upload'[c].status = ""
  BY <1>1, NoTrees DEF TreeOf
<1>3. RowsTyped' /\ Begun'
  BY <1>2 DEF RowsTyped, Begun
<1>4. Prepared'
  <2>1. NoCountryTwice => NoCountryTwice'
    BY SameUnits DEF NoCountryTwice
  <2>2. Findings'
    BY SameFindings DEF Findings
  <2> QED
    BY <1>2, <2>1, <2>2 DEF TreesInv, Prepared
<1>5. \A c \in Country : (Reading(c) /\ Tree(c))'
  BY <1>2, BlankTreeNext
<1> QED
  BY <1>3, <1>4, <1>5 DEF TreesInv

LEMMA ValidateTrees ==
    ASSUME IInv, TreesInv, setting' = setting, NEW C \in SUBSET Uploaded, Validate(C)
    PROVE  TreesInv'
<1> USE DEF Validate
<1>1. /\ rows = {} /\ \A c \in Country : TreeOf(c) = {} /\ task[c].pc = "idle"
  BY NoTrees
<1>2. PICK level \in [C -> DOMAIN setting.layers] :
        /\ \A c \in C : level[c] <= offered[c]
        /\ upload' = [c \in Country |-> IF c \in C
                     THEN [Blank EXCEPT !.status = "Started", !.max = level[c]]
                     ELSE Blank]
  OBVIOUS
<1>3. \A c \in Country :
        \/ upload'[c].status = ""
        \/ /\ c \in C /\ upload'[c].status = "Started" /\ upload'[c].errors = {}
           /\ upload'[c].max <= offered[c]
  BY <1>2 DEF Blank
<1>4. \A c \in Country : TreeOf(c)' = {} /\ task'[c].pc = "idle"
  BY <1>1 DEF TreeOf
<1>5. RowsTyped' /\ Begun'
  BY <1>1, <1>3, <1>4 DEF RowsTyped, Begun
<1>6. Prepared'
  BY <1>3, PreparedKept DEF TreesInv
<1>7. \A c \in Country : (Reading(c) /\ Tree(c))'
  <2> SUFFICES ASSUME NEW c \in Country
               PROVE  (Reading(c) /\ Tree(c))'
    OBVIOUS
  <2>1. upload'[c].status \in {"", "Started"}
    BY <1>3
  <2> QED
    BY <1>4, <2>1, BlankTreeNext
<1> QED
  BY <1>5, <1>6, <1>7 DEF TreesInv

LEMMA ResetTrees ==
    ASSUME IInv, TreesInv, setting' = setting, Reset
    PROVE  TreesInv'
<1> USE DEF Reset
<1>1. \A c \in Country : /\ TreeOf(c)' = {} /\ task'[c].pc = "idle"
                         /\ upload'[c].status = ""
  BY DEF IInv, Marked, AtWork, TreeOf, Blank
<1>2. RowsTyped' /\ Begun'
  BY <1>1 DEF RowsTyped, Begun
<1>3. Prepared'
  BY <1>1, PreparedKept DEF TreesInv
<1>4. \A c \in Country : (Reading(c) /\ Tree(c))'
  BY <1>1, BlankTreeNext
<1> QED
  BY <1>2, <1>3, <1>4 DEF TreesInv

-----------------------------------------------------------------------------
(* Steps of a task                                                         *)

\* What a task does to its own tree is all that it does.
LEMMA OneTree ==
    ASSUME TreesInv, setting' = setting, UNCHANGED <<session, prepared>>,
           NEW c \in Country, upload[c].status # "", upload'[c].max = upload[c].max,
           upload'[c].status # "Started",
           \A d \in Country \ {c} : /\ upload'[d] = upload[d] /\ task'[d] = task[d]
                                    /\ TreeOf(d)' = TreeOf(d),
           RowsTyped', Reading(c)', Tree(c)'
    PROVE  TreesInv'
<1>1. \A d \in Country : upload'[d].status # "" =>
        upload[d].status # "" /\ upload'[d].max = upload[d].max
  OBVIOUS
<1>2. Prepared'
  BY <1>1, PreparedKept DEF TreesInv
<1>3. Begun'
  BY DEF TreesInv, Begun
<1>4. matched' = matched
  BY DEF prepared
<1>5. ASSUME NEW d \in Country \ {c}
      PROVE  (Reading(d) /\ Tree(d))'
  BY <1>4, OtherTree DEF TreesInv
<1> QED
  BY <1>2, <1>3, <1>5 DEF TreesInv

\* More errors leave a unit as right as it was.
LEMMA RightKept ==
    ASSUME NEW c \in Country, setting' = setting, matched' = matched,
           NEW l, NEW i, Right(c, l, i),
           Stored(c, l, i)' = Stored(c, l, i),
           \A x : Named(c, l, x)' = Named(c, l, x),
           upload[c].errors \subseteq upload'[c].errors
    PROVE  Right(c, l, i)'
<1>1. Layer(l)' = Layer(l)
  BY SameUnits
<1>2. Included(c, l, i)' <=> Included(c, l, i)
  <2>1. Layer(0)' = Layer(0)
    BY SameUnits
  <2> QED
    BY <1>1, <2>1 DEF Included
<1>3. Parses(Layer(l)[i])' <=> Parses(Layer(l)[i])
  BY <1>1 DEF Parses
<1> QED
  BY <1>1, <1>2, <1>3 DEF Right

\* What is not there and is not taken is right.
LEMMA RightAbsent ==
    ASSUME NEW c \in Country, NEW l, NEW i, Stored(c, l, i) = {}, ~ Included(c, l, i)
    PROVE  Right(c, l, i)
BY DEF Right

LEMMA BeginTrees ==
    ASSUME IInv, TreesInv, setting' = setting, NEW c \in Country, Begin(c)
    PROVE  TreesInv'
<1> DEFINE root == IF Known(c) /\ ~ Countries THEN {Clone(c)} ELSE {}
<1>1. /\ upload[c].status = "Started" /\ TreeOf(c) = {} /\ upload[c].errors = {}
      /\ upload' = [upload EXCEPT ![c].status = "Processing"]
      /\ rows' = rows \cup root /\ NextLevel(c, -1, root)
      /\ UNCHANGED <<session, prepared>> /\ matched' = matched
  BY DEF Begin, TreesInv, Begun, prepared
<1>2. /\ upload'[c].status = "Processing" /\ upload'[c].errors = {}
      /\ upload'[c].max = upload[c].max
      /\ \A d \in Country \ {c} : upload'[d] = upload[d]
  BY <1>1 DEF IInv, Typed, Row
<1>3. /\ \A d \in Country \ {c} : task'[d] = task[d]
      /\ \/ /\ task'[c].pc = "read" /\ task'[c].index = 0
            /\ task'[c].level \in LevelsOf(c) /\ task'[c].level > -1
            /\ task'[c].level = 0 \/ root # {}
            /\ \A j \in LevelsOf(c) :
                 j > -1 /\ (j = 0 \/ root # {}) => task'[c].level <= j
         \/ /\ task'[c].pc = "verdict"
            /\ \A j \in LevelsOf(c) : ~ (j > -1 /\ (j = 0 \/ root # {}))
  BY <1>1, Next_Level DEF IInv
<1>4. LevelsOf(c)' = LevelsOf(c)
  BY <1>2 DEF LevelsOf
<1>5. LevelsOf(c) \subseteq Nat /\ (Countries => 0 \in LevelsOf(c))
  BY TaskTyped DEF IInv
<1>6. /\ TreeOf(c)' = root
      /\ \A d \in Country \ {c} : TreeOf(d)' = TreeOf(d)
  BY <1>1 DEF TreeOf, Clone
<1>7. RowsTyped'
  <2> SUFFICES ASSUME NEW r \in rows'
               PROVE  /\ r.upload \in Country /\ r.level \in Nat /\ r.index \in Nat
                      /\ IF r.index = 0
                         THEN r = Clone(r.upload)' /\ Known(r.upload)' /\ ~ Countries'
                         ELSE r.index \in DOMAIN Layer(r.level)'
                      /\ r.level = 0 => UnitOf(r)'.code = r.upload
    BY DEF RowsTyped
  <2>1. CASE r \in rows
    BY <2>1, SameUnits DEF TreesInv, RowsTyped, Clone, Known, Countries
  <2>2. CASE r = Clone(c) /\ Known(c) /\ ~ Countries
    BY <2>2, SameUnits DEF Clone, Known, Countries, UnitOf
  <2> QED
    BY <1>1, <2>1, <2>2
<1>8. Reading(c)'
  BY <1>3, <1>4 DEF Reading, Reads
<1>9. Built(c)'
  <2> SUFFICES ASSUME NEW l \in LevelsOf(c), NEW i \in DOMAIN Layer(l), Past(c, l, i)'
               PROVE  l > 0 /\ NotFound(c)'
    BY <1>4, SameUnits DEF Built
  <2>1. i \in Nat \ {0} /\ l \in Nat
    BY <1>5, UnitNumbers DEF IInv, Typed
  <2>2. CASE task'[c].pc = "verdict"
    <3>1. l > 0 /\ root = {}
      BY <1>3, <2>1, <2>2
    <3>2. ~ Known(c)
      <4>1. Countries => FALSE
        BY <1>3, <1>5, <2>2
      <4> QED
        BY <3>1, <4>1
    <3> QED
      BY <1>6, <3>1, <3>2 DEF NotFound, Known
  <2>3. CASE task'[c].pc = "read" /\ task'[c].index = 0 /\ task'[c].level \in LevelsOf(c)
    <3>1. l < task'[c].level
      BY <1>2, <2>1, <2>3, <1>5 DEF Past, Reads
    <3>2. task'[c].level # 0
      BY <2>1, <3>1
    <3>3. FALSE
      BY <1>3, <2>1, <2>3, <3>1, <3>2, <1>5
    <3> QED
      BY <3>3
  <2> QED
    BY <1>3, <2>2, <2>3
<1>10. OneOfACode(c)'
  BY <1>6 DEF OneOfACode
<1>11. NothingAhead(c)'
  <2> SUFFICES ASSUME Reads(c)'
               PROVE  /\ \A r \in TreeOf(c)' :
                           /\ r.level <= task'[c].level
                           /\ r.level # task'[c].level
                      /\ task'[c].level > 0 => TreeOf(c)' # {}
    BY DEF NothingAhead
  <2>1. task'[c].level \in LevelsOf(c) /\ (task'[c].level = 0 \/ root # {})
    BY <1>3 DEF Reads
  <2>2. task'[c].level \in Nat
    BY <1>5, <2>1
  <2>3. ASSUME ~ Countries
        PROVE  task'[c].level # 0
    BY <2>1, <2>3 DEF LevelsOf, Countries
  <2> QED
    BY <1>6, <2>1, <2>2, <2>3 DEF Clone
<1>12. AboutToStore(c)'
  BY <1>3 DEF AboutToStore
<1>13. HasRoot(c)'
  BY <1>1, <1>2, SameTree DEF HasRoot, Known, Countries, Clone
<1>14. Tree(c)'
  BY <1>9, <1>10, <1>11, <1>12, <1>13 DEF Tree
<1> QED
  BY <1>1, <1>2, <1>3, <1>6, <1>7, <1>8, <1>14, OneTree

\* A unit that a check leaves clean has a code nobody has, and a parent.
LEMMA CleanUnit ==
    ASSUME NEW c, NEW l, NEW i, NEW doubt, ErrorsOf(c, l, i, doubt) \cap Blocking = {}
    PROVE  /\ Layer(l)[i].code # NoCode
           /\ \A r \in InFile(l) : UnitOf(r).code # Layer(l)[i].code
           /\ l > 0 => Named(c, l, Layer(l)[i].parent) # {}
<1> DEFINE f == Layer(l)[i]
<1>1. AttributeErrors(c, l, f) \cap Blocking = {}
  BY DEF ErrorsOf
<1>2. f.code # NoCode
  BY <1>1 DEF AttributeErrors, If, Blocking
<1>3. ~ \E r \in InFile(l) : UnitOf(r).code = f.code
  BY <1>1, <1>2 DEF AttributeErrors, If, Blocking
<1>4. ASSUME l > 0, \A r \in ParentRows(c, l) : UnitOf(r).code # f.parent
      PROVE  FALSE
  BY <1>1, <1>4 DEF AttributeErrors, If, Blocking
<1> QED
  BY <1>2, <1>3, <1>4 DEF Named

LEMMA CheckUnitTrees ==
    ASSUME IInv, IInv', TreesInv, setting' = setting, NEW c \in Country, NEW i,
           NEW doubt \in BOOLEAN, CheckUnit(c, i, doubt)
    PROVE  TreesInv'
<1>0. PICK l : l = task[c].level
  OBVIOUS
<1> DEFINE f == Layer(l)[i]
           E == ErrorsOf(c, l, i, doubt)
           P == Parents(c, l, i)
<1>1. /\ task[c].pc = "read" /\ upload[c].status = "Processing"
      /\ i \in Left(c) /\ \A j \in Left(c) : i <= j
      /\ upload' = [upload EXCEPT ![c].errors = @ \cup E]
      /\ rows' = IF P = {} THEN rows ELSE rows \ (P \ {Newest(P)})
      /\ task' = [task EXCEPT ![c].index = i,
                              ![c].pc = IF Parses(f) THEN "store" ELSE "read"]
      /\ UNCHANGED <<session, prepared>> /\ matched' = matched
  BY <1>0 DEF CheckUnit, IInv, Marked, prepared
<1>2. /\ i \in DOMAIN Layer(l) /\ i > task[c].index /\ Included(c, l, i)
      /\ \A j \in DOMAIN Layer(l) : j > task[c].index /\ Included(c, l, j) => i <= j
  BY <1>0, <1>1 DEF Left
<1>3. /\ upload'[c].errors = upload[c].errors \cup E
      /\ upload'[c].status = "Processing" /\ upload'[c].max = upload[c].max
      /\ \A d \in Country \ {c} : upload'[d] = upload[d]
  BY <1>1 DEF IInv, Typed, Row
<1>4. /\ task'[c].level = l /\ task'[c].index = i
      /\ task'[c].pc = IF Parses(f) THEN "store" ELSE "read"
      /\ \A d \in Country \ {c} : task'[d] = task[d]
  BY <1>0, <1>1 DEF IInv, Typed, Task
<1>5. l \in Nat /\ i \in Nat /\ task[c].index \in Nat /\ l \in LevelsOf(c)
  <2>1. l \in Nat /\ task[c].index \in Nat
    BY <1>0, TaskTyped DEF IInv
  <2>2. i \in Nat
    BY <1>2, UnitNumbers DEF IInv, Typed
  <2>3. l \in LevelsOf(c)
    BY <1>0, <1>1 DEF TreesInv, Reading, Reads
  <2> QED
    BY <2>1, <2>2, <2>3
<1>6. P \subseteq TreeOf(c)
  BY DEF Parents, ParentRows, Named
<1>7. /\ rows' \subseteq rows
      /\ \A d \in Country \ {c} : TreeOf(d)' = TreeOf(d)
  BY <1>1, <1>6 DEF TreeOf
<1>8. RowsTyped'
  BY <1>7, FewerRows DEF TreesInv
<1>9. LevelsOf(c)' = LevelsOf(c) /\ \A k : Layer(k)' = Layer(k)
  BY <1>3, SameUnits DEF LevelsOf
<1>10. Reading(c)'
  <2>1. l = 0 => Layer(0)[i].code = c
    BY <1>2 DEF Included
  <2>2. l = 0 /\ Parses(f) => "NotWithinParent" \in E
    BY DEF ErrorsOf, HierarchyErrors, If
  <2>3. Parses(f)' <=> Parses(f)
    BY <1>9 DEF Parses
  <2> QED
    BY <1>2, <1>3, <1>4, <1>5, <1>9, <2>1, <2>2, <2>3 DEF Reading, Reads
<1>11. ASSUME Clean(c)'
       PROVE  (/\ Built(c) /\ OneOfACode(c) /\ NothingAhead(c)
               /\ AboutToStore(c) /\ HasRoot(c))'
  <2>1. Clean(c) /\ E \cap Blocking = {}
    BY <1>3, <1>11 DEF Clean
  <2>2. Built(c) /\ OneOfACode(c) /\ NothingAhead(c) /\ HasRoot(c)
    BY <2>1 DEF TreesInv, Tree
  <2>3. /\ f.code # NoCode
        /\ \A r \in InFile(l) : UnitOf(r).code # f.code
        /\ l > 0 => Named(c, l, f.parent) # {}
    BY <2>1, CleanUnit
  <2>4. rows' = rows
    <3>1. CASE l = 0
      BY <1>1, <3>1 DEF Parents
    <3>2. CASE l # 0
      <4>1. PICK p : P = {p} /\ Newest(P) = p
        BY <1>2, <1>5, <2>2, <2>3, <3>2, OneParent DEF IInv, TreesInv
      <4> QED
        BY <1>1, <4>1
    <3> QED
      BY <3>1, <3>2
  <2>5. TreeOf(c)' = TreeOf(c)
    BY <2>4 DEF TreeOf
  <2> USE SameTree
  <2>6. Built(c)'
    <3> SUFFICES ASSUME NEW k \in LevelsOf(c), NEW j \in DOMAIN Layer(k), Past(c, k, j)'
                 PROVE  Right(c, k, j)' \/ (k > 0 /\ NotFound(c)')
      BY <1>9 DEF Built
    <3>1. CASE Past(c, k, j)
      <4>1. Right(c, k, j) => Right(c, k, j)'
        BY <1>1, <1>3, <2>5, RightKept
      <4>2. NotFound(c)' = NotFound(c)
        BY <1>1, <2>5
      <4> QED
        BY <2>2, <3>1, <4>1, <4>2 DEF Built
    <3>2. CASE ~ Past(c, k, j)
      <4>0. j \in Nat /\ k \in Nat
        BY UnitNumbers DEF IInv, Typed
      <4>1. k = l /\ j > task[c].index /\ j <= i /\ (j = i => ~ Parses(f))
        BY <1>0, <1>1, <1>3, <1>4, <1>5, <3>2, <4>0 DEF Past, Reads
      <4>2. Stored(c, k, j) = {}
        BY <1>0, <1>1, <1>5, <2>2, <4>0, <4>1 DEF NothingAhead, Reads, Stored
      <4>3. CASE j # i
        <5>1. ~ Included(c, k, j)
          BY <1>2, <1>5, <4>0, <4>1, <4>3
        <5>2. Right(c, k, j)
          BY <4>2, <5>1, RightAbsent
        <5> QED
          BY <1>1, <1>3, <2>5, <5>2, RightKept
      <4>4. CASE j = i
        <5>1. ~ Parses(f) /\ "Degenerate" \in E
          BY <4>1, <4>4 DEF ErrorsOf
        <5>2. Stored(c, l, i)' = {} /\ (Parses(f)' <=> Parses(f)) /\ Layer(l)' = Layer(l)
          BY <1>1, <2>5, <4>1, <4>2, <4>4 DEF Parses
        <5>3. Right(c, l, i)'
          BY <1>3, <1>4, <5>1, <5>2 DEF Right
        <5> QED
          BY <4>1, <4>4, <5>3
      <4> QED
        BY <4>3, <4>4
    <3> QED
      BY <3>1, <3>2
  <2>7. OneOfACode(c)'
    BY <1>1, <2>2, <2>5 DEF OneOfACode
  <2>8. NothingAhead(c)'
    <3>1. \A r \in TreeOf(c) : r.index \in Nat
      BY DEF TreesInv, RowsTyped, TreeOf
    <3> QED
      BY <1>0, <1>1, <1>2, <1>4, <1>5, <2>2, <2>5, <3>1 DEF NothingAhead, Reads
  <2>9. AboutToStore(c)'
    <3>1. ASSUME NEW r \in TreeOf(c), r.level = l
          PROVE  UnitOf(r).code # f.code
      <4>1. r \in rows /\ r.upload = c
        BY DEF TreeOf
      <4>2. r.index # 0
        <5> SUFFICES ASSUME r.index = 0
                     PROVE  FALSE
          OBVIOUS
        <5>1. r = Clone(c) /\ ~ Countries
          BY <4>1 DEF TreesInv, RowsTyped
        <5>2. l = 0
          BY <3>1, <5>1 DEF Clone
        <5> QED
          BY <1>5, <5>1, <5>2 DEF LevelsOf, Countries
      <4>3. r \in InFile(l)
        BY <3>1, <4>1, <4>2 DEF TreesInv, RowsTyped, InFile
      <4> QED
        BY <2>3, <4>3
    <3>2. Included(c, l, i)' /\ Named(c, l, f.parent)' = Named(c, l, f.parent)
      BY <1>1, <1>2, <2>5
    <3>3. \A r : UnitOf(r)' = UnitOf(r)
      BY SameUnits
    <3> QED
      BY <1>4, <1>9, <2>3, <2>5, <3>1, <3>2, <3>3 DEF AboutToStore
  <2>10. HasRoot(c)'
    BY <1>1, <1>3, <2>2, <2>5 DEF HasRoot
  <2> QED
    BY <2>6, <2>7, <2>8, <2>9, <2>10
<1>12. Tree(c)'
  BY <1>11 DEF Tree
<1> QED
  BY <1>1, <1>3, <1>4, <1>7, <1>8, <1>10, <1>12, OneTree

LEMMA StoreUnitTrees ==
    ASSUME IInv, IInv', TreesInv, setting' = setting, NEW c \in Country, StoreUnit(c)
    PROVE  TreesInv'
<1>0. PICK l, i : l = task[c].level /\ i = task[c].index
  OBVIOUS
<1> DEFINE f == Layer(l)[i]
           P == Parents(c, l, i)
<1>1. /\ task[c].pc = "store" /\ upload[c].status = "Processing"
      /\ task' = [task EXCEPT ![c].pc = "read"]
      /\ UNCHANGED <<session, prepared, upload>> /\ matched' = matched
  BY DEF StoreUnit, IInv, Marked, prepared
<1>2. PICK n : /\ rows' = rows \cup {n}
               /\ n = [upload |-> c, level |-> l, index |-> i,
                       parent |-> IF P = {} THEN 0 ELSE Newest(P).index]
  BY <1>0 DEF StoreUnit
<1>3. /\ task'[c].level = l /\ task'[c].index = i /\ task'[c].pc = "read"
      /\ \A d \in Country \ {c} : task'[d] = task[d]
  BY <1>0, <1>1 DEF IInv, Typed, Task
<1>4. /\ i \in DOMAIN Layer(l) /\ Parses(f) /\ l \in LevelsOf(c)
      /\ l = 0 => Layer(0)[i].code = c /\ "NotWithinParent" \in upload[c].errors
  BY <1>0, <1>1 DEF TreesInv, Reading, Reads
<1>5. l \in Nat /\ i \in Nat \ {0}
  BY <1>4, UnitNumbers, TaskTyped DEF IInv, Typed
<1>6. /\ TreeOf(c)' = TreeOf(c) \cup {n}
      /\ \A d \in Country \ {c} : TreeOf(d)' = TreeOf(d)
  BY <1>2 DEF TreeOf
<1>7. LevelsOf(c)' = LevelsOf(c) /\ \A k : Layer(k)' = Layer(k)
  BY <1>1, SameUnits DEF LevelsOf
<1>8. UnitOf(n) = f /\ \A r : UnitOf(r)' = UnitOf(r)
  BY <1>2, <1>5, SameUnits DEF UnitOf
<1>9. RowsTyped'
  <2> SUFFICES ASSUME NEW r \in rows'
               PROVE  /\ r.upload \in Country /\ r.level \in Nat /\ r.index \in Nat
                      /\ IF r.index = 0
                         THEN r = Clone(r.upload)' /\ Known(r.upload)' /\ ~ Countries'
                         ELSE r.index \in DOMAIN Layer(r.level)'
                      /\ r.level = 0 => UnitOf(r)'.code = r.upload
    BY DEF RowsTyped
  <2>1. CASE r \in rows
    BY <2>1, SameUnits DEF TreesInv, RowsTyped, Clone, Known, Countries
  <2>2. CASE r = n
    BY <1>2, <1>4, <1>5, <1>7, <1>8, <2>2
  <2> QED
    BY <1>2, <2>1, <2>2
<1>10. Reading(c)'
  BY <1>3, <1>4, <1>7 DEF Reading, Reads
<1>11. ASSUME Clean(c)'
       PROVE  (/\ Built(c) /\ OneOfACode(c) /\ NothingAhead(c)
               /\ AboutToStore(c) /\ HasRoot(c))'
  <2>1. Clean(c)
    BY <1>1, <1>11 DEF Clean
  <2>2. Built(c) /\ OneOfACode(c) /\ NothingAhead(c) /\ HasRoot(c)
    BY <2>1 DEF TreesInv, Tree
  <2>3. /\ Included(c, l, i) /\ \A r \in TreeOf(c) : r.level = l => UnitOf(r).code # f.code
        /\ l > 0 => Named(c, l, f.parent) # {}
    BY <1>0, <1>1, <2>1 DEF TreesInv, Tree, AboutToStore
  <2>4. /\ \A r \in TreeOf(c) : /\ r.level <= l /\ r.level \in Nat /\ r.index \in Nat
                                /\ r.level = l => r.index < i
        /\ l > 0 => TreeOf(c) # {}
    BY <1>0, <1>1, <2>2 DEF NothingAhead, Reads, TreesInv, RowsTyped, TreeOf
  <2>5. \A k \in Nat : k <= l => \A x : Named(c, k, x)' = Named(c, k, x)
    BY <1>2, <1>5, <1>6, <1>8 DEF Named, ParentRows
  <2>6. Built(c)'
    <3> SUFFICES ASSUME NEW k \in LevelsOf(c), NEW j \in DOMAIN Layer(k), Past(c, k, j)'
                 PROVE  Right(c, k, j)'
      BY <1>7 DEF Built
    <3>0. j \in Nat /\ k \in Nat
      BY UnitNumbers DEF IInv, Typed
    <3>1. k <= l
      BY <1>1, <1>3, <1>5, <3>0 DEF Past, Reads
    <3>2. CASE k # l \/ j # i
      <4>1. Past(c, k, j)
        BY <1>0, <1>1, <1>3, <1>5, <3>0, <3>2 DEF Past, Reads
      <4>2. ~ (k > 0 /\ NotFound(c))
        BY <1>5, <2>4, <3>0, <3>1 DEF NotFound
      <4>3. Right(c, k, j)
        BY <2>2, <4>1, <4>2 DEF Built
      <4>4. Stored(c, k, j)' = Stored(c, k, j)
        BY <1>2, <1>6, <3>2 DEF Stored
      <4> QED
        BY <1>1, <2>5, <3>0, <3>1, <4>3, <4>4, RightKept
    <3>3. CASE k = l /\ j = i
      <4>1. Stored(c, l, i)' = {n}
        BY <1>2, <1>6, <2>4, <1>5 DEF Stored
      <4>2. Included(c, l, i)'
        BY <1>1, <1>5, <1>7, <2>3, <2>5 DEF Included
      <4>3. Layer(l)' = Layer(l) /\ (Parses(f)' <=> Parses(f))
        BY <1>7 DEF Parses
      <4>4. ASSUME l > 0
            PROVE  \E p \in Named(c, l, f.parent) : p.index = n.parent
        <5>1. PICK p \in Named(c, l, f.parent) : P = {p} /\ Newest(P) = p
          BY <1>5, <2>2, <2>3, <4>4, OneParent DEF IInv, TreesInv
        <5> QED
          BY <1>2, <5>1
      <4>5. Named(c, l, f.parent)' = Named(c, l, f.parent)
        BY <1>5, <1>7, <2>5
      <4>6. Right(c, l, i)'
        BY <1>1, <1>4, <4>1, <4>2, <4>3, <4>4, <4>5 DEF Right
      <4> QED
        BY <3>3, <4>6
    <3> QED
      BY <3>2, <3>3
  <2>7. OneOfACode(c)'
    <3> SUFFICES ASSUME NEW r \in TreeOf(c)', NEW s \in TreeOf(c)', r.level = s.level,
                        UnitOf(r).code = UnitOf(s).code
                 PROVE  r = s
      BY <1>8 DEF OneOfACode
    <3> QED
      BY <1>2, <1>6, <1>8, <2>2, <2>3 DEF OneOfACode
  <2>8. NothingAhead(c)'
    BY <1>2, <1>3, <1>5, <1>6, <2>4 DEF NothingAhead, Reads
  <2>9. AboutToStore(c)'
    BY <1>3 DEF AboutToStore
  <2>10. HasRoot(c)'
    BY <1>1, <1>2, <2>2 DEF HasRoot, Known, Countries, Clone
  <2> QED
    BY <2>6, <2>7, <2>8, <2>9, <2>10
<1>12. Tree(c)'
  BY <1>11 DEF Tree
<1>13. /\ upload'[c].max = upload[c].max /\ upload[c].status # "" /\ upload'[c].status # "Started"
       /\ \A d \in Country \ {c} : upload'[d] = upload[d]
  BY <1>1
<1> QED
  BY <1>1, <1>3, <1>6, <1>9, <1>10, <1>12, <1>13, OneTree

\* A country that the files hold has a tree once the file of level 0 was read:
\* preprocessing could read its geometry.
LEMMA TreeThere ==
    ASSUME IInv, TreesInv, NEW c \in Country, upload[c].status # "",
           Countries, DOMAIN Layer(1) # {}, \A i \in DOMAIN Layer(0) : Right(c, 0, i)
    PROVE  TreeOf(c) # {}
<1>1. c \in Uploaded /\ Parseable
  BY DEF TreesInv, Prepared, Findings
<1>2. PICK i \in DOMAIN Layer(0) : Layer(0)[i].code = c
  BY <1>1 DEF Uploaded, CodesOf
<1>3. Parses(Layer(0)[i]) /\ Included(c, 0, i)
  BY <1>1, <1>2 DEF Parseable, Included
<1> QED
  BY <1>3 DEF Right, Stored

LEMMA CloseLevelTrees ==
    ASSUME IInv, IInv', TreesInv, setting' = setting, NEW c \in Country, CloseLevel(c)
    PROVE  TreesInv'
<1>0. PICK l : l = task[c].level
  OBVIOUS
<1> DEFINE E == If(l > 0 /\ WithinOthers(c, l) # {}, "Within")
<1>1. /\ task[c].pc = "read" /\ upload[c].status = "Processing" /\ Left(c) = {}
      /\ upload' = [upload EXCEPT ![c].errors = @ \cup E]
      /\ NextLevel(c, l, TreeOf(c))
      /\ UNCHANGED <<session, prepared, rows>> /\ matched' = matched
  BY <1>0 DEF CloseLevel, IInv, Marked, prepared
<1>2. /\ upload'[c].errors = upload[c].errors \cup E
      /\ upload'[c].status = "Processing" /\ upload'[c].max = upload[c].max
      /\ \A d \in Country \ {c} : upload'[d] = upload[d]
  BY <1>1 DEF IInv, Typed, Row
<1>3. /\ \A d \in Country \ {c} : task'[d] = task[d]
      /\ \/ /\ task'[c].pc = "read" /\ task'[c].index = 0
            /\ task'[c].level \in LevelsOf(c) /\ task'[c].level > l
            /\ task'[c].level = 0 \/ TreeOf(c) # {}
            /\ \A j \in LevelsOf(c) :
                 j > l /\ (j = 0 \/ TreeOf(c) # {}) => task'[c].level <= j
         \/ /\ task'[c].pc = "verdict"
            /\ \A j \in LevelsOf(c) : ~ (j > l /\ (j = 0 \/ TreeOf(c) # {}))
  BY <1>1, Next_Level DEF IInv
<1>4. /\ l \in Nat /\ task[c].index \in Nat /\ l \in LevelsOf(c) /\ LevelsOf(c) \subseteq Nat
      /\ Countries => 0 \in LevelsOf(c)
  BY <1>0, <1>1, TaskTyped DEF IInv, TreesInv, Reading, Reads
<1>5. /\ LevelsOf(c)' = LevelsOf(c) /\ \A k : Layer(k)' = Layer(k)
      /\ \A d \in Country : TreeOf(d)' = TreeOf(d)
  BY <1>1, <1>2, SameUnits DEF LevelsOf, TreeOf
<1>6. RowsTyped'
  BY <1>1, FewerRows DEF TreesInv
<1>7. Reading(c)'
  BY <1>3, <1>5 DEF Reading, Reads
<1> USE SameTree
<1>8. ASSUME Clean(c)'
      PROVE  (/\ Built(c) /\ OneOfACode(c) /\ NothingAhead(c)
              /\ AboutToStore(c) /\ HasRoot(c))'
  <2>1. Clean(c)
    BY <1>2, <1>8 DEF Clean
  <2>2. Built(c) /\ OneOfACode(c) /\ NothingAhead(c) /\ HasRoot(c)
    BY <2>1 DEF TreesInv, Tree
  <2>3. ASSUME NEW k \in LevelsOf(c), k <= l, NEW j \in DOMAIN Layer(k)
        PROVE  Right(c, k, j) \/ (k > 0 /\ NotFound(c))
    <3>1. CASE Past(c, k, j)
      BY <2>2, <3>1 DEF Built
    <3>2. CASE ~ Past(c, k, j)
      <4>0. j \in Nat /\ k \in Nat
        BY UnitNumbers DEF IInv, Typed
      <4>1. k = l /\ j > task[c].index
        BY <1>0, <1>1, <1>4, <2>3, <3>2, <4>0 DEF Past, Reads
      <4>2. Stored(c, k, j) = {}
        BY <1>0, <1>1, <1>4, <2>2, <4>0, <4>1 DEF NothingAhead, Reads, Stored
      <4>3. ~ Included(c, k, j)
        BY <1>0, <1>1, <4>1 DEF Left
      <4> QED
        BY <4>2, <4>3, RightAbsent
    <3> QED
      BY <3>1, <3>2
  <2>4. ASSUME NEW k \in LevelsOf(c), k > l, NEW j \in DOMAIN Layer(k), Past(c, k, j)'
        PROVE  Right(c, k, j) \/ (k > 0 /\ NotFound(c))
    <3>0. j \in Nat \ {0} /\ k \in Nat \ {0}
      <4>1. j \in Nat \ {0}
        BY UnitNumbers DEF IInv, Typed
      <4>2. k \in Nat \ {0}
        BY <1>4, <2>4
      <4> QED
        BY <4>1, <4>2
    <3>1. TreeOf(c) = {}
      <4>1. CASE task'[c].pc = "verdict"
        BY <1>3, <2>4, <4>1
      <4>2. CASE task'[c].pc = "read" /\ task'[c].index = 0
        <5>1. k < task'[c].level
          BY <1>2, <1>3, <1>4, <2>4, <3>0, <4>2 DEF Past, Reads
        <5> QED
          BY <1>3, <1>4, <2>4, <3>0, <4>2, <5>1
      <4> QED
        BY <1>3, <4>1, <4>2
    <3>2. CASE ~ Known(c)
      BY <3>0, <3>1, <3>2 DEF NotFound
    <3>3. CASE Known(c)
      <4>1. Countries
        BY <1>1, <2>2, <3>1, <3>3 DEF HasRoot, TreeOf, Clone
      <4>2. Stored(c, k, j) = {} /\ \A x : Named(c, k, x) = {}
        BY <3>1 DEF Stored, Named, ParentRows
      <4>3. CASE k = 1
        <5>1. \A i \in DOMAIN Layer(0) : Right(c, 0, i)
          BY <1>4, <2>3, <4>1
        <5>2. TreeOf(c) # {}
          BY <1>1, <2>4, <4>1, <4>3, <5>1, TreeThere
        <5> QED
          BY <3>1, <5>2
      <4>4. CASE k # 1
        <5>1. ~ Included(c, k, j)
          BY <3>0, <4>2, <4>4 DEF Included
        <5> QED
          BY <4>2, <5>1, RightAbsent
      <4> QED
        BY <4>3, <4>4
    <3> QED
      BY <3>2, <3>3
  <2>5. Built(c)'
    <3> SUFFICES ASSUME NEW k \in LevelsOf(c), NEW j \in DOMAIN Layer(k), Past(c, k, j)'
                 PROVE  Right(c, k, j)' \/ (k > 0 /\ NotFound(c)')
      BY <1>5 DEF Built
    <3>1. Right(c, k, j) \/ (k > 0 /\ NotFound(c))
      BY <1>4, <2>3, <2>4
    <3>2. Right(c, k, j) => Right(c, k, j)'
      BY <1>1, <1>2, <1>5, RightKept
    <3>3. NotFound(c)' = NotFound(c)
      BY <1>1, <1>5
    <3> QED
      BY <3>1, <3>2, <3>3
  <2>6. OneOfACode(c)'
    BY <1>1, <1>5, <2>2 DEF OneOfACode
  <2>7. NothingAhead(c)'
    <3>1. \A r \in TreeOf(c) : r.level <= l /\ r.level \in Nat
      BY <1>0, <1>1, <2>2 DEF NothingAhead, Reads, TreesInv, RowsTyped, TreeOf
    <3> QED
      BY <1>3, <1>4, <1>5, <3>1 DEF NothingAhead, Reads
  <2>8. AboutToStore(c)'
    BY <1>3 DEF AboutToStore
  <2>9. HasRoot(c)'
    BY <1>1, <1>2, <1>5, <2>2 DEF HasRoot
  <2> QED
    BY <2>5, <2>6, <2>7, <2>8, <2>9
<1>9. Tree(c)'
  BY <1>8 DEF Tree
<1> QED
  BY <1>1, <1>2, <1>3, <1>5, <1>6, <1>7, <1>9, OneTree

LEMMA FinishTrees ==
    ASSUME IInv, IInv', TreesInv, setting' = setting, NEW c \in Country, Finish(c)
    PROVE  TreesInv'
<1> DEFINE E == upload[c].errors \cup If(NotFound(c), "CodeMissing")
<1>1. /\ task[c].pc = "verdict" /\ upload[c].status = "Processing"
      /\ upload' = [upload EXCEPT ![c].errors = E,
                                  ![c].status = IF E = {} THEN "Valid" ELSE "Error"]
      /\ task' = [task EXCEPT ![c] = Idle]
      /\ UNCHANGED <<session, prepared, rows>> /\ matched' = matched
  <2>1. (~ Known(c) /\ TreeOf(c) = {}) <=> NotFound(c)
    BY DEF NotFound
  <2>2. If(~ Known(c) /\ TreeOf(c) = {}, "CodeMissing") = If(NotFound(c), "CodeMissing")
    BY <2>1 DEF If
  <2> QED
    BY <2>2 DEF Finish, IInv, Marked, prepared
<1>2. /\ upload'[c].errors = E /\ upload'[c].status \in {"Valid", "Error"}
      /\ upload'[c].max = upload[c].max
      /\ \A d \in Country \ {c} : upload'[d] = upload[d]
  BY <1>1 DEF IInv, Typed, Row
<1>3. task'[c].pc = "idle" /\ \A d \in Country \ {c} : task'[d] = task[d]
  BY <1>1 DEF IInv, Typed, Idle
<1>4. /\ LevelsOf(c)' = LevelsOf(c) /\ \A k : Layer(k)' = Layer(k)
      /\ \A d \in Country : TreeOf(d)' = TreeOf(d)
  BY <1>1, <1>2, SameUnits DEF LevelsOf, TreeOf
<1>5. RowsTyped'
  BY <1>1, FewerRows DEF TreesInv
<1>6. Reading(c)'
  BY <1>3 DEF Reading, Reads
<1> USE SameTree
<1>7. ASSUME Clean(c)'
      PROVE  (/\ Built(c) /\ OneOfACode(c) /\ NothingAhead(c)
              /\ AboutToStore(c) /\ HasRoot(c))'
  <2>1. Clean(c) /\ ~ NotFound(c)
    BY <1>2, <1>7 DEF Clean, If, Blocking
  <2>2. Built(c) /\ OneOfACode(c) /\ HasRoot(c)
    BY <2>1 DEF TreesInv, Tree
  <2>3. Built(c)'
    <3> SUFFICES ASSUME NEW k \in LevelsOf(c), NEW j \in DOMAIN Layer(k)
                 PROVE  Right(c, k, j)'
      BY <1>4 DEF Built
    <3>1. Right(c, k, j)
      BY <1>1, <2>1, <2>2 DEF Built, Past
    <3> QED
      BY <1>1, <1>2, <1>4, <3>1, RightKept
  <2>4. OneOfACode(c)' /\ NothingAhead(c)' /\ AboutToStore(c)'
    BY <1>1, <1>3, <1>4, <2>2 DEF OneOfACode, NothingAhead, AboutToStore, Reads
  <2>5. HasRoot(c)'
    BY <1>1, <1>2, <1>4, <2>1, <2>2 DEF HasRoot
  <2> QED
    BY <2>3, <2>4, <2>5
<1>8. Tree(c)'
  BY <1>7 DEF Tree
<1> QED
  BY <1>1, <1>2, <1>3, <1>4, <1>5, <1>6, <1>8, OneTree

LEMMA TypeFailsTrees ==
    ASSUME IInv, IInv', TreesInv, setting' = setting, NEW c \in Country, TypeFails(c)
    PROVE  TreesInv'
<1>1. /\ upload[c].status = "Processing" /\ task' = [task EXCEPT ![c] = Idle]
      /\ UNCHANGED <<session, prepared, upload, rows>> /\ matched' = matched
  BY DEF TypeFails, IInv, Marked, prepared
<1>2. task'[c].pc = "idle" /\ \A d \in Country \ {c} : task'[d] = task[d]
  BY <1>1 DEF IInv, Typed, Idle
<1>3. /\ LevelsOf(c)' = LevelsOf(c)
      /\ \A d \in Country : TreeOf(d)' = TreeOf(d)
  BY <1>1 DEF LevelsOf, TreeOf
<1>4. RowsTyped'
  BY <1>1, FewerRows DEF TreesInv
<1>5. Reading(c)'
  BY <1>2 DEF Reading, Reads
<1> USE SameTree
<1>6. ASSUME Clean(c)'
      PROVE  (/\ Built(c) /\ OneOfACode(c) /\ NothingAhead(c)
              /\ AboutToStore(c) /\ HasRoot(c))'
  <2>1. OneOfACode(c) /\ HasRoot(c)
    BY <1>1, <1>6 DEF TreesInv, Tree, Clean
  <2>2. \A k, j : ~ Past(c, k, j)'
    BY <1>1, <1>2 DEF Past, Reads
  <2>3. Built(c)'
    BY <2>2 DEF Built
  <2>4. OneOfACode(c)' /\ NothingAhead(c)' /\ AboutToStore(c)'
    BY <1>1, <1>2, <1>3, <2>1 DEF OneOfACode, NothingAhead, AboutToStore, Reads
  <2>5. HasRoot(c)'
    BY <1>1, <1>3, <2>1 DEF HasRoot
  <2> QED
    BY <2>3, <2>4, <2>5
<1>7. Tree(c)'
  BY <1>6 DEF Tree
<1> QED
  BY <1>1, <1>2, <1>3, <1>4, <1>5, <1>7, OneTree

LEMMA NextTrees ==
    ASSUME IInv, IInv', TreesInv, [Next]_<<vars, setting>>
    PROVE  TreesInv'
<1>1. CASE UNCHANGED <<vars, setting>>
  BY <1>1, StutterTrees
<1>2. ASSUME setting' = setting, Preprocess
      PROVE  TreesInv'
  BY <1>2, PreprocessTrees
<1>3. ASSUME setting' = setting, PrepareValidation
      PROVE  TreesInv'
  BY <1>3, PrepareValidationTrees
<1>4. ASSUME setting' = setting, NEW C \in SUBSET Uploaded, Validate(C)
      PROVE  TreesInv'
  BY <1>4, ValidateTrees
<1>5. ASSUME setting' = setting, Reset
      PROVE  TreesInv'
  BY <1>5, ResetTrees
<1>6. ASSUME setting' = setting, NEW c \in Country, Begin(c)
      PROVE  TreesInv'
  BY <1>6, BeginTrees
<1>7. ASSUME setting' = setting, NEW c \in Country,
             NEW i \in Left(c), NEW doubt \in BOOLEAN, CheckUnit(c, i, doubt)
      PROVE  TreesInv'
  BY <1>7, CheckUnitTrees
<1>8. ASSUME setting' = setting, NEW c \in Country, TypeFails(c) \/ StoreUnit(c)
      PROVE  TreesInv'
  BY <1>8, TypeFailsTrees, StoreUnitTrees
<1>9. ASSUME setting' = setting, NEW c \in Country, CloseLevel(c)
      PROVE  TreesInv'
  BY <1>9, CloseLevelTrees
<1>10. ASSUME setting' = setting, NEW c \in Country, Finish(c)
       PROVE  TreesInv'
  BY <1>10, FinishTrees
<1> QED
  BY <1>1, <1>2, <1>3, <1>4, <1>5, <1>6, <1>7, <1>8, <1>9, <1>10 DEF Next, TaskStep

LEMMA TreesInvariant == Spec => [](IInv /\ TreesInv)
<1>1. Init => IInv /\ TreesInv
  BY InitHolds, InitTrees
<1>2. IInv /\ TreesInv /\ [Next]_<<vars, setting>> => (IInv /\ TreesInv)'
  BY NextHolds, NextTrees
<1> QED
  BY <1>1, <1>2, PTL DEF Spec

\* An upload that may be sent to review, if only by a superuser, has been read
\* to the end, and its tree is right.
LEMMA ImportableRight ==
    ASSUME IInv, TreesInv, NEW c \in Country, NEW superuser, Importable(c, superuser)
    PROVE  /\ Clean(c) /\ ~ NotFound(c) /\ HasRoot(c) /\ OneOfACode(c)
           /\ upload[c].status \in {"Valid", "Error"}
           /\ superuser = FALSE => upload[c].errors \subseteq Allowable
           /\ \A l \in LevelsOf(c) : \A i \in DOMAIN Layer(l) : Right(c, l, i)
<1>1. /\ upload[c].status \in {"Valid", "Error"}
      /\ upload[c].errors \subseteq SuperadminBypass
      /\ superuser = FALSE => upload[c].errors \subseteq Allowable
  BY DEF Importable, IInv, Marked, SuperadminBypass, Allowable
<1>2. Clean(c)
  BY <1>1 DEF Clean, Blocking, SuperadminBypass, Allowable
<1>3. Built(c) /\ HasRoot(c) /\ OneOfACode(c)
  BY <1>2 DEF TreesInv, Tree
<1>4. ~ NotFound(c)
  BY <1>1, <1>3 DEF HasRoot
<1> QED
  BY <1>1, <1>2, <1>3, <1>4 DEF Built, Past

\* For any files and however the validations of a session interleave: the
\* tree that is offered for import, to users or superusers, is what the files
\* say of the country, each unit below its parent (run_validation).
THEOREM OfferedTreeIsFile == Spec => []TreeIsFile
<1>1. IInv /\ TreesInv => TreeIsFile
  <2> SUFFICES ASSUME IInv, TreesInv, NEW c \in Country, Importable(c, TRUE),
                      NEW l \in LevelsOf(c) \ {0}, NEW i \in DOMAIN Layer(l)
               PROVE  /\ Stored(c, l, i) # {} <=>
                           /\ Parses(Layer(l)[i])
                           /\ IF l = 1 /\ matched[c] # {} THEN i \in matched[c]
                              ELSE Named(c, l, Layer(l)[i].parent) # {}
                      /\ \A r \in Stored(c, l, i) :
                           \E p \in Named(c, l, Layer(l)[i].parent) : p.index = r.parent
    BY DEF TreeIsFile, Stored
  <2>1. Right(c, l, i) /\ l \in Nat
    BY ImportableRight, TaskTyped DEF IInv
  <2> QED
    BY <2>1 DEF Right, Included
<1> QED
  BY <1>1, TreesInvariant, PTL

-----------------------------------------------------------------------------
(* Natural numbers                                                         *)

\* Some natural numbers have a least one.
LEMMA LeastExists ==
    ASSUME NEW S, S \subseteq Nat, S # {}
    PROVE  \E m \in S : \A y \in S : m <= y
<1>1. PICK m \in S : \A y \in S : ~ (<<y, m>> \in OpToRel(<, Nat))
  BY NatLessThanWellFounded, WFMin
<1>2. \A y \in S : ~ (y < m)
  BY <1>1 DEF OpToRel
<1> QED
  BY <1>2

\* What is in some numbers and passes from each number to the next is in all.
LEMMA AllNumbers ==
    ASSUME NEW S, 0 \in S, \A n \in Nat : n \in S => n + 1 \in S
    PROVE  Nat \subseteq S
<1> SUFFICES ASSUME Nat \ S # {}
             PROVE  FALSE
  OBVIOUS
<1>1. PICK m \in Nat \ S : \A y \in Nat \ S : m <= y
  BY LeastExists
<1>2. m - 1 \in Nat /\ m - 1 \notin Nat \ S
  BY <1>1
<1> QED
  BY <1>1, <1>2

\* Numbers that have a bound have a greatest one; finitely many have a bound.
LEMMA GreatestExists ==
    ASSUME NEW S, S \subseteq Nat, S # {}, NEW b \in Nat, \A y \in S : y <= b
    PROVE  Max(S) \in S /\ \A y \in S : y <= Max(S)
<1> DEFINE D == {b - y : y \in S}
<1>1. D \subseteq Nat /\ D # {}
  <2>1. ASSUME NEW y \in S
        PROVE  b - y \in Nat
    OBVIOUS
  <2> QED
    BY <2>1
<1>2. PICK d \in D : \A e \in D : d <= e
  BY <1>1, LeastExists
<1>3. PICK m \in S : d = b - m
  BY <1>2
<1>4. \A y \in S : m >= y
  <2> SUFFICES ASSUME NEW y \in S
               PROVE  m >= y
    OBVIOUS
  <2>1. b - m <= b - y /\ y \in Nat /\ m \in Nat
    BY <1>2, <1>3
  <2> QED
    BY <2>1
<1>5. Max(S) \in S /\ \A y \in S : Max(S) >= y
  BY <1>4 DEF Max
<1>6. \A y \in S : y \in Nat
  OBVIOUS
<1> QED
  BY <1>5, <1>6

LEMMA FiniteBound ==
    ASSUME NEW S, S \subseteq Nat, IsFiniteSet(S)
    PROVE  \E b \in Nat : \A y \in S : y <= b
<1> DEFINE K == {n \in Nat : \A T \in SUBSET Nat : IsFiniteSet(T) /\ Cardinality(T) = n
                               => \E b \in Nat : \A y \in T : y <= b}
<1>1. 0 \in K
  BY FS_EmptySet
<1>2. ASSUME NEW n \in Nat, n \in K
      PROVE  n + 1 \in K
  <2>1. ASSUME NEW T \in SUBSET Nat, IsFiniteSet(T), Cardinality(T) = n + 1
        PROVE  \E b \in Nat : \A y \in T : y <= b
    <3>1. T # {}
      BY <1>2, <2>1, FS_EmptySet
    <3>2. PICK x \in T : TRUE
      BY <3>1
    <3>3. IsFiniteSet(T \ {x}) /\ Cardinality(T \ {x}) = n
      <4>1. IsFiniteSet(T \ {x}) /\ Cardinality(T \ {x}) = Cardinality(T) - 1
        BY <2>1, <3>2, FS_RemoveElement
      <4> QED
        BY <1>2, <2>1, <4>1
    <3>4. T \ {x} \in SUBSET Nat
      OBVIOUS
    <3>5. PICK b \in Nat : \A y \in T \ {x} : y <= b
      BY <1>2, <3>3, <3>4
    <3>6. x \in Nat /\ x + b \in Nat /\ \A y \in T : y <= x + b
      BY <3>5
    <3> QED
      BY <3>6
  <2> QED
    BY <1>2, <2>1
<1> HIDE DEF K
<1>3. Nat \subseteq K
  BY <1>1, <1>2, AllNumbers
<1> QED
  BY <1>3, FS_CardinalityType DEF K

Sequence(S, a, step) ==
    \E f \in [Nat -> S] : f[0] = a /\ \A n \in Nat : f[n + 1] = step[<<n, f[n]>>]

\* A sequence of which the first value and each next one are given exists.
LEMMA SequenceExists ==
    ASSUME NEW S, NEW a \in S, NEW step \in [Nat \X S -> S]
    PROVE  Sequence(S, a, step)
<1> DEFINE Start(n, h) == /\ h \in [0 .. n -> S] /\ h[0] = a
                          /\ \A m \in Nat : m < n => h[m + 1] = step[<<m, h[m]>>]
           K == {n \in Nat : \E h : Start(n, h)}
<1>1. Nat \subseteq K
  <2>1. 0 \in K
    <3>1. Start(0, [m \in 0 .. 0 |-> a])
      OBVIOUS
    <3> QED
      BY <3>1
  <2>2. ASSUME NEW n \in Nat, n \in K
        PROVE  n + 1 \in K
    <3>1. PICK h : Start(n, h)
      BY <2>2
    <3> DEFINE g == [m \in 0 .. (n + 1) |-> IF m <= n THEN h[m] ELSE step[<<n, h[n]>>]]
    <3>2. h[n] \in S /\ step[<<n, h[n]>>] \in S
      BY <3>1
    <3>3. g \in [0 .. (n + 1) -> S]
      BY <3>1, <3>2
    <3>4. \A m \in Nat : m <= n => g[m] = h[m]
      OBVIOUS
    <3>5. g[n + 1] = step[<<n, h[n]>>]
      OBVIOUS
    <3>6. ASSUME NEW m \in Nat, m < n + 1
          PROVE  g[m + 1] = step[<<m, g[m]>>]
      <4>1. CASE m = n
        <5>1. g[n] = h[n]
          BY <2>2, <3>4
        <5> HIDE DEF g
        <5> QED
          BY <3>5, <4>1, <5>1
      <4>2. CASE m # n
        <5>1. m < n /\ m + 1 <= n /\ m + 1 \in Nat /\ m <= n
          BY <2>2, <3>6, <4>2
        <5>2. g[m + 1] = h[m + 1] /\ g[m] = h[m]
          BY <3>4, <5>1
        <5> HIDE DEF g
        <5> QED
          BY <3>1, <5>1, <5>2
      <4> QED
        BY <4>1, <4>2
    <3>7. Start(n + 1, g)
      <4>1. g[0] = a
        BY <2>2, <3>1, <3>4
      <4> HIDE DEF g
      <4> QED
        BY <3>3, <3>6, <4>1
    <3>8. \E k : Start(n + 1, k)
      <4> HIDE DEF g, Start
      <4> QED
        BY <3>7
    <3> HIDE DEF g, Start
    <3> QED
      BY <2>2, <3>8
  <2> HIDE DEF K
  <2> QED
    BY <2>1, <2>2, AllNumbers
<1>2. ASSUME NEW n \in Nat, NEW m \in Nat, NEW g, NEW h, Start(n, g), Start(m, h),
             NEW k \in Nat, k <= n, k <= m
      PROVE  g[k] = h[k]
  <2> DEFINE J == {j \in Nat : j <= n /\ j <= m => g[j] = h[j]}
  <2>1. 0 \in J
    BY <1>2
  <2>2. ASSUME NEW j \in Nat, j \in J
        PROVE  j + 1 \in J
    <3> SUFFICES ASSUME j + 1 <= n, j + 1 <= m
                 PROVE  g[j + 1] = h[j + 1]
      BY <2>2
    <3>1. j < n /\ j < m /\ g[j] = h[j]
      BY <1>2, <2>2
    <3> QED
      BY <1>2, <2>2, <3>1
  <2> HIDE DEF J
  <2>3. Nat \subseteq J
    BY <2>1, <2>2, AllNumbers
  <2> QED
    BY <1>2, <2>3 DEF J
<1> DEFINE h(n) == CHOOSE h : Start(n, h)
           f == [n \in Nat |-> h(n)[n]]
<1>3. \A n \in Nat : Start(n, h(n))
  BY <1>1
<1> HIDE DEF h
<1>4. \A n \in Nat : h(n)[n] \in S
  BY <1>3
<1>5. f[0] = a
  BY <1>3
<1>6. ASSUME NEW n \in Nat
      PROVE  f[n + 1] = step[<<n, f[n]>>]
  <2>1. h(n + 1)[n + 1] = step[<<n, h(n + 1)[n]>>]
    BY <1>3
  <2>2. h(n + 1)[n] = h(n)[n]
    <3> HIDE DEF Start
    <3> QED
      BY <1>2, <1>3
  <2> QED
    BY <2>1, <2>2
<1>7. f \in [Nat -> S]
  BY <1>4
<1> QED
  BY <1>5, <1>6, <1>7 DEF Sequence

-----------------------------------------------------------------------------
(* The level that is offered                                               *)

\* The codes of the units of l that name one of S as their parent
Hung(l, S) == {Layer(l)[i].code : i \in {j \in DOMAIN Layer(l) : Layer(l)[j].parent \in S}}

Codes == Code \cup {NoCode}

LEMMA BelowNext ==
    ASSUME setting \in Setting, NEW c \in Country
    PROVE  /\ Below({c}, 1)[0] = {c}
           /\ \A n \in Nat : Below({c}, 1)[n + 1] = Hung(n + 1, Below({c}, 1)[n])
<1> DEFINE rest(f) == [l \in Nat |-> IF l < 1 THEN {c} ELSE Hung(l, f[l - 1])]
           step == [x \in Nat \X SUBSET Codes |-> Hung(x[1] + 1, x[2])]
<1>1. \A l, S : Hung(l, S) \in SUBSET Codes
  BY UnitTyped DEF Hung, Codes, Feature, Place
<1>2. {c} \in SUBSET Codes
  BY ValidationAssumption DEF Codes
<1>3. step \in [Nat \X SUBSET Codes -> SUBSET Codes]
  BY <1>1
<1>4. PICK g \in [Nat -> SUBSET Codes] :
        g[0] = {c} /\ \A n \in Nat : g[n + 1] = step[<<n, g[n]>>]
  <2>1. Sequence(SUBSET Codes, {c}, step)
    <3> HIDE DEF step, rest
    <3> QED
      BY <1>2, <1>3, SequenceExists
  <2> QED
    BY <2>1 DEF Sequence
<1>5. \A n \in Nat : g[n + 1] = Hung(n + 1, g[n])
  BY <1>4
<1>6. g = rest(g)
  <2>1. ASSUME NEW l \in Nat
        PROVE  g[l] = IF l < 1 THEN {c} ELSE Hung(l, g[l - 1])
    <3>1. CASE l = 0
      BY <1>4, <3>1
    <3>2. CASE l # 0
      <4>1. l - 1 \in Nat /\ (l - 1) + 1 = l
        BY <2>1, <3>2
      <4>2. g[(l - 1) + 1] = Hung((l - 1) + 1, g[l - 1])
        BY <1>5, <4>1
      <4> QED
        BY <2>1, <3>2, <4>1, <4>2
    <3> QED
      BY <3>1, <3>2
  <2> QED
    BY <1>4, <2>1
<1>7. Below({c}, 1) = CHOOSE f : f = rest(f)
  BY DEF Below, Hung
<1>8. Below({c}, 1) = rest(Below({c}, 1))
  <2> HIDE DEF rest
  <2> QED
    BY <1>6, <1>7
<1> DEFINE B == Below({c}, 1)
<1> HIDE DEF B
<1>9. B = [l \in Nat |-> IF l < 1 THEN {c} ELSE Hung(l, B[l - 1])]
  BY <1>8 DEF B
<1>10. B[0] = {c}
  BY <1>9
<1>11. ASSUME NEW n \in Nat
       PROVE  B[n + 1] = Hung(n + 1, B[n])
  <2>1. n + 1 \in Nat /\ ~ n + 1 < 1 /\ (n + 1) - 1 = n
    BY <1>11
  <2> QED
    BY <1>9, <2>1
<1> QED
  BY <1>10, <1>11 DEF B

\* The levels found are levels of the search, so there is a greatest one.
LEMMA GreatestFound ==
    ASSUME setting \in Setting, NEW c,
           {l \in 1 .. Max({k \in DOMAIN setting.layers : k > 0} \cup {0}) : Reaches(c, l)} # {}
    PROVE  OfferedLevel(c) \in Nat /\ Reaches(c, OfferedLevel(c))
<1> DEFINE levels == {k \in DOMAIN setting.layers : k > 0} \cup {0}
           found == {l \in 1 .. Max(levels) : Reaches(c, l)}
<1>1. levels \subseteq Nat /\ IsFiniteSet(levels)
  <2>1. DOMAIN setting.layers \subseteq Nat /\ IsFiniteSet(DOMAIN setting.layers)
    BY ValidationAssumption
  <2>2. levels \subseteq DOMAIN setting.layers \cup {0}
    OBVIOUS
  <2>3. IsFiniteSet(DOMAIN setting.layers \cup {0})
    BY <2>1, FS_AddElement
  <2> QED
    BY <2>1, <2>2, <2>3, FS_Subset
<1>2. Max(levels) \in Nat
  <2>1. PICK b \in Nat : \A y \in levels : y <= b
    BY <1>1, FiniteBound
  <2>2. 0 \in levels
    OBVIOUS
  <2> HIDE DEF levels
  <2>3. Max(levels) \in levels
    BY <1>1, <2>1, <2>2, GreatestExists
  <2> QED
    BY <1>1, <2>3
<1>3. Max(found) \in found
  <2>1. found \subseteq Nat /\ found # {} /\ \A y \in found : y <= Max(levels)
    <3> HIDE DEF levels
    <3>1. found \subseteq 1 .. Max(levels)
      OBVIOUS
    <3>2. found # {}
      BY DEF levels
    <3> HIDE DEF found
    <3> QED
      BY <1>2, <3>1, <3>2
  <2> HIDE DEF found, levels
  <2> QED
    BY <1>2, <2>1, GreatestExists
<1>4. OfferedLevel(c) = Max(found)
  BY DEF OfferedLevel
<1> HIDE DEF levels
<1> QED
  BY <1>2, <1>3, <1>4

\* Below a level without codes are none.
LEMMA NoneBelow ==
    ASSUME setting \in Setting, NEW c \in Country, NEW l \in Nat, Below({c}, 1)[l] = {}
    PROVE  \A m \in Nat : m >= l => Below({c}, 1)[m] = {}
<1> DEFINE K == {n \in Nat : n >= l => Below({c}, 1)[n] = {}}
<1>1. 0 \in K
  BY BelowNext
<1>2. ASSUME NEW n \in Nat, n \in K
      PROVE  n + 1 \in K
  <2> SUFFICES ASSUME n + 1 >= l
               PROVE  Below({c}, 1)[n + 1] = {}
    BY <1>2
  <2>1. CASE n + 1 = l
    BY <2>1
  <2>2. CASE n + 1 # l
    <3>1. n >= l
      BY <1>2, <2>2
    <3>2. Below({c}, 1)[n] = {}
      BY <1>2, <3>1
    <3>3. Below({c}, 1)[n + 1] = Hung(n + 1, {})
      BY <1>2, <3>2, BelowNext
    <3> QED
      BY <3>3 DEF Hung
  <2> QED
    BY <2>1, <2>2
<1> HIDE DEF K
<1>3. Nat \subseteq K
  BY <1>1, <1>2, AllNumbers
<1> QED
  BY <1>3 DEF K

\* What is known of an upload that a user may send to review: it is of a
\* published country, every unit that belongs to its tree is in it, and every
\* unit that lies in the country names it as its parent.
LEMMA ImportableFaultless ==
    ASSUME IInv, TreesInv, NEW c \in Country, Importable(c, FALSE)
    PROVE  /\ ~ Countries /\ matched[c] = Children(c) /\ matched[c] # {}
           /\ upload[c].max <= OfferedLevel(c)
           /\ \A l \in LevelsOf(c) : \A i \in DOMAIN Layer(l) :
                Included(c, l, i) => \E r \in TreeOf(c) :
                  r.level = l /\ UnitOf(r).code = Layer(l)[i].code
           /\ 1 \in LevelsOf(c) => \A i \in matched[c] : Layer(1)[i].parent = c
<1>1. /\ HasRoot(c) /\ upload[c].errors \subseteq Allowable
      /\ \A l \in LevelsOf(c) : \A i \in DOMAIN Layer(l) : Right(c, l, i)
      /\ upload[c].status \in {"Valid", "Error"}
  BY ImportableRight
<1>2. "Degenerate" \notin upload[c].errors /\ "NotWithinParent" \notin upload[c].errors
  BY <1>1 DEF Allowable
<1>3. /\ c \in Uploaded /\ upload[c].max <= offered[c]
      /\ matched[c] = Children(c) /\ offered[c] = OfferedLevel(c)
  BY <1>1 DEF TreesInv, Prepared, Findings
<1>4. ASSUME NEW l \in LevelsOf(c), NEW i \in DOMAIN Layer(l), Included(c, l, i)
      PROVE  Stored(c, l, i) # {}
  BY <1>1, <1>2, <1>4 DEF Right
<1>5. ~ Countries
  <2> SUFFICES ASSUME Countries
               PROVE  FALSE
    OBVIOUS
  <2>1. 0 \in LevelsOf(c)
    BY TaskTyped DEF IInv
  <2>2. PICK i \in DOMAIN Layer(0) : Layer(0)[i].code = c
    BY <1>3 DEF Uploaded, CodesOf
  <2>3. Included(c, 0, i)
    BY <2>2 DEF Included
  <2>4. Stored(c, 0, i) # {}
    BY <1>4, <2>1, <2>3
  <2> QED
    BY <1>1, <1>2, <2>1, <2>4 DEF Right
<1>6. matched[c] # {}
  BY <1>3, <1>5 DEF Uploaded
<1>7. ASSUME NEW l \in LevelsOf(c), NEW i \in DOMAIN Layer(l), Included(c, l, i)
      PROVE  \E r \in TreeOf(c) : r.level = l /\ UnitOf(r).code = Layer(l)[i].code
  <2>1. PICK r \in Stored(c, l, i) : TRUE
    BY <1>4, <1>7
  <2>2. r \in TreeOf(c) /\ r.level = l /\ r.index = i
    BY <2>1 DEF Stored
  <2>3. i # 0
    BY UnitNumbers DEF IInv, Typed
  <2> QED
    BY <2>2, <2>3 DEF UnitOf
<1>8. ASSUME 1 \in LevelsOf(c), NEW i \in matched[c]
      PROVE  Layer(1)[i].parent = c
  <2>1. i \in DOMAIN Layer(1)
    BY <1>3, <1>8 DEF Children
  <2>2. Included(c, 1, i)
    BY <1>8 DEF Included
  <2>3. PICK r \in Stored(c, 1, i) : TRUE
    BY <1>4, <1>8, <2>1, <2>2
  <2>4. PICK p \in Named(c, 1, Layer(1)[i].parent) : TRUE
    BY <1>1, <1>8, <2>1, <2>3 DEF Right
  <2>5. p \in rows /\ p.upload = c /\ p.level = 0 /\ UnitOf(p).code = Layer(1)[i].parent
    BY <2>4 DEF Named, ParentRows, TreeOf
  <2> QED
    BY <2>5 DEF TreesInv, RowsTyped
<1> QED
  BY <1>3, <1>5, <1>6, <1>7, <1>8

\* The codes that the files hang below such a country, as far as it is
\* validated, are codes of its tree.
LEMMA BelowStored ==
    ASSUME IInv, TreesInv, NEW c \in Country, Importable(c, FALSE),
           \A i \in DOMAIN Layer(1) : Layer(1)[i].parent = c => i \in matched[c],
           NEW n \in Nat, n <= upload[c].max, n > 0
    PROVE  \A x \in Below({c}, 1)[n] : \E r \in TreeOf(c) : r.level = n /\ UnitOf(r).code = x
<1>0. setting \in Setting
  BY DEF IInv, Typed
<1> DEFINE There(m) == 0 < m /\ m <= upload[c].max =>
                         \A x \in Below({c}, 1)[m] :
                           \E r \in TreeOf(c) : r.level = m /\ UnitOf(r).code = x
           K == {m \in Nat : There(m)}
<1>1. 0 \in K
  OBVIOUS
<1>2. ASSUME NEW m \in Nat, m \in K
      PROVE  There(m + 1)
  <2> SUFFICES ASSUME m + 1 <= upload[c].max, NEW x \in Below({c}, 1)[m + 1]
               PROVE  \E r \in TreeOf(c) : r.level = m + 1 /\ UnitOf(r).code = x
    OBVIOUS
  <2>1. x \in Hung(m + 1, Below({c}, 1)[m])
    BY <1>0, <1>2, BelowNext
  <2>2. PICK i \in DOMAIN Layer(m + 1) :
          x = Layer(m + 1)[i].code /\ Layer(m + 1)[i].parent \in Below({c}, 1)[m]
    BY <2>1 DEF Hung
  <2>3. m + 1 \in LevelsOf(c)
    BY <1>0, UnitNumbers DEF LevelsOf
  <2>4. Included(c, m + 1, i)
    <3>1. CASE m = 0
      <4>1. Layer(1)[i].parent = c
        BY <1>0, <2>2, <3>1, BelowNext
      <4>2. i \in matched[c]
        BY <2>2, <3>1, <4>1
      <4> QED
        BY <3>1, <4>2 DEF Included
    <3>2. CASE m # 0
      <4>1. 0 < m /\ m <= upload[c].max
        <5>1. upload[c].max \in Nat
          BY TaskTyped DEF IInv
        <5> QED
          BY <1>2, <3>2, <5>1
      <4>2. PICK r \in TreeOf(c) : r.level = m /\ UnitOf(r).code = Layer(m + 1)[i].parent
        BY <1>2, <2>2, <4>1
      <4>3. r \in Named(c, m + 1, Layer(m + 1)[i].parent)
        BY <1>2, <4>2 DEF Named, ParentRows
      <4> QED
        BY <1>2, <3>2, <4>3 DEF Included
    <3> QED
      BY <3>1, <3>2
  <2>5. \A k \in LevelsOf(c) : \A j \in DOMAIN Layer(k) : Included(c, k, j) =>
          \E r \in TreeOf(c) : r.level = k /\ UnitOf(r).code = Layer(k)[j].code
    BY ImportableFaultless
  <2> QED
    BY <2>2, <2>3, <2>4, <2>5
<1> HIDE DEF There
<1>3. Nat \subseteq K
  <2>1. \A m \in Nat : m \in K => m + 1 \in K
    BY <1>2
  <2> HIDE DEF K
  <2> QED
    BY <1>1, <2>1, AllNumbers
<1> QED
  BY <1>3 DEF There

\* The level that was offered is reached: OfferedReached.
THEOREM OfferedLevelReached == Spec => []OfferedReached
<1>1. IInv /\ TreesInv => OfferedReached
  <2> SUFFICES ASSUME IInv, TreesInv, NEW c \in Country, Importable(c, FALSE),
                      \A i \in DOMAIN Layer(1) : Layer(1)[i].parent = c => i \in matched[c],
                      NEW l \in LevelsOf(c)
               PROVE  \E r \in TreeOf(c) : r.level = l
    BY DEF OfferedReached
  <2>0. setting \in Setting /\ l \in Nat /\ upload[c].max \in Nat /\ l <= upload[c].max
    BY TaskTyped DEF IInv, Typed, LevelsOf
  <2>1. /\ ~ Countries /\ matched[c] = Children(c) /\ matched[c] # {}
        /\ upload[c].max <= OfferedLevel(c)
    BY ImportableFaultless
  <2>2. l > 0
    BY <2>0, <2>1 DEF Countries, LevelsOf
  <2>3. PICK i \in matched[c] : i \in DOMAIN Layer(1)
    BY <2>1 DEF Children
  <2>4. 1 \in DOMAIN setting.layers /\ 1 \in LevelsOf(c)
    BY <2>0, <2>2, <2>3, UnitNumbers DEF LevelsOf
  <2>5. \A j \in Children(c) : Layer(1)[j].parent = c
    BY <2>1, <2>4, ImportableFaultless
  <2>6. Below({c}, 1)[1] # {}
    <3>1. Layer(1)[i].parent \in Below({c}, 1)[0]
      BY <2>0, <2>1, <2>5, BelowNext
    <3>2. Below({c}, 1)[0 + 1] = Hung(0 + 1, Below({c}, 1)[0])
      BY <2>0, BelowNext
    <3> QED
      BY <2>3, <3>1, <3>2 DEF Hung
  <2>7. Below({c}, 1)[l] # {}
    <3> DEFINE top == Max({k \in DOMAIN setting.layers : k > 0} \cup {0})
               found == {k \in 1 .. top : Reaches(c, k)}
    <3>1. CASE found = {}
      <4>1. OfferedLevel(c) = Min(DOMAIN setting.layers)
        BY <3>1 DEF OfferedLevel
      <4>2. PICK m \in DOMAIN setting.layers : \A k \in DOMAIN setting.layers : m <= k
        BY <2>0, <2>4, LevelsTyped, LeastExists
      <4>3. /\ Min(DOMAIN setting.layers) \in DOMAIN setting.layers
            /\ \A k \in DOMAIN setting.layers : Min(DOMAIN setting.layers) <= k
        BY <4>2 DEF Min
      <4>4. OfferedLevel(c) <= 1 /\ OfferedLevel(c) \in Nat
        BY <2>0, <2>4, <4>1, <4>3, LevelsTyped
      <4>5. l = 1
        BY <2>0, <2>1, <2>2, <4>4
      <4> QED
        BY <2>6, <4>5
    <3>2. CASE found # {}
      <4>1. OfferedLevel(c) \in Nat /\ Reaches(c, OfferedLevel(c))
        BY <2>0, <3>2, GreatestFound
      <4>2. Below({c}, 1)[OfferedLevel(c)] # {}
        BY <2>5, <4>1 DEF Reaches
      <4>3. OfferedLevel(c) >= l
        BY <2>0, <2>1, <4>1
      <4> QED
        BY <2>0, <4>1, <4>2, <4>3, NoneBelow
    <3> QED
      BY <3>1, <3>2
  <2>8. PICK x \in Below({c}, 1)[l] : TRUE
    BY <2>7
  <2> QED
    BY <2>0, <2>2, <2>8, BelowStored
<1> QED
  BY <1>1, TreesInvariant, PTL

\* Whose units are of a flawless country of its own
Apart(c) ==
    /\ upload[c].errors = {}
    /\ \A r \in rows : r.level > 0 => (r.index \in Own(c)[r.level] <=> r.upload = c)
    /\ \A d \in Country : task[d].pc = "store" =>
         (task[d].index \in Own(c)[task[d].level] <=> d = c)

\* A published country with which the files have no fault
Favoured(c) == ~ Countries /\ Known(c) /\ Flawless(c)

FlawlessInv ==
    \A c \in Country : /\ upload[c].status = "" => upload[c].errors = {}
                       /\ upload[c].status = "Error" => upload[c].errors # {}
                       /\ Favoured(c) => Apart(c)

-----------------------------------------------------------------------------
(* The units of a flawless country                                         *)

\* A bounding box holds its geometry, so what is apart by box is apart.
LEMMA InBox ==
    ASSUME NEW P \in Place
    PROVE  P \subseteq Box(P)
<1>1. P \subseteq Nat /\ P # {} /\ IsFiniteSet(P)
  BY DEF Place
<1>2. PICK b \in Nat : \A y \in P : y <= b
  BY <1>1, FiniteBound
<1>3. Max(P) \in P /\ \A y \in P : y <= Max(P)
  BY <1>1, <1>2, GreatestExists
<1>4. PICK m \in P : \A y \in P : m <= y
  BY <1>1, LeastExists
<1>5. Min(P) \in P /\ \A y \in P : Min(P) <= y
  BY <1>4 DEF Min
<1> SUFFICES ASSUME NEW y \in P
             PROVE  y \in Box(P)
  OBVIOUS
<1>6. y \in Int /\ Min(P) \in Int /\ Max(P) \in Int
  <2>1. \A x \in P : x \in Int
    BY <1>1
  <2> QED
    BY <1>3, <1>5, <2>1
<1>7. Min(P) <= y /\ y <= Max(P)
  BY <1>3, <1>5
<1> QED
  BY <1>6, <1>7 DEF Box

LEMMA BoxesApart ==
    ASSUME NEW P \in Place, NEW Q \in Place, Box(P) \cap Box(Q) = {}
    PROVE  P \cap Q = {} /\ P # Q /\ ~ Q \subseteq P /\ ~ P \subseteq Q
BY InBox DEF Place

\* The units of each level are those that name one of the level above.
LEMMA OwnNext ==
    ASSUME setting \in Setting, ~ Countries, NEW c
    PROVE  /\ Own(c)[1] = matched[c]
           /\ \A n \in Nat : n > 0 => Own(c)[n + 1] =
                {i \in DOMAIN Layer(n + 1) : \E j \in Own(c)[n] :
                   Layer(n + 1)[i].parent = Layer(n)[j].code}
<1> DEFINE Next1(l, X) == IF l = 1 THEN matched[c]
                          ELSE {i \in DOMAIN Layer(l) : \E j \in X :
                                  Layer(l)[i].parent = Layer(l - 1)[j].code}
           rest(f) == [l \in Nat |-> Next1(l, f[l - 1])]
           S == SUBSET (Nat \cup matched[c])
           step == [x \in Nat \X S |-> Next1(x[1] + 1, x[2])]
<1>1. \A l, X : Next1(l, X) \in S
  BY UnitNumbers
<1>2. Layer(0) = <<>>
  BY DEF Layer, Countries
<1>3. \A X : Next1(0, X) = {}
  BY <1>2
<1> HIDE DEF Next1
<1>4. step \in [Nat \X S -> S] /\ {} \in S
  BY <1>1
<1>5. PICK g \in [Nat -> S] : g[0] = {} /\ \A n \in Nat : g[n + 1] = step[<<n, g[n]>>]
  <2>1. Sequence(S, {}, step)
    <3> HIDE DEF step, S
    <3> QED
      BY <1>4, SequenceExists
  <2> HIDE DEF step, S
  <2> QED
    BY <2>1 DEF Sequence
<1>6. \A n \in Nat : g[n + 1] = Next1(n + 1, g[n])
  <2> SUFFICES ASSUME NEW n \in Nat
               PROVE  g[n + 1] = Next1(n + 1, g[n])
    OBVIOUS
  <2>1. g[n] \in S
    BY <1>5
  <2> QED
    BY <1>5, <2>1
<1> HIDE DEF step, S
<1>7. g = rest(g)
  <2>1. ASSUME NEW l \in Nat
        PROVE  g[l] = Next1(l, g[l - 1])
    <3>1. CASE l = 0
      BY <1>3, <1>5, <3>1
    <3>2. CASE l # 0
      <4>1. PICK n \in Nat : l = n + 1
        <5>1. l - 1 \in Nat /\ l = (l - 1) + 1
          BY <2>1, <3>2
        <5> QED
          BY <5>1
      <4>2. l - 1 = n
        BY <4>1
      <4> QED
        BY <1>6, <4>1, <4>2
    <3> QED
      BY <3>1, <3>2
  <2> QED
    BY <1>5, <2>1
<1>8. Own(c) = CHOOSE f : f = rest(f)
  BY DEF Own, Next1
<1>9. Own(c) = rest(Own(c))
  <2> HIDE DEF rest
  <2> QED
    BY <1>7, <1>8
<1>10. \A l \in Nat : Own(c)[l] = Next1(l, Own(c)[l - 1])
  <2> DEFINE B == Own(c)
  <2> HIDE DEF B
  <2>1. B = [l \in Nat |-> Next1(l, B[l - 1])]
    BY <1>9 DEF B
  <2>2. \A l \in Nat : B[l] = Next1(l, B[l - 1])
    BY <2>1
  <2> QED
    BY <2>2 DEF B
<1>11. Own(c)[1] = matched[c]
  BY <1>10 DEF Next1
<1>12. ASSUME NEW n \in Nat, n > 0
       PROVE  Own(c)[n + 1] = {i \in DOMAIN Layer(n + 1) : \E j \in Own(c)[n] :
                                 Layer(n + 1)[i].parent = Layer(n)[j].code}
  <2>1. PICK m : m = n + 1
    OBVIOUS
  <2>2. m \in Nat /\ m # 1 /\ m - 1 = n
    BY <1>12, <2>1
  <2>3. Own(c)[m] = Next1(m, Own(c)[n])
    BY <1>10, <2>2
  <2>4. Next1(m, Own(c)[n]) =
          {i \in DOMAIN Layer(m) : \E j \in Own(c)[n] : Layer(m)[i].parent = Layer(n)[j].code}
    BY <2>2 DEF Next1
  <2> QED
    BY <2>1, <2>3, <2>4
<1> QED
  BY <1>11, <1>12

\* They are units of the files.
LEMMA OwnUnits ==
    ASSUME setting \in Setting, ~ Countries, Findings, NEW c \in Country, NEW l \in Nat \ {0}
    PROVE  Own(c)[l] \subseteq DOMAIN Layer(l)
<1>1. CASE l = 1
  BY <1>1, OwnNext DEF Findings, Children
<1>2. CASE l # 1
  <2>1. PICK k \in Nat : l = k + 1 /\ k > 0
    <3>1. l - 1 \in Nat /\ l - 1 > 0 /\ l = (l - 1) + 1
      BY <1>2
    <3> QED
      BY <3>1
  <2> QED
    BY <2>1, OwnNext
<1> QED
  BY <1>1, <1>2

\* What is said of a unit of a flawless country
LEMMA FlawlessUnit ==
    ASSUME setting \in Setting, NEW c \in Country, Favoured(c),
           NEW l \in Nat \ {0}, NEW i \in DOMAIN Layer(l), i \in Own(c)[l]
    PROVE  /\ Layer(l)[i].flaws = {} /\ Layer(l)[i].code # NoCode
           /\ l = 1 => Layer(l)[i].parent = c /\ Layer(l)[i].place \subseteq setting.land[c]
           /\ l > 1 => \A j \in Own(c)[l - 1] :
                Layer(l - 1)[j].code = Layer(l)[i].parent =>
                  Layer(l)[i].place \subseteq Layer(l - 1)[j].place
           /\ \A j \in DOMAIN Layer(l) : j # i =>
                /\ Layer(l)[j].code # Layer(l)[i].code
                /\ Box(Layer(l)[j].place) \cap Box(Layer(l)[i].place) = {}
<1>1. l \in DOMAIN setting.layers
  BY UnitNumbers
<1> DEFINE f == Layer(l)[i]
           Ground1 == IF l = 1 THEN {setting.land[c]}
                      ELSE {Layer(l - 1)[j].place : j \in
                             {k \in Own(c)[l - 1] : Layer(l - 1)[k].code = f.parent}}
<1>2. /\ f.flaws = {} /\ f.code # NoCode
      /\ l = 1 => f.parent = c
      /\ \A P \in Ground1 : f.place \subseteq P
      /\ \A j \in DOMAIN Layer(l) \ {i} :
           /\ Layer(l)[j].code # f.code
           /\ Box(Layer(l)[j].place) \cap Box(f.place) = {}
  BY <1>1, Zenon DEF Favoured, Flawless
<1>3. l = 1 => f.place \subseteq setting.land[c]
  BY <1>2
<1>4. ASSUME l > 1, NEW j \in Own(c)[l - 1], Layer(l - 1)[j].code = f.parent
      PROVE  f.place \subseteq Layer(l - 1)[j].place
  <2>1. l # 1
    BY <1>4
  <2>2. Layer(l - 1)[j].place \in Ground1
    BY <1>4, <2>1
  <2> QED
    BY <1>2, <2>2
<1> QED
  BY <1>2, <1>3, <1>4

\* A row below level 0 is of a unit of the files.
LEMMA RowInFile ==
    ASSUME RowsTyped, NEW r \in rows, r.level > 0
    PROVE  /\ r.upload \in Country /\ r.level \in Nat \ {0}
           /\ r.index > 0 /\ r.index \in Nat /\ r.index \in DOMAIN Layer(r.level)
           /\ UnitOf(r) = Layer(r.level)[r.index]
<1>1. r.index # 0
  BY DEF RowsTyped, Clone
<1> QED
  BY <1>1 DEF RowsTyped, UnitOf

\* A unit that is taken into a tree is one of the flawless country if and only
\* if the tree is that country's.
LEMMA OwnTaken ==
    ASSUME IInv, RowsTyped, Findings, NEW c \in Country, Favoured(c), Apart(c),
           NEW d \in Country, matched[d] # {},
           NEW l \in Nat \ {0}, NEW i \in DOMAIN Layer(l), Included(d, l, i)
    PROVE  i \in Own(c)[l] <=> d = c
<1>0. setting \in Setting /\ ~ Countries
  BY DEF IInv, Typed, Favoured
<1>1. CASE l = 1
  <2>1. i \in matched[d] /\ i \in Children(d)
    BY <1>1 DEF Included, Findings
  <2>2. MatchedParent(Layer(1)[i].place) = d
    BY <2>1 DEF Children
  <2>3. i \in matched[c] => d = c
    BY <2>2 DEF Findings, Children
  <2> QED
    BY <1>0, <1>1, <2>1, <2>3, OwnNext
<1>2. CASE l # 1
  <2>1. PICK k \in Nat : l = k + 1 /\ k > 0
    <3>1. l - 1 \in Nat /\ l - 1 > 0 /\ l = (l - 1) + 1
      BY <1>2
    <3> QED
      BY <3>1
  <2>2. PICK p : p \in Named(d, l, Layer(l)[i].parent)
    BY <1>2 DEF Included
  <2>3. p \in rows /\ p.upload = d /\ p.level = k /\ UnitOf(p).code = Layer(l)[i].parent
    <3>1. p \in rows /\ p.upload = d /\ p.level = l - 1 /\ UnitOf(p).code = Layer(l)[i].parent
      BY <2>2 DEF Named, ParentRows, TreeOf
    <3> QED
      BY <2>1, <3>1
  <2>4. p.index \in DOMAIN Layer(k) /\ UnitOf(p) = Layer(k)[p.index]
    BY <2>1, <2>3, RowInFile
  <2>5. p.index \in Own(c)[k] <=> d = c
    BY <2>1, <2>3 DEF Apart
  <2>6. Own(c)[l] = {j \in DOMAIN Layer(l) : \E m \in Own(c)[k] :
                       Layer(l)[j].parent = Layer(k)[m].code}
    BY <1>0, <2>1, OwnNext
  <2>7. CASE d = c
    BY <2>3, <2>4, <2>5, <2>6, <2>7
  <2>8. ASSUME d # c, i \in Own(c)[l]
        PROVE  FALSE
    <3>1. PICK m \in Own(c)[k] : Layer(l)[i].parent = Layer(k)[m].code
      BY <2>6, <2>8
    <3>2. m # p.index
      BY <2>5, <2>8
    <3>3. m \in DOMAIN Layer(k)
      BY <1>0, <2>1, <3>1, OwnUnits
    <3>4. \A j \in DOMAIN Layer(k) : j # m => Layer(k)[j].code # Layer(k)[m].code
      BY <1>0, <2>1, <3>1, <3>3, FlawlessUnit
    <3> QED
      BY <2>3, <2>4, <3>1, <3>2, <3>4
  <2> QED
    BY <2>7, <2>8
<1> QED
  BY <1>1, <1>2

\* Units of an upload that is validated belong to it, and level 0 has no file.
LEMMA OwnTask ==
    ASSUME IInv, TreesInv, NEW c \in Country, Favoured(c), Apart(c),
           NEW d \in Country, upload[d].status # ""
    PROVE  /\ Findings /\ matched[d] # {}
           /\ \A l \in LevelsOf(d) : l \in Nat \ {0}
           /\ \A l \in LevelsOf(d) : \A i \in DOMAIN Layer(l) :
                Included(d, l, i) => (i \in Own(c)[l] <=> d = c)
<1>1. ~ Countries
  BY DEF Favoured
<1>2. Findings /\ d \in Uploaded
  BY DEF TreesInv, Prepared
<1>3. matched[d] # {}
  BY <1>1, <1>2 DEF Uploaded
<1>4. \A l \in LevelsOf(d) : l \in Nat \ {0}
  BY <1>1, TaskTyped DEF IInv, LevelsOf, Countries
<1>5. ASSUME NEW l \in LevelsOf(d), NEW i \in DOMAIN Layer(l), Included(d, l, i)
      PROVE  i \in Own(c)[l] <=> d = c
  BY <1>2, <1>3, <1>4, <1>5, OwnTaken DEF TreesInv
<1> QED
  BY <1>2, <1>3, <1>4, <1>5

\* No other unit that is stored is near one of the flawless country.
LEMMA NoneNear ==
    ASSUME IInv, TreesInv, NEW c \in Country, Favoured(c),
           NEW l \in Nat \ {0}, NEW i \in DOMAIN Layer(l), i \in Own(c)[l],
           NEW r \in InFile(l), r.index # i
    PROVE  /\ UnitOf(r).code # Layer(l)[i].code
           /\ Box(UnitOf(r).place) \cap Box(Layer(l)[i].place) = {}
           /\ UnitOf(r).place \cap Layer(l)[i].place = {}
           /\ UnitOf(r).place # Layer(l)[i].place
           /\ ~ UnitOf(r).place \subseteq Layer(l)[i].place
           /\ ~ Layer(l)[i].place \subseteq UnitOf(r).place
<1>0. setting \in Setting
  BY DEF IInv, Typed
<1>1. r.index \in DOMAIN Layer(l) /\ UnitOf(r) = Layer(l)[r.index]
  BY RowInFile DEF InFile, TreesInv
<1>2. /\ Layer(l)[r.index].code # Layer(l)[i].code
      /\ Box(Layer(l)[r.index].place) \cap Box(Layer(l)[i].place) = {}
  BY <1>0, <1>1, FlawlessUnit
<1>3. Layer(l)[r.index].place \in Place /\ Layer(l)[i].place \in Place
  BY <1>0, <1>1, UnitTyped DEF Feature
<1> QED
  BY <1>1, <1>2, <1>3, BoxesApart

\* A unit of the flawless country is found to have no fault.
LEMMA NoFault ==
    ASSUME IInv, TreesInv, NEW c \in Country, Favoured(c), Apart(c),
           task[c].pc = "read", NEW l, l = task[c].level,
           NEW i \in DOMAIN Layer(l), i > task[c].index, Included(c, l, i),
           NEW doubt \in BOOLEAN
    PROVE  ErrorsOf(c, l, i, doubt) = {}
<1> DEFINE f == Layer(l)[i]
<1>0. setting \in Setting /\ ~ Countries /\ upload[c].status = "Processing"
  BY DEF IInv, Typed, Favoured, Marked
<1>1. l \in LevelsOf(c) /\ l \in Nat \ {0} /\ i \in Own(c)[l] /\ matched[c] # {}
  <2>1. l \in LevelsOf(c)
    BY DEF TreesInv, Reading, Reads
  <2>2. upload[c].status # ""
    BY <1>0
  <2>3. l \in Nat \ {0} /\ matched[c] # {}
    BY <2>1, <2>2, OwnTask
  <2>4. \A k \in LevelsOf(c) : \A j \in DOMAIN Layer(k) :
          Included(c, k, j) => (j \in Own(c)[k] <=> c = c)
    BY <2>2, OwnTask
  <2> QED
    BY <2>1, <2>3, <2>4
<1>2. Built(c) /\ OneOfACode(c) /\ NothingAhead(c) /\ HasRoot(c)
  BY DEF TreesInv, Tree, Clean, Apart
<1>3. /\ f.flaws = {} /\ f.code # NoCode
      /\ l = 1 => f.parent = c /\ f.place \subseteq setting.land[c]
      /\ l > 1 => \A j \in Own(c)[l - 1] : Layer(l - 1)[j].code = f.parent =>
           f.place \subseteq Layer(l - 1)[j].place
  BY <1>0, <1>1, FlawlessUnit
<1>4. \A r \in InFile(l) : r.index # i
  <2> SUFFICES ASSUME NEW r \in InFile(l), r.index = i
               PROVE  FALSE
    OBVIOUS
  <2>1. r \in rows /\ r.level = l
    BY DEF InFile
  <2>2. r.upload = c
    BY <1>1, <2>1 DEF Apart
  <2>3. r \in TreeOf(c)
    BY <2>1, <2>2 DEF TreeOf
  <2>4. i \in Nat /\ task[c].index \in Nat
    BY <1>0, UnitNumbers, TaskTyped DEF IInv
  <2> QED
    BY <1>2, <2>1, <2>3, <2>4 DEF NothingAhead, Reads
<1>5. \A r \in InFile(l) :
        /\ UnitOf(r).code # f.code /\ Box(UnitOf(r).place) \cap Box(f.place) = {}
        /\ UnitOf(r).place \cap f.place = {} /\ UnitOf(r).place # f.place
  BY <1>1, <1>4, NoneNear
<1>6. Clone(c) \in rows
  BY <1>0, <1>2 DEF HasRoot, Favoured
<1>7. Named(c, l, f.parent) # {}
  <2>1. CASE l = 1
    <3>1. Clone(c) \in Named(c, 1, c)
      BY <1>6 DEF Named, ParentRows, TreeOf, Clone, UnitOf
    <3> QED
      BY <1>3, <2>1, <3>1
  <2>2. CASE l # 1
    BY <1>1, <2>2 DEF Included
  <2> QED
    BY <2>1, <2>2
<1>8. PICK p \in Named(c, l, f.parent) : Newest(Parents(c, l, i)) = p
  <2>1. Typed /\ RowsTyped
    BY DEF IInv, TreesInv
  <2>2. OneOfACode(c) /\ l \in Nat \ {0} /\ Named(c, l, Layer(l)[i].parent) # {}
    BY <1>1, <1>2, <1>7
  <2>3. \E p \in Named(c, l, Layer(l)[i].parent) :
          Parents(c, l, i) = {p} /\ Newest(Parents(c, l, i)) = p
    BY <2>1, <2>2, OneParent
  <2> QED
    BY <2>3
<1>9. p \in rows /\ p.upload = c /\ p.level = l - 1 /\ UnitOf(p).code = f.parent
  BY <1>8 DEF Named, ParentRows, TreeOf
<1>10. f.place \subseteq UnitOf(p).place
  <2>1. CASE l = 1
    <3>1. p.level = 0 /\ DOMAIN Layer(0) = {}
      BY <1>0, <1>9, <2>1 DEF Layer, Countries
    <3>2. p = Clone(c)
      BY <1>9, <3>1 DEF TreesInv, RowsTyped
    <3>3. UnitOf(p).place = setting.land[c]
      BY <3>2 DEF UnitOf, Clone
    <3> QED
      BY <1>3, <2>1, <3>3
  <2>2. CASE l # 1
    <3>1. l > 1 /\ l - 1 \in Nat \ {0} /\ p.level > 0
      BY <1>1, <1>9, <2>2
    <3>2. p.index \in DOMAIN Layer(l - 1) /\ UnitOf(p) = Layer(l - 1)[p.index]
      BY <1>9, <3>1, RowInFile DEF TreesInv
    <3>3. p.index \in Own(c)[l - 1]
      BY <1>9, <3>1 DEF Apart
    <3> QED
      BY <1>3, <1>9, <3>1, <3>2, <3>3
  <2> QED
    BY <2>1, <2>2
<1>11. AttributeErrors(c, l, f) = {}
  <2>1. f.flaws \cap {"NameMissing", "Privacy", "RaisedPrivacy"} = {}
    BY <1>3
  <2>2. ~ \A r \in ParentRows(c, l) : UnitOf(r).code # f.parent
    BY <1>8 DEF Named
  <2>3. ~ \E r \in InFile(l) : UnitOf(r).code = f.code
    BY <1>5
  <2> QED
    BY <1>3, <2>1, <2>2, <2>3 DEF AttributeErrors, If
<1>12. Parses(f) /\ Sound(f)
  BY <1>3 DEF Parses, Sound
<1>13. GeometryErrors(l, f, doubt) = {}
  <2>1. ASSUME NEW r \in InFile(l)
        PROVE  ~ Overlapping(f, UnitOf(r))
    <3>1. f.place \cap UnitOf(r).place = {}
      BY <1>5
    <3>2. Parts({}) = {}
      BY DEF Parts
    <3> QED
      BY <3>1, <3>2 DEF Overlapping, Counts
  <2>2. \A r \in InFile(l) : UnitOf(r).place # f.place
    BY <1>5
  <2>3. \A r \in InFile(l) : Box(f.place) \cap Box(UnitOf(r).place) = {}
    BY <1>5
  <2> QED
    BY <1>3, <1>12, <2>1, <2>2, <2>3 DEF GeometryErrors, If
<1>14. HierarchyErrors(l, f, Parents(c, l, i)) = {}
  BY <1>1, <1>8, <1>10 DEF HierarchyErrors, If
<1> QED
  BY <1>11, <1>12, <1>13, <1>14 DEF ErrorsOf

-----------------------------------------------------------------------------
(* What is flawless stays apart                                            *)

LEMMA SameOwn ==
    ASSUME setting' = setting, matched' = matched
    PROVE  /\ \A c : Own(c)' = Own(c)
           /\ \A c : Favoured(c)' <=> Favoured(c)
<1>1. \A c : Own(c)' = Own(c)
  BY DEF Own, Layer
<1>2. \A c : Flawless(c)' <=> Flawless(c)
  <2> SUFFICES ASSUME NEW c
               PROVE  Flawless(c)' <=> Flawless(c)
    OBVIOUS
  <2>1. PICK own : own = Own(c) /\ own = Own(c)'
    BY <1>1
  <2> QED
    BY <2>1 DEF Flawless, Box, Layer
<1> QED
  BY <1>1, <1>2 DEF Favoured, Countries, Known

LEMMA ApartKept ==
    ASSUME setting' = setting, matched' = matched, NEW c \in Country, Apart(c),
           upload'[c].errors = {},
           \A r \in rows' : r.level > 0 =>
             r \in rows \/ (r.index \in Own(c)[r.level] <=> r.upload = c),
           \A d \in Country : task'[d].pc = "store" =>
             \/ task'[d] = task[d]
             \/ (task'[d].index \in Own(c)[task'[d].level] <=> d = c)
    PROVE  Apart(c)'
<1>1. Own(c)' = Own(c)
  BY SameOwn
<1> QED
  BY <1>1 DEF Apart

\* A step of one task
LEMMA FlawlessKept ==
    ASSUME FlawlessInv, setting' = setting, matched' = matched, NEW d \in Country,
           upload'[d].status # "",
           upload'[d].status = "Error" => upload'[d].errors # {},
           \A e \in Country \ {d} : upload'[e] = upload[e],
           \A c \in Country : Favoured(c) /\ Apart(c) => Apart(c)'
    PROVE  FlawlessInv'
<1>1. \A c : Favoured(c)' <=> Favoured(c)
  BY SameOwn
<1> QED
  BY <1>1 DEF FlawlessInv

LEMMA InitFlawless == Init => FlawlessInv
<1> SUFFICES ASSUME Init, NEW c \in Country
             PROVE  upload[c].status = "" /\ upload[c].errors = {} /\ Apart(c)
  BY DEF FlawlessInv
<1>1. upload[c].status = "" /\ upload[c].errors = {} /\ rows = {}
  BY DEF Init, Blank
<1>2. \A d \in Country : task[d].pc = "idle"
  BY DEF Init, Idle
<1> QED
  BY <1>1, <1>2 DEF Apart

\* A step after which nothing is stored and nothing is validated
LEMMA BlankFlawless ==
    ASSUME rows' = {},
           \A c \in Country : /\ upload'[c].errors = {} /\ upload'[c].status # "Error"
                              /\ task'[c].pc = "idle"
    PROVE  FlawlessInv'
BY DEF FlawlessInv, Apart

LEMMA RequestFlawless ==
    ASSUME IInv, TreesInv, FlawlessInv, setting' = setting,
           \/ Preprocess \/ PrepareValidation \/ Reset
           \/ \E C \in SUBSET Uploaded : Validate(C)
    PROVE  FlawlessInv'
<1>1. CASE Preprocess \/ PrepareValidation
  <2>1. \A c \in Country : upload[c].status = ""
    BY <1>1 DEF Preprocess, PrepareValidation, TreesInv, Prepared
  <2>2. rows = {} /\ \A c \in Country : task[c].pc = "idle"
    BY <2>1, NoTrees
  <2>3. UNCHANGED <<upload, task, rows>>
    BY <1>1 DEF Preprocess, PrepareValidation
  <2> QED
    BY <2>1, <2>2, <2>3, BlankFlawless DEF FlawlessInv
<1>2. CASE Reset
  <2>1. \A c \in Country : task[c].pc = "idle"
    BY <1>2 DEF Reset, IInv, Marked, AtWork
  <2> QED
    BY <1>2, <2>1, BlankFlawless DEF Reset, Blank
<1>3. ASSUME NEW C \in SUBSET Uploaded, Validate(C)
      PROVE  FlawlessInv'
  <2>1. rows = {} /\ \A c \in Country : task[c].pc = "idle"
    BY <1>3, NoTrees DEF Validate
  <2>2. \A c \in Country : upload'[c].errors = {} /\ upload'[c].status # "Error"
    <3>1. PICK level :
            upload' = [c \in Country |-> IF c \in C
                         THEN [Blank EXCEPT !.status = "Started", !.max = level[c]]
                         ELSE Blank]
      BY <1>3 DEF Validate
    <3> QED
      BY <3>1 DEF Blank
  <2> QED
    BY <1>3, <2>1, <2>2, BlankFlawless DEF Validate
<1> QED
  BY <1>1, <1>2, <1>3

LEMMA BeginFlawless ==
    ASSUME IInv, TreesInv, FlawlessInv, setting' = setting, NEW d \in Country, Begin(d)
    PROVE  FlawlessInv'
<1>1. /\ upload' = [upload EXCEPT ![d].status = "Processing"] /\ matched' = matched
      /\ \A r \in rows' : r \in rows \/ r = Clone(d)
  BY DEF Begin, prepared
<1>2. /\ \A e \in Country \ {d} : upload'[e] = upload[e]
      /\ upload'[d].status = "Processing" /\ upload'[d].errors = upload[d].errors
  BY <1>1 DEF IInv, Typed, Row
<1>3. \A e \in Country : task'[e].pc = "store" => task'[e] = task[e]
  BY Next_Level DEF Begin, IInv
<1>4. ASSUME NEW c \in Country, Favoured(c), Apart(c)
      PROVE  Apart(c)'
  <2>1. upload'[c].errors = {}
    BY <1>2, <1>4 DEF Apart
  <2>2. \A r \in rows' : r.level > 0 => r \in rows
    BY <1>1 DEF Clone
  <2> QED
    BY <1>1, <1>3, <1>4, <2>1, <2>2, ApartKept
<1> QED
  BY <1>1, <1>2, <1>4, FlawlessKept

LEMMA CheckUnitFlawless ==
    ASSUME IInv, TreesInv, FlawlessInv, setting' = setting, NEW d \in Country, NEW i,
           NEW doubt \in BOOLEAN, CheckUnit(d, i, doubt)
    PROVE  FlawlessInv'
<1>0. PICK l : l = task[d].level
  OBVIOUS
<1> DEFINE E == ErrorsOf(d, l, i, doubt)
<1>1. /\ task[d].pc = "read" /\ upload[d].status = "Processing" /\ i \in Left(d)
      /\ upload' = [upload EXCEPT ![d].errors = @ \cup E]
      /\ rows' \subseteq rows /\ matched' = matched
      /\ task' = [task EXCEPT ![d].index = i,
                              ![d].pc = IF Parses(Layer(l)[i]) THEN "store" ELSE "read"]
  BY <1>0 DEF CheckUnit, IInv, Marked, prepared
<1>2. i \in DOMAIN Layer(l) /\ i > task[d].index /\ Included(d, l, i)
  BY <1>0, <1>1 DEF Left
<1>3. /\ \A e \in Country \ {d} : upload'[e] = upload[e]
      /\ upload'[d].status = "Processing" /\ upload'[d].errors = upload[d].errors \cup E
  BY <1>1 DEF IInv, Typed, Row
<1>4. /\ \A e \in Country \ {d} : task'[e] = task[e]
      /\ task'[d].level = l /\ task'[d].index = i
  BY <1>0, <1>1 DEF IInv, Typed, Task
<1>5. l \in LevelsOf(d)
  BY <1>0, <1>1 DEF TreesInv, Reading, Reads
<1>6. ASSUME NEW c \in Country, Favoured(c), Apart(c)
      PROVE  Apart(c)'
  <2>1. upload'[c].errors = {}
    <3>1. CASE c = d
      <4>1. E = {}
        BY <1>0, <1>1, <1>2, <1>6, <3>1, NoFault
      <4> QED
        BY <1>3, <1>6, <3>1, <4>1 DEF Apart
    <3>2. CASE c # d
      BY <1>3, <1>6, <3>2 DEF Apart
    <3> QED
      BY <3>1, <3>2
  <2>2. i \in Own(c)[l] <=> d = c
    <3>1. upload[d].status # ""
      BY <1>1
    <3> QED
      BY <1>2, <1>5, <1>6, <3>1, OwnTask
  <2>3. \A e \in Country : task'[e].pc = "store" =>
          \/ task'[e] = task[e]
          \/ (task'[e].index \in Own(c)[task'[e].level] <=> e = c)
    BY <1>4, <2>2
  <2> QED
    BY <1>1, <1>6, <2>1, <2>3, ApartKept
<1> QED
  BY <1>1, <1>3, <1>6, FlawlessKept

LEMMA TypeFailsFlawless ==
    ASSUME IInv, FlawlessInv, setting' = setting, NEW d \in Country, TypeFails(d)
    PROVE  FlawlessInv'
<1>1. /\ upload[d].status = "Processing" /\ matched' = matched
      /\ upload' = upload /\ rows' = rows
      /\ task' = [task EXCEPT ![d] = Idle]
  BY DEF TypeFails, IInv, Marked, prepared
<1>2. \A e \in Country : task'[e].pc = "store" => task'[e] = task[e]
  BY <1>1 DEF IInv, Typed, Task, Idle
<1>3. ASSUME NEW c \in Country, Favoured(c), Apart(c)
      PROVE  Apart(c)'
  <2>1. upload'[c].errors = {}
    BY <1>1, <1>3 DEF Apart
  <2> QED
    BY <1>1, <1>2, <1>3, <2>1, ApartKept
<1> QED
  BY <1>1, <1>3, FlawlessKept

LEMMA StoreUnitFlawless ==
    ASSUME IInv, TreesInv, FlawlessInv, setting' = setting, NEW d \in Country, StoreUnit(d)
    PROVE  FlawlessInv'
<1>1. /\ task[d].pc = "store" /\ upload[d].status = "Processing"
      /\ upload' = upload /\ matched' = matched
      /\ task' = [task EXCEPT ![d].pc = "read"]
  BY DEF StoreUnit, IInv, Marked, prepared
<1>2. PICK n : /\ rows' = rows \cup {n}
               /\ n.upload = d /\ n.level = task[d].level /\ n.index = task[d].index
  <2> DEFINE P == Parents(d, task[d].level, task[d].index)
             m == [upload |-> d, level |-> task[d].level, index |-> task[d].index,
                   parent |-> IF P = {} THEN 0 ELSE Newest(P).index]
  <2>1. rows' = rows \cup {m}
    BY DEF StoreUnit
  <2>2. m.upload = d /\ m.level = task[d].level /\ m.index = task[d].index
    OBVIOUS
  <2> HIDE DEF m
  <2> QED
    BY <2>1, <2>2
<1>3. \A e \in Country : task'[e].pc = "store" => task'[e] = task[e]
  BY <1>1 DEF IInv, Typed, Task
<1>4. ASSUME NEW c \in Country, Favoured(c), Apart(c)
      PROVE  Apart(c)'
  <2>1. upload'[c].errors = {}
    BY <1>1, <1>4 DEF Apart
  <2>2. n.index \in Own(c)[n.level] <=> n.upload = c
    BY <1>1, <1>2, <1>4 DEF Apart
  <2> QED
    BY <1>1, <1>2, <1>3, <1>4, <2>1, <2>2, ApartKept
<1> QED
  BY <1>1, <1>4, FlawlessKept

LEMMA CloseLevelFlawless ==
    ASSUME IInv, TreesInv, FlawlessInv, setting' = setting, NEW d \in Country, CloseLevel(d)
    PROVE  FlawlessInv'
<1>0. PICK l : l = task[d].level
  OBVIOUS
<1> DEFINE E == If(l > 0 /\ WithinOthers(d, l) # {}, "Within")
<1>1. /\ task[d].pc = "read" /\ upload[d].status = "Processing"
      /\ upload' = [upload EXCEPT ![d].errors = @ \cup E]
      /\ rows' = rows /\ matched' = matched
  BY <1>0 DEF CloseLevel, IInv, Marked, prepared
<1>2. /\ \A e \in Country \ {d} : upload'[e] = upload[e]
      /\ upload'[d].status = "Processing" /\ upload'[d].errors = upload[d].errors \cup E
  BY <1>1 DEF IInv, Typed, Row
<1>3. \A e \in Country : task'[e].pc = "store" => task'[e] = task[e]
  BY Next_Level DEF CloseLevel, IInv
<1>4. ASSUME NEW c \in Country, Favoured(c), Apart(c)
      PROVE  Apart(c)'
  <2>1. ASSUME c = d, l > 0, NEW r \in WithinOthers(c, l)
        PROVE  FALSE
    <3>1. PICK s \in InFile(l) : Within(UnitOf(r), UnitOf(s))
      BY <2>1 DEF WithinOthers
    <3>2. r \in rows /\ r.level = l /\ r.upload = c /\ s \in rows /\ s.level = l
      BY <2>1 DEF WithinOthers, InFile
    <3>3. /\ l \in Nat \ {0} /\ r.index \in DOMAIN Layer(l)
          /\ UnitOf(r) = Layer(l)[r.index] /\ UnitOf(s) = Layer(l)[s.index]
      BY <2>1, <3>2, RowInFile DEF TreesInv
    <3>4. r.index \in Own(c)[l]
      BY <1>4, <2>1, <3>2 DEF Apart
    <3>5. s.index # r.index
      BY <3>1, <3>3 DEF Within
    <3>6. ~ Layer(l)[r.index].place \subseteq UnitOf(s).place
      BY <1>4, <3>3, <3>4, <3>5, NoneNear
    <3> QED
      BY <3>1, <3>3, <3>6 DEF Within
  <2>2. upload'[c].errors = {}
    <3>1. CASE c = d
      <4>1. E = {}
        BY <2>1, <3>1 DEF If
      <4> QED
        BY <1>2, <1>4, <3>1, <4>1 DEF Apart
    <3>2. CASE c # d
      BY <1>2, <1>4, <3>2 DEF Apart
    <3> QED
      BY <3>1, <3>2
  <2> QED
    BY <1>1, <1>3, <1>4, <2>2, ApartKept
<1> QED
  BY <1>1, <1>2, <1>4, FlawlessKept

LEMMA FinishFlawless ==
    ASSUME IInv, TreesInv, FlawlessInv, setting' = setting, NEW d \in Country, Finish(d)
    PROVE  FlawlessInv'
<1> DEFINE E == upload[d].errors \cup If(~ Known(d) /\ TreeOf(d) = {}, "CodeMissing")
<1>1. /\ upload' = [upload EXCEPT ![d].errors = E,
                                  ![d].status = IF E = {} THEN "Valid" ELSE "Error"]
      /\ task' = [task EXCEPT ![d] = Idle] /\ rows' = rows /\ matched' = matched
  BY DEF Finish, prepared
<1>2. /\ \A e \in Country \ {d} : upload'[e] = upload[e]
      /\ upload'[d].errors = E /\ upload'[d].status = IF E = {} THEN "Valid" ELSE "Error"
  BY <1>1 DEF IInv, Typed, Row
<1>3. \A e \in Country : task'[e].pc = "store" => task'[e] = task[e]
  BY <1>1 DEF IInv, Typed, Task, Idle
<1>4. ASSUME NEW c \in Country, Favoured(c), Apart(c)
      PROVE  Apart(c)'
  <2>1. upload'[c].errors = {}
    <3>1. CASE c = d
      <4>1. E = {}
        BY <1>4, <3>1 DEF Apart, Favoured, If
      <4> QED
        BY <1>2, <3>1, <4>1
    <3>2. CASE c # d
      BY <1>2, <1>4, <3>2 DEF Apart
    <3> QED
      BY <3>1, <3>2
  <2> QED
    BY <1>1, <1>3, <1>4, <2>1, ApartKept
<1>5. upload'[d].status # "" /\ (upload'[d].status = "Error" => upload'[d].errors # {})
  BY <1>2
<1> QED
  BY <1>1, <1>2, <1>4, <1>5, FlawlessKept

LEMMA NextFlawless ==
    ASSUME IInv, TreesInv, FlawlessInv, [Next]_<<vars, setting>>
    PROVE  FlawlessInv'
<1>1. CASE UNCHANGED <<vars, setting>>
  <2>1. /\ setting' = setting /\ matched' = matched
        /\ upload' = upload /\ task' = task /\ rows' = rows
    BY <1>1 DEF vars, prepared
  <2>2. \A c : Own(c)' = Own(c) /\ (Favoured(c)' <=> Favoured(c))
    BY <2>1, SameOwn
  <2> QED
    BY <2>1, <2>2 DEF FlawlessInv, Apart
<1>2. ASSUME setting' = setting,
             \/ Preprocess \/ PrepareValidation \/ Reset
             \/ \E C \in SUBSET Uploaded : Validate(C)
      PROVE  FlawlessInv'
  BY <1>2, RequestFlawless
<1>3. ASSUME setting' = setting, NEW d \in Country, TaskStep(d)
      PROVE  FlawlessInv'
  BY <1>3, BeginFlawless, CheckUnitFlawless, TypeFailsFlawless, StoreUnitFlawless,
     CloseLevelFlawless, FinishFlawless DEF TaskStep
<1> QED
  BY <1>1, <1>2, <1>3 DEF Next

\* A flawless country that is published is valid each time it is validated,
\* whatever else the session holds: FlawlessValid.
THEOREM FlawlessIsValid == Spec => []FlawlessValid
<1>1. Init => FlawlessInv
  BY InitFlawless
<1>2. IInv /\ TreesInv /\ FlawlessInv /\ [Next]_<<vars, setting>> => FlawlessInv'
  BY NextFlawless
<1>3. FlawlessInv => FlawlessValid
  BY DEF FlawlessInv, FlawlessValid, Favoured, Apart
<1> QED
  BY <1>1, <1>2, <1>3, TreesInvariant, PTL DEF Spec

=============================================================================
