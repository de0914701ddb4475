--------------------------- MODULE LayerValidation ---------------------------
(***************************************************************************)
(* What an upload session makes of its layer files: preprocessing finds    *)
(* the country of every unit of level 1 and the level each country can be  *)
(* imported to; validation tasks, one for each country and up to three at  *)
(* once, check the units of the same files, level by level, and store them *)
(* below a new revision of the country; the errors they found decide       *)
(* whether the upload is offered for import.                               *)
(*                                                                         *)
(* Who stops a task, and what a reset meets that does, is in UploadSession;*)
(* here a session is reset while nothing runs.  The world has one          *)
(* dimension: a geometry is a set of cells, its bounding box an interval.  *)
(*                                                                         *)
(* An operator X_Y states the code of X with the mistake Y: no             *)
(* specification uses it, it serves to show that a property can fail.      *)
(***************************************************************************)
EXTENDS Integers, FiniteSets, Sequences, FiniteSetsExt

CONSTANTS
    Code,    \* codes of units and countries, ordered
    Country, \* those that are of countries
    NoCode,  \* the empty code
    Setting  \* the sessions to consider, see below

\* What is wrong with a unit, whatever its neighbours are, and how
\* ErrorType calls it
Flaw == {"NameMissing", "Privacy", "RaisedPrivacy", "Degenerate", "SelfIntersects"}
Relational == {"CodeMissing", "ParentMissing", "DuplicatedCode", "DuplicatedGeometry",
               "Overlap", "Within", "NotWithinParent"}
ErrorType == Flaw \cup Relational

Place == {P \in SUBSET Nat : P # {} /\ IsFiniteSet(P)}

\* ... and what is wrong without an error: a geometry that is not valid for
\* another reason, a type that is not given
Unreported == {"Invalid", "TypeMissing"}

Feature == [code : Code \cup {NoCode}, parent : Code \cup {NoCode}, place : Place,
            flaws : SUBSET (Flaw \cup Unreported)]

ASSUME ValidationAssumption ==
    /\ Code \subseteq Nat /\ Country \subseteq Code /\ NoCode \notin Code
    /\ \A s \in Setting :
         /\ DOMAIN s.layers \subseteq Nat        \* the levels that have a file,
         /\ DOMAIN s.layers # {} /\ IsFiniteSet(DOMAIN s.layers)   \* without a gap, from 0 or 1
         /\ \A l \in DOMAIN s.layers : l > 1 => l - 1 \in DOMAIN s.layers
         /\ \A l \in DOMAIN s.layers : s.layers[l] \in Seq(Feature)
         /\ 0 \in DOMAIN s.layers =>
              \A i \in DOMAIN s.layers[0] : s.layers[0][i].code \in Country \cup {NoCode}
         /\ DOMAIN s.land \subseteq Country   \* countries that are published,
         /\ \A c \in DOMAIN s.land : s.land[c] \in Place   \* and where
         /\ s.tolerance \in Nat /\ s.threshold \in Nat   \* areas of overlaps, in cells
         /\ s.inTurn \in BOOLEAN                 \* one validation at a time

VARIABLES
    setting, \* the files, the published countries, the parameters of the session
    session, \* status of the session
    matched, \* the units of level 1 of each country: EntityUploadChildLv1
    offered, \* max_level_in_layer of each upload
    upload,  \* the uploads, by country: status, max_level, errors reported
    task,    \* where the validation of an upload stands
    rows,    \* the units stored: entities with the layer file as layer_file,
             \* and the clones of countries
    compared \* history: the units checked, by upload, level and index, each with
             \* the rows it was checked against that are still there

prepared == <<matched, offered>>
vars == <<session, prepared, upload, task, rows, compared>>

-----------------------------------------------------------------------------
(* The files                                                               *)

Layer(l) == IF l \in DOMAIN setting.layers THEN setting.layers[l] ELSE <<>>
Countries == 0 \in DOMAIN setting.layers   \* the upload starts with countries
Known(c) == c \in DOMAIN setting.land
CodesOf(l) == {Layer(l)[i].code : i \in DOMAIN Layer(l)} \ {NoCode}

Sound(f) == f.flaws \cap {"SelfIntersects", "Invalid"} = {}
HasType(f) == "TypeMissing" \notin f.flaws
Parses(f) == "Degenerate" \notin f.flaws

Box(P) == Min(P) .. Max(P)

-----------------------------------------------------------------------------
(* Preprocessing: the parents of the units of level 1                      *)

\* The countries to match with: temporary ones from the file of level 0, or
\* those that are published.
Ground ==
    IF Countries
    THEN [c \in CodesOf(0) |->
            Layer(0)[Min({i \in DOMAIN Layer(0) : Layer(0)[i].code = c})].place]
    ELSE setting.land

Near(P) == {c \in DOMAIN Ground : Box(Ground[c]) \cap Box(P) # {}}
Share(c, P) == Cardinality(Ground[c] \cap P)

\* The country that covers most of the geometry, ties in the order of codes
MatchedParent(P) ==
    CHOOSE c \in Near(P) : \A d \in Near(P) :
        \/ Share(c, P) > Share(d, P)
        \/ Share(c, P) = Share(d, P) /\ c <= d

\* The units of level 1 that lie in the country
Children(c) ==
    {i \in DOMAIN Layer(1) : LET P == Layer(1)[i].place
                             IN  Near(P) # {} /\ MatchedParent(P) = c}

\* The countries that have an upload
Uploaded == IF Countries THEN CodesOf(0) ELSE {c \in Country : matched[c] # {}}

-----------------------------------------------------------------------------
(* Preprocessing: how deep a country goes                                  *)

\* The codes of level l that the files hang below the given codes, which are
\* those of the level before "from"
Below(codes, from) ==
    LET f[l \in Nat] == IF l < from THEN codes
                        ELSE {Layer(l)[i].code : i \in
                               {j \in DOMAIN Layer(l) : Layer(l)[j].parent \in f[l - 1]}}
    IN  f

\* The search starts from the units that lie in the country if one of them
\* names another country as its parent, else from those that name this one.
Reaches(c, l) ==
    IF \E i \in Children(c) : Layer(1)[i].parent # c
    THEN Below({Layer(1)[i].code : i \in Children(c)}, 2)[l] # {}
    ELSE Below({c}, 1)[l] # {}

\* The level of the last file, whatever hangs below the country.
OfferedLevel_LastFile(c) == Max(DOMAIN setting.layers)

\* find_country_max_level
OfferedLevel(c) ==
    LET levels == {l \in DOMAIN setting.layers : l > 0}
        found == {l \in 1 .. Max(levels \cup {0}) : Reaches(c, l)}
    IN  IF found # {} THEN Max(found) ELSE Min(DOMAIN setting.layers)

-----------------------------------------------------------------------------
(* Units in the database                                                   *)

\* A row is named by its upload and by its place in the files; index 0 is the
\* clone of a published country.  The parent is a row of the level above.
Clone(c) == [upload |-> c, level |-> 0, index |-> 0, parent |-> 0]

UnitOf(r) ==
    IF r.index = 0
    THEN [code |-> r.upload, parent |-> NoCode, place |-> setting.land[r.upload],
          flaws |-> {}]
    ELSE Layer(r.level)[r.index]

\* The rows with a layer file, of whatever upload
InFile(l) == {r \in rows : r.level = l /\ r.index > 0}

TreeOf(c) == {r \in rows : r.upload = c}
ParentRows(c, l) == {r \in TreeOf(c) : r.level = l - 1}
Named(c, l, code) == {r \in ParentRows(c, l) : UnitOf(r).code = code}

-----------------------------------------------------------------------------
(* run_validation: the checks of one unit                                  *)

\* Units of level 1 are told by their parent's code, too.
Included_ByCode(c, l, i) ==
    IF l = 0 THEN Layer(0)[i].code = c ELSE Named(c, l, Layer(l)[i].parent) # {}

\* The units of level 0 are told by the code of the country, those of level 1
\* by the matching; the others need a stored unit with their parent's code.
Included(c, l, i) ==
    IF l = 0 THEN Layer(0)[i].code = c
    ELSE IF l = 1 /\ matched[c] # {} THEN i \in matched[c]
    ELSE Named(c, l, Layer(l)[i].parent) # {}

\* The rows among which the parent is: the newest of them, the others, which
\* are duplicates, are deleted.
Parents(c, l, i) ==
    IF l = 0 THEN {}
    ELSE IF l = 1 /\ matched[c] # {} THEN ParentRows(c, 1)
    ELSE Named(c, l, Layer(l)[i].parent)

Newest(R) == CHOOSE r \in R : \A s \in R : s.index <= r.index

If(condition, error) == IF condition THEN {error} ELSE {}

\* Only the units of the upload itself are asked for the code.
AttributeErrors_OwnCodes(c, l, f) ==
    (f.flaws \cap {"NameMissing", "Privacy", "RaisedPrivacy"})
    \cup If(f.code = NoCode, "CodeMissing")
    \cup If(l > 0 /\ \A r \in ParentRows(c, l) : UnitOf(r).code # f.parent, "ParentMissing")
    \cup If(\E r \in InFile(l) : r.upload = c /\ UnitOf(r).code = f.code, "DuplicatedCode")

AttributeErrors(c, l, f) ==
    (f.flaws \cap {"NameMissing", "Privacy", "RaisedPrivacy"})
    \cup If(f.code = NoCode, "CodeMissing")
    \cup If(l > 0 /\ \A r \in ParentRows(c, l) : UnitOf(r).code # f.parent, "ParentMissing")
    \cup If(f.code # NoCode /\ \E r \in InFile(l) : UnitOf(r).code = f.code,
            "DuplicatedCode")

Within(f, g) == f.place \subseteq g.place /\ f.place # g.place

\* The connected parts of an intersection
Parts(P) == {{y \in P : x .. y \subseteq P /\ y .. x \subseteq P} : x \in P}

\* One of them is above the tolerance and below the threshold, unless that is
\* zero.
Counts(P) ==
    \E Q \in Parts(P) : /\ Cardinality(Q) > setting.tolerance
                        /\ setting.threshold = 0 \/ Cardinality(Q) < setting.threshold

\* Two units share ground that counts and neither holds the other.
Overlapping(f, g) ==
    /\ ~ f.place \subseteq g.place /\ ~ g.place \subseteq f.place
    /\ Counts(f.place \cap g.place)

\* A geometry that is not valid passes all checks against others.  Of one
\* that is, the overlap with an invalid one is found, missed, or claimed when
\* the computation fails ("doubt" says which).
GeometryErrors(l, f, doubt) ==
    LET others == {UnitOf(r) : r \in InFile(l)}
    IN  If("SelfIntersects" \in f.flaws, "SelfIntersects")
        \cup If(Sound(f) /\ \E g \in others : Sound(g) /\ g.place = f.place,
                "DuplicatedGeometry")
        \cup If(Sound(f) /\ \E g \in others :
                  IF Sound(g) THEN Overlapping(f, g)
                  ELSE doubt /\ Box(f.place) \cap Box(g.place) # {},
                "Overlap")

\* Nothing lies within the parent of a country, as there is none.  (A hundredth
\* of a unit may lie outside, which is less than a cell.)
HierarchyErrors(l, f, P) ==
    If(\/ l = 0
       \/ LET parent == UnitOf(Newest(P))
          IN  Sound(f) /\ Sound(parent) /\ ~ f.place \subseteq parent.place,
       "NotWithinParent")

ErrorsOf(c, l, i, doubt) ==
    LET f == Layer(l)[i]
    IN  AttributeErrors(c, l, f)
        \cup IF Parses(f)
             THEN GeometryErrors(l, f, doubt) \cup HierarchyErrors(l, f, Parents(c, l, i))
             ELSE {"Degenerate"}

-----------------------------------------------------------------------------
(* is_validation_result_importable                                         *)

Allowable == {"SelfIntersects", "RaisedPrivacy"}
SuperadminBypass == Allowable \cup {"Degenerate", "Overlap", "DuplicatedGeometry",
                                    "Within", "NotWithinParent", "Privacy"}

\* The upload may be sent to review by a user, who is a superuser or not.
Importable(c, superuser) ==
    \/ upload[c].status = "Valid"
    \/ /\ upload[c].status = "Error" /\ upload[c].errors # {}
       /\ \/ upload[c].errors \subseteq Allowable
          \/ superuser /\ upload[c].errors \subseteq SuperadminBypass

-----------------------------------------------------------------------------
(* Requests and preprocessing                                              *)

Blank == [status |-> "", max |-> 0, errors |-> {}]
Idle == [pc |-> "idle", level |-> 0, index |-> 0]

\* A task waits or runs.
AtWork == \E c \in Country : upload[c].status = "Started" \/ task[c].pc # "idle"

\* LayerUploadPreprocess refuses a file of level 0 that has a code twice.
Preprocess ==
    /\ session = "Pending"
    /\ \A i, j \in DOMAIN Layer(0) :
         Layer(0)[i].code = Layer(0)[j].code /\ Layer(0)[i].code # NoCode => i = j
    /\ session' = "PreProcessing"
    /\ UNCHANGED <<prepared, upload, task, rows, compared>>

\* The geometries that preprocessing reads: one it cannot parse ends the task
\* and leaves the session in preprocessing.
Parseable ==
    \A i \in DOMAIN Layer(1) : /\ Parses(Layer(1)[i])
                               /\ Countries => \A j \in DOMAIN Layer(0) : Parses(Layer(0)[j])

\* prepare_validation
PrepareValidation ==
    /\ session = "PreProcessing" /\ Parseable
    /\ session' = "Ready"
    /\ matched' = [c \in Country |-> Children(c)]
    /\ offered' = [c \in Country |-> OfferedLevel(c)]
    /\ UNCHANGED <<upload, task, rows, compared>>

\* ValidateUploadSession: the countries selected, each up to a level that was
\* offered for it.
Validate(C) ==
    /\ session = "Ready" /\ C # {}
    /\ \A c \in Country : upload[c].status = ""
    /\ \E level \in [C -> DOMAIN setting.layers] :
         /\ \A c \in C : level[c] <= offered[c]
         /\ upload' = [c \in Country |-> IF c \in C
                         THEN [Blank EXCEPT !.status = "Started", !.max = level[c]]
                         ELSE Blank]
    /\ UNCHANGED <<session, prepared, task, rows, compared>>

\* The revisions stay.
Reset_KeepRevisions ==
    /\ ~ AtWork /\ \E c \in Country : upload[c].status # ""
    /\ upload' = [c \in Country |-> Blank]
    /\ UNCHANGED <<session, prepared, task, rows, compared>>

\* reset_qc_validation when no task runs: the revisions are deleted, and with
\* a country goes what is below it.
Reset ==
    /\ ~ AtWork /\ \E c \in Country : upload[c].status # ""
    /\ upload' = [c \in Country |-> Blank]
    /\ rows' = {} /\ compared' = {}
    /\ UNCHANGED <<session, prepared, task>>

-----------------------------------------------------------------------------
(* The validation task of an upload                                        *)

LevelsOf(c) == {l \in DOMAIN setting.layers : l <= upload[c].max}

\* The next file is read, those below level 0 only if there is a revision.
NextLevel(c, l, tree) ==
    LET left == {k \in LevelsOf(c) : k > l /\ (k = 0 \/ tree # {})}
    IN  \/ \E k \in left :
             /\ \A j \in left : k <= j
             /\ task' = [task EXCEPT ![c] = [pc |-> "read", level |-> k, index |-> 0]]
        \/ left = {} /\ task' = [task EXCEPT ![c] = [Idle EXCEPT !.pc = "verdict"]]

\* The upload is marked, and a published country cloned, unless the files
\* replace it: that clone is deleted before they are read.
Begin(c) ==
    LET root == IF Known(c) /\ ~ Countries THEN {Clone(c)} ELSE {}
    IN  /\ upload[c].status = "Started"
        /\ setting.inTurn => \A d \in Country : task[d].pc = "idle"
        /\ upload' = [upload EXCEPT ![c].status = "Processing"]
        /\ rows' = rows \cup root
        /\ NextLevel(c, -1, root)
        /\ UNCHANGED <<session, prepared, compared>>

\* The units of the file that are still to be read
Left(c) ==
    {i \in DOMAIN Layer(task[c].level) :
        i > task[c].index /\ Included(c, task[c].level, i)}

\* A unit is checked against what is stored by now; its errors are reported.
CheckUnit(c, i, doubt) ==
    LET l == task[c].level
        P == Parents(c, l, i)
        unit == [upload |-> c, level |-> l, index |-> i]
    IN  /\ task[c].pc = "read" /\ i \in Left(c) /\ \A j \in Left(c) : i <= j
        /\ upload' = [upload EXCEPT ![c].errors = @ \cup ErrorsOf(c, l, i, doubt)]
        /\ rows' = IF P = {} THEN rows ELSE rows \ (P \ {Newest(P)})
        /\ compared' = {p \in compared : p[2] \in rows'}
                       \cup {<<unit, s>> : s \in {r \in InFile(l) \cap rows' : Parses(Layer(l)[i])}}
        /\ task' = [task EXCEPT ![c].index = i,
                                ![c].pc = IF Parses(Layer(l)[i]) THEN "store" ELSE "read"]
        /\ UNCHANGED <<session, prepared>>

\* A type that is not given cannot be found or created: the task ends with an
\* exception and leaves the upload as it is.
TypeFails(c) ==
    /\ task[c].pc = "store" /\ ~ HasType(Layer(task[c].level)[task[c].index])
    /\ task' = [task EXCEPT ![c] = Idle]
    /\ UNCHANGED <<session, prepared, upload, rows, compared>>

\* It is stored.
StoreUnit(c) ==
    LET l == task[c].level
        i == task[c].index
        P == Parents(c, l, i)
    IN  /\ task[c].pc = "store" /\ HasType(Layer(l)[i])
        /\ rows' = rows \cup {[upload |-> c, level |-> l, index |-> i,
                               parent |-> IF P = {} THEN 0 ELSE Newest(P).index]}
        /\ task' = [task EXCEPT ![c].pc = "read"]
        /\ UNCHANGED <<session, prepared, upload, compared>>

\* The units of the upload that lie within another one
WithinOthers(c, l) ==
    {r \in InFile(l) : /\ r.upload = c /\ Sound(UnitOf(r))
                       /\ \E s \in InFile(l) : /\ Sound(UnitOf(s))
                                               /\ Within(UnitOf(r), UnitOf(s))}

\* At the end of a file below level 0 its units are checked again.  They are
\* checked one after the other, with the same outcomes: what the first check
\* missed, the last one misses too unless it was stored in between.
CloseLevel(c) ==
    LET l == task[c].level
    IN  /\ task[c].pc = "read" /\ Left(c) = {}
        /\ upload' = [upload EXCEPT ![c].errors =
                        @ \cup If(l > 0 /\ WithinOthers(c, l) # {}, "Within")]
        /\ NextLevel(c, l, TreeOf(c))
        /\ UNCHANGED <<session, prepared, rows, compared>>

\* An upload that got no revision gets no verdict.
Finish_Revised(c) ==
    /\ task[c].pc = "verdict" /\ TreeOf(c) # {}
    /\ upload' = [upload EXCEPT ![c].status =
                    IF upload[c].errors = {} THEN "Valid" ELSE "Error"]
    /\ task' = [task EXCEPT ![c] = Idle]
    /\ UNCHANGED <<session, prepared, rows, compared>>

\* The verdict: a new country that was not found is an error too.
Finish(c) ==
    LET errors == upload[c].errors \cup If(~ Known(c) /\ TreeOf(c) = {}, "CodeMissing")
    IN  /\ task[c].pc = "verdict"
        /\ upload' = [upload EXCEPT ![c].errors = errors,
                                    ![c].status = IF errors = {} THEN "Valid" ELSE "Error"]
        /\ task' = [task EXCEPT ![c] = Idle]
        /\ UNCHANGED <<session, prepared, rows, compared>>

-----------------------------------------------------------------------------
(* Specification                                                           *)

Init ==
    /\ setting \in Setting
    /\ session = "Pending"
    /\ matched = [c \in Country |-> {}] /\ offered = [c \in Country |-> 0]
    /\ upload = [c \in Country |-> Blank]
    /\ task = [c \in Country |-> Idle]
    /\ rows = {} /\ compared = {}

TaskStep(c) ==
    \/ Begin(c)
    \/ \E i \in Left(c), doubt \in BOOLEAN : CheckUnit(c, i, doubt)
    \/ TypeFails(c) \/ StoreUnit(c) \/ CloseLevel(c) \/ Finish(c)

Next ==
    /\ \/ Preprocess \/ PrepareValidation
       \/ \E C \in SUBSET Uploaded : Validate(C)
       \/ Reset
       \/ \E c \in Country : TaskStep(c)
    /\ UNCHANGED setting

Spec == Init /\ [][Next]_<<vars, setting>>

\* Tasks that were queued are carried on: as long as one of them has a step to
\* take, a step of one of them is taken.
Working == PrepareValidation \/ \E c \in Country : TaskStep(c)

FairSpec == Spec /\ WF_vars(Working)

-----------------------------------------------------------------------------
(* Properties                                                              *)

UploadStatus == {"", "Started", "Processing", "Valid", "Error"}

\* Every variable keeps its type; a stored unit has a parent in its own tree,
\* and is a unit of a file.
TypeOK ==
    /\ session \in {"Pending", "PreProcessing", "Ready"}
    /\ matched \in [Country -> SUBSET DOMAIN Layer(1)] /\ offered \in [Country -> Nat]
    /\ upload \in [Country -> [status : UploadStatus, max : Nat, errors : SUBSET ErrorType]]
    /\ task \in [Country -> [pc : {"idle", "read", "store", "verdict"},
                          level : Nat, index : Nat]]
    /\ \A r \in rows :
         /\ r \in [upload : Country, level : Nat, index : Nat, parent : Nat]
         /\ IF r.index = 0 THEN r = Clone(r.upload) /\ Known(r.upload)
                           ELSE r.index \in DOMAIN Layer(r.level)
         /\ r.level > 0 => \E p \in ParentRows(r.upload, r.level) : p.index = r.parent

\* The rows of an upload that a user may send to review.
Offered(r) == Importable(r.upload, FALSE)

Name(r) == [upload |-> r.upload, level |-> r.level, index |-> r.index]
Compared(r, s) == <<Name(r), s>> \in compared

\* What a user may send to review repeats nothing that was stored when it was
\* checked, however the validations interleave: neither a code of its level
\* nor, if both geometries are valid, ground that counts.  It may only enclose
\* a unit of another upload, never lie within one.  Two units of one upload, or
\* of validations that follow each other, do not escape each other: one of them
\* was checked when the other was stored.
NothingTwice ==
    \A l \in DOMAIN setting.layers : \A r, s \in InFile(l) :
      LET f == UnitOf(r)
          g == UnitOf(s)
      IN  r # s =>
            /\ setting.inTurn \/ r.upload = s.upload => Compared(r, s) \/ Compared(s, r)
            /\ Compared(r, s) /\ Offered(r) =>
                 /\ f.code # g.code
                 /\ Sound(f) /\ Sound(g) =>
                      \/ r.upload # s.upload /\ Within(g, f)
                      \/ /\ ~ f.place \subseteq g.place /\ ~ g.place \subseteq f.place
                         /\ ~ Counts(f.place \cap g.place)

\* The tree offered for import is what the files say of the country down to
\* the level selected: the units that lie in it, which all name it as their
\* parent, and below a unit exactly the ones that name it.  Only a superuser may
\* leave out a unit, one whose geometry cannot be parsed.
TreeIsFile ==
    \A c \in Country : Importable(c, TRUE) =>
      \A l \in LevelsOf(c) \ {0} : \A i \in DOMAIN Layer(l) :
        LET f == Layer(l)[i]
            stored == {r \in TreeOf(c) : r.level = l /\ r.index = i}
        IN  /\ stored # {} <=>
                 /\ Parses(f)
                 /\ IF l = 1 /\ matched[c] # {} THEN i \in matched[c]
                    ELSE Named(c, l, f.parent) # {}
            /\ \A r \in stored : \E p \in Named(c, l, f.parent) : p.index = r.parent

\* The level that was offered is reached, unless a unit of level 1 names a
\* country it does not lie in.
OfferedReached ==
    \A c \in Country :
      /\ Importable(c, FALSE)
      /\ \A i \in DOMAIN Layer(1) : Layer(1)[i].parent = c => i \in matched[c]
      => \A l \in LevelsOf(c) : \E r \in TreeOf(c) : r.level = l \/ l = 0

\* The units of the files that belong to a country, level by level
Own(c) ==
    LET own[l \in Nat] == IF l = 1 THEN matched[c]
                          ELSE {i \in DOMAIN Layer(l) : \E j \in own[l - 1] :
                                  Layer(l)[i].parent = Layer(l - 1)[j].code}
    IN  own

\* Nothing is wrong with a country of the files, and it keeps clear of the
\* other units of its levels.
Flawless(c) ==
    LET own == Own(c)
        Ground1(l, f) == IF l = 1 THEN {setting.land[c]}
                         ELSE {Layer(l - 1)[j].place : j \in
                                {k \in own[l - 1] : Layer(l - 1)[k].code = f.parent}}
    IN  \A l \in DOMAIN setting.layers : \A i \in own[l] :
          LET f == Layer(l)[i]
          IN  /\ f.flaws = {} /\ f.code # NoCode
              /\ l = 1 => f.parent = c
              /\ \A P \in Ground1(l, f) : f.place \subseteq P
              /\ \A j \in DOMAIN Layer(l) \ {i} :
                   /\ Layer(l)[j].code # f.code
                   /\ Box(Layer(l)[j].place) \cap Box(f.place) = {}

\* The faults of one country are not another one's: whatever else the session
\* holds and however the validations interleave, a flawless country that is
\* published already is valid, each time it is validated.
FlawlessValid ==
    \A c \in Country : ~ Countries /\ Known(c) /\ Flawless(c) => upload[c].status # "Error"

\* A unit of the country has no type.
Untyped(c) ==
    \E l \in LevelsOf(c) : \E i \in DOMAIN Layer(l) :
        Included(c, l, i) /\ ~ HasType(Layer(l)[i])

\* Preprocessing ends if it can read the geometries, and a validation that
\* was started ends with a verdict, unless one of the country's own units has
\* no type.
VerdictComes ==
    /\ session = "PreProcessing" /\ Parseable ~> session = "Ready"
    /\ \A c \in Country : upload[c].status \in {"Started", "Processing"}
                       ~> upload[c].status \in {"Valid", "Error"} \/ Untyped(c)
=============================================================================
