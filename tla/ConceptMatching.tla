--------------------------- MODULE ConceptMatching ---------------------------
(***************************************************************************)
(* How the units of a country keep their identity from one revision to the *)
(* next.  Boundary matching (AdminBoundaryMatching) compares every unit of *)
(* an upload with the approved units of earlier revisions: a unit that     *)
(* overlaps one enough is the same concept and takes over its uuid and its *)
(* code, the others get a code that continues the sequence of their        *)
(* parent.  The reviewer may overrule a match (SwapEntityConcept) or choose*)
(* another one (CompareBoundary, ConfirmRematchBoundary); approval numbers *)
(* the new concepts (generate_concept_ucode) and publishes the revision.   *)
(*                                                                         *)
(* The module follows one country.  A geometry is a place, Similar says how*)
(* far two places overlap.  A unique_code is the sequence of the numbers in*)
(* it, the country's own being empty.  A uuid is <<upload, unit, n>>, n the*)
(* number of the reviewer's change that made it.                           *)
(***************************************************************************)
EXTENDS Naturals, Sequences, FiniteSets

CONSTANTS
    Upload,     \* EntityUploadStatus rows of one country, one per session
    MaxUnits,   \* no upload has more units than this
    Place,      \* geometries
    Similar,    \* how far two geometries overlap, see below
    Shape,      \* the layer files each upload may consist of
    Date,       \* start of validity: started_at or historical_start_date
    Part,       \* what versions are counted in, see below
    Historical, \* the uploads of sessions with is_historical_upload
    Elsewhere,  \* the versions other countries of the dataset have
    EditLimit,  \* a reviewer changes at most so many matches of each upload
    Dialogs,    \* rematch dialogs that are open at a time
    None        \* a NULL foreign key

\* Overlap of two geometries: none at all, below a threshold of the dataset,
\* exactly at the thresholds, above them.
Disjoint == 0
Below == 1
AtThreshold == 2
Above == 3

\* Versions are counted in parts of which Part[0] are one: so many that the
\* distance of two versions can be halved once for every upload.  That k
\* approved ones are Part[k] apart is what this leaves of one.
One == Part[0]

Slot == Upload \X (1..MaxUnits)
NoCode == <<0>>                     \* unique_code ''

\* What a layer file says of a unit; the parent is the number of the parent
\* unit, 0 for the country.  Units are in the order of matching: by level,
\* then by internal code.
UnitData == [level : 0..2, parent : 0..MaxUnits, place : Place]

ASSUME ConceptAssumption ==
    /\ MaxUnits \in Nat \ {0} /\ EditLimit \in [Upload -> Nat] /\ Dialogs \in Nat
    /\ Similar \in [Place \X Place -> 0..3]
    /\ Date \in [Upload -> Nat] /\ Historical \subseteq Upload
    /\ IsFiniteSet(Upload) /\ Part \in [0..Cardinality(Upload) -> Nat \ {0}]
    /\ \A k \in 1..Cardinality(Upload) : Part[k - 1] = 2 * Part[k]
    /\ Elsewhere \subseteq Nat
    /\ None \notin Slot \cup Upload
    /\ Shape \in [Upload -> SUBSET Seq(UnitData)]
    /\ \A u \in Upload : \A s \in Shape[u] :
         /\ Len(s) \in 1..MaxUnits
         /\ s[1].level = 0 /\ s[1].parent = 0
         /\ \A i \in 2..Len(s) : /\ s[i].parent \in 1..(i - 1)
                                 /\ s[i].level = s[s[i].parent].level + 1

VARIABLES
    stage,   \* how far each upload is
    units,   \* the units of each upload, <<>> when there are none
    cloned,  \* the uploads whose country row is a clone of the original's
    orig,    \* original_geographical_entity: the upload that brought it
    version, \* unique_code_version of the upload and its units
    at,      \* the unit boundary matching is at
    row,     \* the columns of the units, with their BoundaryComparison
    looked,  \* rematch dialogs: the pairs CompareBoundary was answered for
    edits,   \* the changes the reviewer has made
    together, \* history: two uploads of the country were in review at once
    clashed  \* history: the units whose last rematch was confirmed although
             \* another unit had taken the concept since the dialog answered

uploadVars == <<units, cloned, orig, version>>
vars == <<stage, uploadVars, at, row, looked, edits, together, clashed>>

-----------------------------------------------------------------------------
(* Values                                                                  *)

Stage == {"none", "validated", "matching", "rest", "coding", "review",
          "numbered", "approved", "rejected"}

\* The stages in which the upload's status is Reviewing
Reviewing == {"matching", "rest", "coding", "review"}

Uuid == {<<u, i, n>> : u \in Upload, i \in 1..MaxUnits, n \in Nat}

RowData == [uuid : Uuid, code : Seq(Nat), cmp : Slot \cup {None},
            same : BOOLEAN, concept : Nat]

Units(u) == {<<u, i>> : i \in 1..Len(units[u])}

\* get_new_entities_in_upload: a cloned country row is in no layer file.
NewUnits(u) == IF u \in cloned THEN Units(u) \ {<<u, 1>>} ELSE Units(u)

Unit(r) == units[r[1]][r[2]]
Parent(r) == <<r[1], Unit(r).parent>>
Overlap(r, q) == Similar[<<Unit(r).place, Unit(q).place>>]

Approved == {u \in Upload : stage[u] = "approved"}
ApprovedUnits == UNION {Units(u) : u \in Approved}

LastOf(s) == s[Len(s)]

-----------------------------------------------------------------------------
Init ==
    /\ stage = [u \in Upload |-> "none"]
    /\ units = [u \in Upload |-> <<>>]
    /\ cloned = {}
    /\ orig = [u \in Upload |-> None]
    /\ version = [u \in Upload |-> 0]
    /\ at = [u \in Upload |-> 0]
    /\ row = [r \in Slot |-> [uuid |-> <<r[1], r[2], 0>>, code |-> NoCode,
                              cmp |-> None, same |-> FALSE, concept |-> 0]]
    /\ looked = {}
    /\ edits = [u \in Upload |-> 0]
    /\ together = FALSE
    /\ clashed = {}

\* The units of an upload that is deleted, or not there yet, have no columns.
EmptyRow(r) == [uuid |-> <<r[1], r[2], 0>>, code |-> NoCode, cmp |-> None,
                same |-> FALSE, concept |-> 0]

-----------------------------------------------------------------------------
(* run_validation creates the units of an upload                           *)

\* The current revisions: approved and not superseded by an approved one.
Current == {o \in Approved \ Historical :
              ~ \E w \in Approved \ Historical : orig[w] = o}

\* An upload of a known country revises a current revision; its country row
\* is cloned from it when the layer files have no level 0.
Validate(u, s, o, clone) ==
    /\ stage[u] = "none" /\ s \in Shape[u]
    /\ IF Current = {} THEN o = None ELSE o \in Current
    /\ clone => o # None
    /\ stage' = [stage EXCEPT ![u] = "validated"]
    /\ units' = [units EXCEPT ![u] = s]
    /\ orig' = [orig EXCEPT ![u] = o]
    /\ cloned' = IF clone THEN cloned \cup {u} ELSE cloned
    /\ row' = IF clone
              THEN [row EXCEPT ![<<u, 1>>] = [row[<<o, 1>>] EXCEPT
                                               !.cmp = None, !.same = FALSE]]
              ELSE row
    /\ UNCHANGED <<version, at, looked, edits, together, clashed>>

-----------------------------------------------------------------------------
(* ReadyToReview and the version of the revision                           *)

SetMax(S) == CHOOSE x \in S : \A y \in S : y <= x
SetMin(S) == CHOOSE x \in S : \A y \in S : x <= y

\* generate_upload_unique_code_version: after the last revision, before the
\* first, or half way between two, by date.
VersionFor_Newest(u) ==
    IF orig[u] = None THEN One ELSE SetMax({version[w] : w \in Approved}) + One

VersionFor(u) ==
    LET before == {w \in Approved : Date[w] < Date[u]}
        after == {w \in Approved : Date[w] > Date[u]}
        prev == CHOOSE w \in before : \A v \in before : Date[v] <= Date[w]
        next == CHOOSE w \in after : \A v \in after : Date[w] <= Date[v]
    IN  IF orig[u] = None \/ before \cup after = {} THEN One
        ELSE IF before = {} THEN version[next] \div 2
        ELSE IF after = {} THEN version[prev] + One
        ELSE (version[prev] + version[next]) \div 2

\* validate_selected_country: no other session has the country in review.
NotUnderReview(u) ==
    orig[u] = None \/ ~ \E w \in Upload \ {u} :
                          orig[w] = orig[u] /\ stage[w] \in Reviewing

\* Matching starts with the version and empty codes; a clone of the country
\* gets the version too and keeps its code.
StartMatching(u) ==
    /\ stage[u] = "validated" /\ NotUnderReview(u)
    /\ stage' = [stage EXCEPT ![u] = "matching"]
    /\ version' = [version EXCEPT ![u] = VersionFor(u)]
    /\ at' = [at EXCEPT ![u] = IF u \in cloned THEN 2 ELSE 1]
    /\ together' = (together \/ \E w \in Upload \ {u} :
                                stage[w] \in Reviewing \cup {"numbered"})
    /\ UNCHANGED <<units, cloned, orig, row, looked, edits, clashed>>

-----------------------------------------------------------------------------
(* AdminBoundaryMatching.check_entities                                    *)

Allocated_None(u) == {}

\* get_allocated_comparison_entities: the concepts already matched.
Allocated(u) == {row[row[r].cmp].uuid : r \in {x \in NewUnits(u) :
                                                 row[x].cmp # None}}

\* Another unit of the upload of r is compared with the concept of q.
Taken(r, q) ==
    \E x \in NewUnits(r[1]) \ {r} :
      row[x].cmp # None /\ row[row[x].cmp].uuid = row[q].uuid

\* get_closest_entities: approved units whose geometry touches the unit's.
Closest(r) == {q \in ApprovedUnits : Overlap(r, q) > Disjoint}

SameLevel(r) == {q \in ApprovedUnits : Unit(q).level = Unit(r).level}

\* search_prev_version: the version before this one, which may be a version
\* only another country of the dataset has.
PreviousRevision(r) ==
    LET older == {v \in {version[w] : w \in Approved} \cup Elsewhere :
                    v < version[r[1]]}
    IN  {q \in ApprovedUnits : older # {} /\ version[q[1]] = SetMax(older)}

\* The order of the candidates: overlap, then the latest start date.
FirstOf(S, r) ==
    {q \in S : \A p \in S :
        \/ Overlap(r, q) > Overlap(r, p)
        \/ Overlap(r, q) = Overlap(r, p) /\ Date[q[1]] >= Date[p[1]]}

Tiers_PreviousFirst(r, S) ==
    <<S \cap PreviousRevision(r), S \cap SameLevel(r), S>>

\* find_comparison_boundary: same level of the previous revision, same level
\* of any, another level of the previous revision, another level of any.
Tiers(r, S) ==
    <<S \cap SameLevel(r) \cap PreviousRevision(r), S \cap SameLevel(r),
      S \cap PreviousRevision(r), S>>

\* The candidates the search ends with: the first in order of the first tier
\* that has any.
Choices(r) ==
    LET free == {q \in Closest(r) : /\ Overlap(r, q) = Above
                                    /\ row[q].uuid \notin Allocated(r[1])}
        tiers == Tiers(r, free)
        hit == {k \in DOMAIN tiers : tiers[k] # {}}
    IN  IF hit = {} THEN {} ELSE FirstOf(tiers[SetMin(hit)], r)

\* find_comparison_boundary_for_non_matching: any overlap, same level.
RestChoices(r) ==
    FirstOf({q \in Closest(r) \cap SameLevel(r) :
               row[q].uuid \notin Allocated(r[1])}, r)

\* check_is_same_entity compares with >=, the search above it with >.
IsSame(r, q) == Overlap(r, q) >= AtThreshold

CodeFrom_Whole(r, q) == row[q].code

\* generate_unique_code_from_comparison: the number of the comparison is kept
\* under the same parent.
CodeFrom(r, q) ==
    IF Unit(r).level = 0 THEN <<>>
    ELSE IF /\ Unit(r).level = Unit(q).level
            /\ row[Parent(r)].code = row[Parent(q)].code
         THEN Append(row[Parent(r)].code, LastOf(row[q].code))
         ELSE NoCode

\* process_comparison_boundary with the unit that was found
Matched(r, q) ==
    IF IsSame(r, q)
    THEN [row[r] EXCEPT !.cmp = q, !.same = TRUE,
                        !.uuid = row[q].uuid, !.code = CodeFrom(r, q)]
    ELSE [row[r] EXCEPT !.cmp = q, !.same = FALSE]

\* ... and without one: level 0 has its code already.
Unmatched(r) ==
    [row[r] EXCEPT !.cmp = None, !.same = FALSE,
                   !.code = IF Unit(r).level = 0 THEN <<>> ELSE @]

\* One round of the loop over the units; first revisions are not compared.
MatchUnit(u) ==
    LET r == <<u, at[u]>>
        choices == IF orig[u] = None THEN {} ELSE Choices(r)
    IN  /\ stage[u] = "matching" /\ at[u] <= Len(units[u])
        /\ \/ \E q \in choices : row' = [row EXCEPT ![r] = Matched(r, q)]
           \/ choices = {} /\ row' = [row EXCEPT ![r] = Unmatched(r)]
        /\ at' = [at EXCEPT ![u] = @ + 1]
        /\ UNCHANGED <<stage, uploadVars, looked, edits, together, clashed>>

StartRest(u) ==
    /\ stage[u] = "matching" /\ at[u] > Len(units[u])
    /\ stage' = [stage EXCEPT ![u] = "rest"]
    /\ at' = [at EXCEPT ![u] = IF u \in cloned THEN 2 ELSE 1]
    /\ UNCHANGED <<uploadVars, row, looked, edits, together, clashed>>

\* The second loop: units that found no match get what is left.
MatchRest(u) ==
    LET r == <<u, at[u]>>
        choices == IF orig[u] = None \/ row[r].cmp # None THEN {}
                   ELSE RestChoices(r)
    IN  /\ stage[u] = "rest" /\ at[u] <= Len(units[u])
        /\ \/ \E q \in choices : row' = [row EXCEPT ![r] = Matched(r, q)]
           \/ choices = {} /\ row' = row
        /\ at' = [at EXCEPT ![u] = @ + 1]
        /\ UNCHANGED <<stage, uploadVars, looked, edits, together, clashed>>

StartCoding(u) ==
    /\ stage[u] = "rest" /\ at[u] > Len(units[u])
    /\ stage' = [stage EXCEPT ![u] = "coding"]
    /\ UNCHANGED <<uploadVars, at, row, looked, edits, together, clashed>>

-----------------------------------------------------------------------------
(* Codes of new units                                                      *)

\* count_max_unique_code: how many concepts the units S of this level have
\* under this parent code.
CountConcepts(S, level, code) ==
    Cardinality({row[q].uuid : q \in {x \in S :
                   /\ Unit(x).level = level /\ level > 0
                   /\ row[Parent(x)].code = code}})

\* The numbers above count that no unit of the upload has under this parent.
FreeNumbers(u, level, code, count) ==
    {n \in (count + 1)..(count + 2 * MaxUnits) :
        ~ \E x \in NewUnits(u) : /\ Unit(x).level = level
                                 /\ row[x].code = Append(code, n)}

Uncoded(u) == {x \in NewUnits(u) : Unit(x).level > 0 /\ row[x].code = NoCode}

\* generate_unique_code_for_new_entities, for the units of one parent: level
\* by level, each unit the next free number.
CodeChildren(u) ==
    LET i == SetMin({x[2] : x \in Uncoded(u)})
        level == Unit(<<u, i>>).level
        code == row[Parent(<<u, i>>)].code
        todo == {x \in Uncoded(u) : Unit(x).parent = Unit(<<u, i>>).parent}
        free == FreeNumbers(u, level, code,
                            CountConcepts(ApprovedUnits, level, code))
        number(x) == CHOOSE n \in free :
                       Cardinality({m \in free : m <= n})
                         = Cardinality({y \in todo : y[2] <= x[2]})
    IN  /\ stage[u] = "coding" /\ Uncoded(u) # {}
        /\ row' = [r \in Slot |->
                     IF r \in todo
                     THEN [row[r] EXCEPT !.code = Append(code, number(r))]
                     ELSE row[r]]
        /\ UNCHANGED <<stage, uploadVars, at, looked, edits, together, clashed>>

FinishMatching(u) ==
    /\ stage[u] = "coding" /\ Uncoded(u) = {}
    /\ stage' = [stage EXCEPT ![u] = "review"]
    /\ UNCHANGED <<uploadVars, at, row, looked, edits, together, clashed>>

-----------------------------------------------------------------------------
(* The reviewer overrules the matching                                     *)

\* The units generate_new_unique_code counts: approved ones, and pending ones
\* of the same version.
Countable(u) ==
    UNION {Units(w) : w \in {v \in Upload :
             stage[v] = "approved" \/ version[v] = version[u]}}

\* generate_new_unique_code: the next number, without asking if it is taken.
NewCode(r) ==
    IF Unit(r).level = 0 THEN <<>>
    ELSE LET code == row[Parent(r)].code
         IN  Append(code, 1 + CountConcepts(Countable(r[1]), Unit(r).level,
                                            code))

FreshUuid(r) == <<r[1], r[2], edits[r[1]] + 1>>

\* The new flag and what follows from it.  A unit that becomes the same takes
\* uuid and code of its comparison; reallocate_new_unique_code, meant to close
\* the gap this leaves, looks for codes without the padding to four digits and
\* finds none below 1000.  A unit that becomes new gets a uuid of its own.
Reflagged(r, q, same) ==
    [row[r] EXCEPT
       !.cmp = q, !.same = same,
       !.uuid = IF same THEN row[q].uuid ELSE FreshUuid(r),
       !.code = IF same THEN row[q].code
                ELSE IF row[r].same THEN NewCode(r) ELSE @]

Edit(u) ==
    /\ stage[u] = "review" /\ edits[u] < EditLimit[u]
    /\ edits' = [edits EXCEPT ![u] = @ + 1]

SwapConcept_FlagOnly(u, r) ==
    /\ Edit(u) /\ r \in NewUnits(u) /\ row[r].cmp # None
    /\ row' = [row EXCEPT ![r].same = ~ @]
    /\ UNCHANGED <<stage, uploadVars, at, looked, together, clashed>>

SwapConcept(u, r) ==
    /\ Edit(u) /\ r \in NewUnits(u) /\ row[r].cmp # None
    /\ row' = [row EXCEPT ![r] = Reflagged(r, row[r].cmp, ~ row[r].same)]
    /\ UNCHANGED <<stage, uploadVars, at, looked, together, clashed>>

\* RematchClosestEntities and CompareBoundary: the reviewer picks a unit whose
\* concept no unit of the upload is compared with.
Compare(u, r, q) ==
    /\ stage[u] = "review" /\ r \in NewUnits(u)
    /\ q \in Closest(r) \ {row[r].cmp}
    /\ row[q].uuid \notin Allocated(u)
    /\ Cardinality(looked) < Dialogs
    /\ looked' = looked \cup {<<r, q>>}
    /\ UNCHANGED <<stage, uploadVars, at, row, edits, together, clashed>>

\* The answer is not asked for again: another dialog may have given the concept
\* to another unit.
ConfirmRematch(u, r, q) ==
    /\ Edit(u) /\ r[1] = u /\ <<r, q>> \in looked
    /\ row' = [row EXCEPT ![r] = Reflagged(r, q, IsSame(r, q))]
    /\ looked' = looked \ {<<r, q>>}
    /\ clashed' = IF Taken(r, q) THEN clashed \cup {r} ELSE clashed \ {r}
    /\ UNCHANGED <<stage, uploadVars, at, together>>

-----------------------------------------------------------------------------
(* The decision                                                            *)

Closed(u) == looked' = {x \in looked : x[1][1] # u}

NumberConcepts_LastRevision(u) ==
    LET count == Cardinality(IF orig[u] = None THEN {} ELSE
                             {row[q].uuid : q \in Units(orig[u])})
        new == {x \in NewUnits(u) : ~ row[x].same}
        number(x) == count + Cardinality({y \in new : y[2] <= x[2]})
    IN  /\ stage[u] = "review"
        /\ row' = [r \in Slot |->
                     IF r \notin NewUnits(u) THEN row[r]
                     ELSE [row[r] EXCEPT !.concept =
                             IF r \in new THEN number(r)
                             ELSE row[row[r].cmp].concept]]
        /\ stage' = [stage EXCEPT ![u] = "numbered"]
        /\ Closed(u)
        /\ UNCHANGED <<uploadVars, at, edits, together, clashed>>

\* generate_concept_ucode: units that are the same concept copy its number,
\* the others continue after the number of concepts the country has.
NumberConcepts(u) ==
    LET count == Cardinality({row[q].uuid : q \in ApprovedUnits})
        new == {x \in NewUnits(u) : ~ row[x].same}
        number(x) == count + Cardinality({y \in new : y[2] <= x[2]})
    IN  /\ stage[u] = "review"
        /\ row' = [r \in Slot |->
                     IF r \notin NewUnits(u) THEN row[r]
                     ELSE [row[r] EXCEPT !.concept =
                             IF r \in new THEN number(r)
                             ELSE row[row[r].cmp].concept]]
        /\ stage' = [stage EXCEPT ![u] = "numbered"]
        /\ Closed(u)
        /\ UNCHANGED <<uploadVars, at, edits, together, clashed>>

\* approve_new_revision_upload, approve_historical_upload
Approve(u) ==
    /\ stage[u] = "numbered"
    /\ stage' = [stage EXCEPT ![u] = "approved"]
    /\ UNCHANGED <<uploadVars, at, row, looked, edits, together, clashed>>

\* reject_revision deletes the units.
Reject(u) ==
    /\ stage[u] = "review"
    /\ stage' = [stage EXCEPT ![u] = "rejected"]
    /\ units' = [units EXCEPT ![u] = <<>>]
    /\ cloned' = cloned \ {u}
    /\ row' = [r \in Slot |-> IF r[1] = u THEN EmptyRow(r) ELSE row[r]]
    /\ Closed(u)
    /\ UNCHANGED <<orig, version, at, edits, together, clashed>>

-----------------------------------------------------------------------------
(* Specification                                                           *)

MatchingStep(u) ==
    \/ MatchUnit(u) \/ StartRest(u) \/ MatchRest(u) \/ StartCoding(u)
    \/ CodeChildren(u) \/ FinishMatching(u)

ReviewStep(u) ==
    \/ \E r \in NewUnits(u) :
         \/ SwapConcept(u, r)
         \/ \E q \in ApprovedUnits : Compare(u, r, q) \/ ConfirmRematch(u, r, q)
    \/ NumberConcepts(u) \/ Approve(u) \/ Reject(u)

Next ==
    \E u \in Upload :
      \/ \E s \in Shape[u], o \in Upload \cup {None}, clone \in BOOLEAN :
           Validate(u, s, o, clone)
      \/ StartMatching(u) \/ MatchingStep(u) \/ ReviewStep(u)

Spec == Init /\ [][Next]_vars

-----------------------------------------------------------------------------
(* Properties                                                              *)

\* Every variable keeps its type; an upload has units from its validation to
\* its rejection.
TypeOK ==
    /\ stage \in [Upload -> Stage]
    /\ \A u \in Upload : units[u] \in Shape[u] \cup {<<>>}
    /\ \A u \in Upload : units[u] = <<>> <=> stage[u] \in {"none", "rejected"}
    /\ cloned \subseteq {u \in Upload : orig[u] # None}
    /\ orig \in [Upload -> Upload \cup {None}]
    /\ version \in [Upload -> Nat]
    /\ at \in [Upload -> 0..(MaxUnits + 1)]
    /\ row \in [Slot -> RowData]
    /\ looked \subseteq Slot \X Slot
    /\ edits \in [Upload -> Nat] /\ \A u \in Upload : edits[u] <= EditLimit[u]
    /\ together \in BOOLEAN
    /\ clashed \subseteq Slot

\* The flag the reviewer sees and the concept agree at every moment: a unit
\* flagged as the same shares the uuid of the unit it is compared with, and a
\* pending one flagged as new shares its uuid with no approved unit, whichever
\* pass, swap or rematch set the flag last.
FlagMeansConcept ==
    \A u \in Upload : \A r \in NewUnits(u) :
      IF row[r].same
      THEN row[r].cmp # None /\ row[r].uuid = row[row[r].cmp].uuid
      ELSE stage[u] # "approved" =>
             \A q \in ApprovedUnits : row[q].uuid # row[r].uuid

\* No two units of an upload continue the same concept: both passes leave out
\* what is allocated, the dialog refuses it, and a swap cannot bring it back.
\* Two dialogs open at once can do it, and only they: the answer of the one is
\* not asked for again when the other was confirmed first.
OneToOne ==
    \A u \in Upload : \A r, q \in NewUnits(u) :
      r # q /\ row[r].uuid = row[q].uuid => r \in clashed \/ q \in clashed

\* The country has one first revision, and its uploads were never in review
\* at the same time: no approval was executing, and no upload of another
\* revision was under review, when one was sent to review.
Regular == ~ together /\ Cardinality({u \in Approved : orig[u] = None}) <= 1

\* Concept codes and concepts correspond: the count that starts the sequence
\* at approval is never behind the numbers in use, although units come and go
\* from one revision to the next.  Uploads that meet in review are left out.
ConceptNumbers ==
    ~ together => \A r, q \in ApprovedUnits :
      row[r].concept = row[q].concept <=> row[r].uuid = row[q].uuid

\* The versions of the revisions are in the order of their dates, also when a
\* historical revision is put before or between others, unless two of them
\* start at the same date.
VersionsFollowDates ==
    Regular /\ (\A u, w \in Approved : u # w => Date[u] # Date[w]) =>
      \A u, w \in Approved : Date[u] < Date[w] => version[u] < version[w]

\* The code of a unit is that of its parent and one number more.
ExtendsParent(r) ==
    Unit(r).level > 0 =>
      /\ Len(row[r].code) = Unit(r).level /\ row[r].code # NoCode
      /\ SubSeq(row[r].code, 1, Unit(r).level - 1) = row[Parent(r)].code

\* Codes of approved units extend their parents' and name one concept each, the
\* country's own is empty.
CleanHistory ==
    \A r \in ApprovedUnits :
      /\ ExtendsParent(r) /\ (Unit(r).level = 0 => row[r].code = <<>>)
      /\ \A q \in ApprovedUnits :
           row[r].code = row[q].code /\ Unit(r).level > 0
             => row[r].uuid = row[q].uuid

\* Matching gives every unit a code of its own that extends its parent's, the
\* parents that got theirs in the second pass or by numbering included,
\* provided the codes of earlier revisions were so.
MatchedCodes ==
    \A u \in Upload :
      stage[u] = "review" /\ edits[u] = 0 /\ CleanHistory
      => \A r \in Units(u) :
           /\ ExtendsParent(r)
           /\ \A q \in Units(u) \ {r} : row[r].code # row[q].code

\* In the order of find_comparison_boundary
Rank(r, q) ==
    CASE q \in SameLevel(r) \cap PreviousRevision(r) -> 1
      [] q \in SameLevel(r) \ PreviousRevision(r) -> 2
      [] q \in PreviousRevision(r) \ SameLevel(r) -> 3
      [] OTHER -> 4

\* Greedy matching leaves no unit with a worse match than it could have: every
\* sufficiently overlapping unit it would prefer to its own went to a unit
\* that comes before it.
NothingBetterLeft ==
    \A u \in Upload :
      stage[u] = "review" /\ edits[u] = 0 /\ ~ together /\ orig[u] # None =>
        \A r \in NewUnits(u), q \in ApprovedUnits :
          /\ Overlap(r, q) = Above
          /\ \A x \in NewUnits(u) :
               x[2] < r[2] => row[x].cmp = None
                              \/ row[row[x].cmp].uuid # row[q].uuid
          => row[r].cmp # None /\ Rank(r, row[r].cmp) <= Rank(r, q)

-----------------------------------------------------------------------------
(* What the documentation says of codes, and the code does not do          *)

\* docs/src/user/api/guide/index.md:75 "The Ucode is a unique identifier that
\* represents a specific version": no two approved units have the same, also
\* when no two uploads of the country met in review.
UcodesUnique ==
    Regular => \A r, q \in ApprovedUnits :
      r # q /\ Unit(r).level > 0 =>
        \/ row[r].code # row[q].code
        \/ version[r[1]] # version[q[1]]
=============================================================================
